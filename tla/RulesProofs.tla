---------------------------- MODULE RulesProofs ----------------------------
(***************************************************************************)
(* Theorems about TargetingRules, for any regular expressions, attributes  *)
(* and rules, wherever floats begin to be printed in exponent form and     *)
(* however many bits an int has.                                           *)
(***************************************************************************)
EXTENDS TargetingRules, WellFoundedInduction, TLAPS

-----------------------------------------------------------------------------
(* Values read as floats and as ints *)

\* Numbers of a written value are all printed in full.
Plainly(w) == \A n \in Numbers(w) : n < ExpFrom

\* A number below ExpFrom is printed alike as a float and as an int.
LEMMA SameNumberText ==
  ASSUME NEW n, n < ExpFrom
  PROVE  ScalarText(Num("float", n)) = ScalarText(Num("int", n))
<1>. DEFINE f == Num("float", n)
            i == Num("int", n)
<1>1. f.type = "float" /\ f.number = n /\ i.type = "int" /\ i.number = n
  BY DEF Num
<1>2. ScalarText(f) = Decimal[n]
  <2>. HIDE DEF f, i
  <2>. QED BY <1>1 DEF ScalarText
<1>3. ScalarText(i) = Decimal[n]
  <2>. HIDE DEF f, i
  <2>. QED BY <1>1 DEF ScalarText
<1>. QED BY <1>2, <1>3

\* What reading does to a number, to a list and to anything else.
LEMMA ReadNumber ==
  ASSUME NEW w, NEW type, w.type = "number"
  PROVE  ReadAs(type, w) = Num(type, w.number)
BY DEF ReadAs

\* Reading a list reads its items.
LEMMA ReadList ==
  ASSUME NEW w, NEW type, w.type = "list"
  PROVE  /\ ReadAs(type, w).type = "list"
         /\ DOMAIN ReadAs(type, w).items = DOMAIN w.items
         /\ \A i \in DOMAIN w.items :
              ReadAs(type, w).items[i]
                = IF w.items[i].type = "number" THEN Num(type, w.items[i].number)
                                                ELSE w.items[i]
<1>. DEFINE read == [ i \in DOMAIN w.items |->
                        IF w.items[i].type = "number"
                        THEN Num(type, w.items[i].number) ELSE w.items[i] ]
<1>1. ReadAs(type, w) = List(read)
  BY DEF ReadAs
<1>2. List(read).type = "list" /\ List(read).items = read
  BY DEF List
<1>. QED BY <1>1, <1>2

\* Reading leaves anything else as it is.
LEMMA ReadOther ==
  ASSUME NEW w, NEW type, w.type \notin {"number", "list"}
  PROVE  ReadAs(type, w) = w
BY DEF ReadAs

\* What Num makes.
LEMMA NumShape ==
  ASSUME NEW type, NEW n
  PROVE  Num(type, n).type = type /\ Num(type, n).number = n
BY DEF Num

\* The text of anything but a list.
LEMMA ItemText ==
  ASSUME NEW v, v.type # "list"
  PROVE  Text(v) = ScalarText(v)
BY DEF Text

\* The same of the whole text.
LEMMA SameNumber ==
  ASSUME NEW n, n < ExpFrom
  PROVE  Text(Num("float", n)) = Text(Num("int", n))
<1>1. Text(Num("float", n)) = ScalarText(Num("float", n))
  <2>1. Num("float", n).type = "float"
    BY NumShape
  <2>. QED BY <2>1, ItemText
<1>2. Text(Num("int", n)) = ScalarText(Num("int", n))
  <2>1. Num("int", n).type = "int"
    BY NumShape
  <2>. QED BY <2>1, ItemText
<1>. QED BY <1>1, <1>2, SameNumberText

\* The items of two readings of a list are printed alike, each for itself and
\* inside the list.
LEMMA SameItems ==
  ASSUME NEW w, w.type = "list", Plainly(w),
         NEW i \in DOMAIN w.items
  PROVE  /\ ScalarText(ReadAs("float", w).items[i])
              = ScalarText(ReadAs("int", w).items[i])
         /\ Text(ReadAs("float", w).items[i]) = Text(ReadAs("int", w).items[i])
<1>1. CASE w.items[i].type = "number"
  <2>1. w.items[i].number < ExpFrom
    BY <1>1 DEF Plainly, Numbers
  <2>2. /\ ReadAs("float", w).items[i] = Num("float", w.items[i].number)
        /\ ReadAs("int", w).items[i] = Num("int", w.items[i].number)
    BY <1>1, ReadList
  <2>. QED BY <2>1, <2>2, SameNumberText, SameNumber
<1>2. CASE w.items[i].type # "number"
  <2>1. /\ ReadAs("float", w).items[i] = w.items[i]
        /\ ReadAs("int", w).items[i] = w.items[i]
    BY <1>2, ReadList
  <2>. QED BY <2>1
<1>. QED BY <1>1, <1>2

\* Two lists whose items are printed alike are printed alike.
LEMMA SameListText ==
  ASSUME NEW v, NEW w, v.type = "list", w.type = "list",
         DOMAIN v.items = DOMAIN w.items,
         \A i \in DOMAIN v.items : ScalarText(v.items[i]) = ScalarText(w.items[i])
  PROVE  Text(v) = Text(w)
<1>. DEFINE Before(i) == IF i = 1 THEN << >> ELSE << " " >>
            Items(u) == [ i \in DOMAIN u.items |-> Before(i) \o ScalarText(u.items[i]) ]
<1>1. Items(v) = Items(w)
  <2>. HIDE DEF Before
  <2>. QED OBVIOUS
<1>2. /\ Text(v) = << "[" >> \o FlattenSeq(Items(v)) \o << "]" >>
      /\ Text(w) = << "[" >> \o FlattenSeq(Items(w)) \o << "]" >>
  BY DEF Text
<1>. HIDE DEF Items
<1>. QED BY <1>1, <1>2

\* A value without large numbers is printed alike by both readings.
LEMMA SameText ==
  ASSUME NEW w, Plainly(w)
  PROVE  Text(ReadAs("float", w)) = Text(ReadAs("int", w))
<1>1. CASE w.type = "number"
  <2>1. w.number < ExpFrom
    BY <1>1 DEF Plainly, Numbers
  <2>. QED BY <1>1, <2>1, ReadNumber, SameNumber
<1>2. CASE w.type = "list"
  <2>1. DOMAIN ReadAs("float", w).items = DOMAIN ReadAs("int", w).items
    BY <1>2, ReadList
  <2>2. \A i \in DOMAIN ReadAs("float", w).items :
          ScalarText(ReadAs("float", w).items[i])
            = ScalarText(ReadAs("int", w).items[i])
    BY <1>2, ReadList, SameItems
  <2>3. ReadAs("float", w).type = "list" /\ ReadAs("int", w).type = "list"
    BY <1>2, ReadList
  <2>. QED BY <2>1, <2>2, <2>3, SameListText
<1>3. CASE w.type \notin {"number", "list"}
  BY <1>3, ReadOther
<1>. QED BY <1>1, <1>2, <1>3

\* A value is in both readings of a list or in neither.
LEMMA SameMembers ==
  ASSUME NEW v, NEW w, Plainly(w)
  PROVE  In(v, ReadAs("float", w)) <=> In(v, ReadAs("int", w))
<1>1. CASE w.type = "list"
  <2>1. /\ ReadAs("float", w).type = "list" /\ ReadAs("int", w).type = "list"
        /\ DOMAIN ReadAs("float", w).items = DOMAIN w.items
        /\ DOMAIN ReadAs("int", w).items = DOMAIN w.items
    BY <1>1, ReadList
  <2>2. \A i \in DOMAIN w.items :
          Equals(v, ReadAs("float", w).items[i])
            <=> Equals(v, ReadAs("int", w).items[i])
    BY <1>1, SameItems DEF Equals
  <2>. QED BY <2>1, <2>2 DEF In
<1>2. CASE w.type = "number"
  BY <1>2, ReadNumber, NumShape DEF In
<1>3. CASE w.type \notin {"number", "list"}
  BY <1>3, ReadOther DEF In
<1>. QED BY <1>1, <1>2, <1>3

\* As a number, a value is the same in both readings.
LEMMA SameMagnitude ==
  ASSUME NEW w
  PROVE  /\ IsNumber(ReadAs("float", w)) <=> IsNumber(ReadAs("int", w))
         /\ IsNumber(ReadAs("float", w)) =>
              ReadAs("float", w).number = ReadAs("int", w).number
<1>1. CASE w.type = "number"
  BY <1>1, ReadNumber, NumShape DEF IsNumber
<1>2. CASE w.type = "list"
  BY <1>2, ReadList DEF IsNumber
<1>3. CASE w.type \notin {"number", "list"}
  BY <1>3, ReadOther
<1>. QED BY <1>1, <1>2, <1>3

-----------------------------------------------------------------------------
(* Conditions *)

\* Two conditions that differ in their values alone match alike if their
\* values are the same as far as their operator looks.
LEMMA AlikeConditions ==
  ASSUME NEW f, NEW g, NEW context,
         f.attribute = g.attribute, f.operator = g.operator,
         \/ /\ ComparesNumbers(f)
            /\ IsNumber(f.value) <=> IsNumber(g.value)
            /\ IsNumber(f.value) => f.value.number = g.value.number
         \/ /\ ~ ComparesNumbers(f)
            /\ Text(f.value) = Text(g.value)
            /\ \A v : In(v, f.value) <=> In(v, g.value)
  PROVE  EvaluateCondition(f, context) <=> EvaluateCondition(g, context)
<1>. DEFINE v == Resolve(f.attribute, context)
<1>1. CASE ComparesNumbers(f)
  <2>1. f.operator \in {"greater_than", "less_than"}
    BY <1>1 DEF ComparesNumbers
  <2>. QED BY <1>1, <2>1 DEF EvaluateCondition
<1>2. CASE ~ ComparesNumbers(f)
  <2>1. Text(f.value) = Text(g.value)
    BY <1>2
  <2>2. In(v, f.value) <=> In(v, g.value)
    BY <1>2
  <2>3. Equals(v, f.value) <=> Equals(v, g.value)
    BY <2>1 DEF Equals
  <2>4. f.operator \notin {"greater_than", "less_than"}
    BY <1>2 DEF ComparesNumbers
  <2>. QED BY <2>1, <2>2, <2>3, <2>4 DEF EvaluateCondition
<1>. QED BY <1>1, <1>2

\* A condition matches or not, whatever its value is read as, unless it
\* compares the text of a large number.
LEMMA SameCondition ==
  ASSUME NEW c, DOMAIN c = {"attribute", "operator", "value"},
         NEW context,
         ComparesNumbers(c) \/ Plainly(c.value)
  PROVE  EvaluateCondition([c EXCEPT !.value = ReadAs("float", @)], context)
           <=> EvaluateCondition([c EXCEPT !.value = ReadAs("int", @)], context)
<1>1. SUFFICES ASSUME NEW f, f = [c EXCEPT !.value = ReadAs("float", @)],
                      NEW g, g = [c EXCEPT !.value = ReadAs("int", @)]
               PROVE  EvaluateCondition(f, context)
                        <=> EvaluateCondition(g, context)
  OBVIOUS
<1>2. /\ f.attribute = c.attribute /\ f.operator = c.operator
      /\ f.value = ReadAs("float", c.value)
      /\ g.attribute = c.attribute /\ g.operator = c.operator
      /\ g.value = ReadAs("int", c.value)
  BY <1>1
<1>3. ComparesNumbers(f) <=> ComparesNumbers(c)
  BY <1>2 DEF ComparesNumbers
<1>4. /\ IsNumber(f.value) <=> IsNumber(g.value)
      /\ IsNumber(f.value) => f.value.number = g.value.number
  BY <1>2, SameMagnitude
<1>5. CASE ComparesNumbers(c)
  BY <1>2, <1>3, <1>4, <1>5, AlikeConditions
<1>6. CASE Plainly(c.value) /\ ~ ComparesNumbers(c)
  <2>1. Text(f.value) = Text(g.value)
    BY <1>2, <1>6, SameText
  <2>2. \A v : In(v, f.value) <=> In(v, g.value)
    BY <1>2, <1>6, SameMembers
  <2>. QED BY <1>2, <1>3, <1>6, <2>1, <2>2, AlikeConditions
<1>. QED BY <1>5, <1>6

\* A rule matches or not, whatever the values of its conditions are read as,
\* unless one of these compares the text of a large number.
LEMMA SameRule ==
  ASSUME NEW q \in Questions, NEW context,
         \A i \in DOMAIN q.conditions :
           ComparesNumbers(q.conditions[i]) \/ Plainly(q.conditions[i].value)
  PROVE  AllConditionsMatch(Conditions(q, "float"), context)
           <=> AllConditionsMatch(Conditions(q, "int"), context)
<1>1. \A type : DOMAIN Conditions(q, type) = DOMAIN q.conditions
  BY DEF Conditions
<1>2. ASSUME NEW i \in DOMAIN q.conditions
      PROVE  EvaluateCondition(Conditions(q, "float")[i], context)
               <=> EvaluateCondition(Conditions(q, "int")[i], context)
  <2>1. DOMAIN q.conditions[i] = {"attribute", "operator", "value"}
    BY QuestionsAssumption
  <2>2. PICK c : c = q.conditions[i]
    OBVIOUS
  <2>3. /\ Conditions(q, "float")[i] = [c EXCEPT !.value = ReadAs("float", @)]
        /\ Conditions(q, "int")[i] = [c EXCEPT !.value = ReadAs("int", @)]
    BY <2>2 DEF Conditions
  <2>4. EvaluateCondition([c EXCEPT !.value = ReadAs("float", @)], context)
          <=> EvaluateCondition([c EXCEPT !.value = ReadAs("int", @)], context)
    BY <2>1, <2>2, SameCondition
  <2>. QED BY <2>3, <2>4, Zenon
<1>. QED BY <1>1, <1>2 DEF AllConditionsMatch

-----------------------------------------------------------------------------
(* Decimal numerals *)

\* The numeral of n, from those of smaller numbers.
Numeral(g, n) ==
  IF n < 10 THEN << Chars[n + 1] >>
            ELSE Append(g[n \div 10], Chars[(n % 10) + 1])

\* A number of two digits or more, without its last one and with it.
LEMMA Tenth ==
  ASSUME NEW n \in Nat, ~ (n < 10)
  PROVE  /\ n \div 10 \in Nat /\ 1 <= n \div 10 /\ n \div 10 < n
         /\ n % 10 \in 0 .. 9 /\ n = 10 * (n \div 10) + (n % 10)
OBVIOUS

\* A property of the naturals that fails has a least number of which it fails.
LEMMA Least ==
  ASSUME NEW S, S \subseteq Nat, S # {}
  PROVE  \E n \in S : \A m \in 0 .. n - 1 : m \notin S
<1>1. PICK n \in S : \A m \in S : << m, n >> \notin OpToRel(<, Nat)
  BY WFMin, NatLessThanWellFounded
<1>2. ASSUME NEW m \in 0 .. n - 1
      PROVE  m \notin S
  <2>1. m \in Nat /\ n \in Nat /\ m < n
    OBVIOUS
  <2>2. << m, n >> \in OpToRel(<, Nat)
    <3>1. << m, n >> \in Nat \X Nat /\ << m, n >>[1] = m /\ << m, n >>[2] = n
      BY <2>1
    <3>. QED BY <2>1, <3>1 DEF OpToRel
  <2>. QED BY <1>1, <2>2
<1>. QED BY <1>2

\* g says the numerals of 0 .. k.
Counts(g, k) == g = [ n \in 0 .. k |-> Numeral(g, n) ]

\* Two such functions agree wherever both are defined.
LEMMA CountsUnique ==
  ASSUME NEW k \in Nat, NEW g, Counts(g, k), NEW m \in Nat, NEW h, Counts(h, m)
  PROVE  \A n \in Nat : n <= k /\ n <= m => g[n] = h[n]
<1>. DEFINE S == { n \in Nat : n <= k /\ n <= m /\ g[n] # h[n] }
<1>1. SUFFICES ASSUME S # {}
               PROVE  FALSE
  OBVIOUS
<1>2. PICK n \in S : \A j \in 0 .. n - 1 : j \notin S
  <2>1. S \subseteq Nat
    OBVIOUS
  <2>. HIDE DEF S
  <2>. QED BY <1>1, <2>1, Least
<1>3. n \in Nat /\ n <= k /\ n <= m /\ g[n] # h[n]
  BY <1>2
<1>4. g[n] = Numeral(g, n) /\ h[n] = Numeral(h, n)
  <2>1. n \in 0 .. k /\ n \in 0 .. m
    BY <1>3
  <2>. QED BY <2>1 DEF Counts
<1>5. CASE n < 10
  BY <1>3, <1>4, <1>5 DEF Numeral
<1>6. CASE ~ (n < 10)
  <2>1. n \div 10 \in 0 .. n - 1 /\ n \div 10 \in Nat
    BY <1>3, <1>6, Tenth
  <2>2. g[n \div 10] = h[n \div 10]
    BY <1>2, <1>3, <2>1
  <2>. QED BY <1>3, <1>4, <1>6, <2>2 DEF Numeral
<1>. QED BY <1>5, <1>6

\* There is one for every k.
LEMMA CountsExist == \A k \in Nat : \E g : Counts(g, k)
<1>. DEFINE S == { k \in Nat : ~ \E g : Counts(g, k) }
<1>1. SUFFICES ASSUME S # {}
               PROVE  FALSE
  OBVIOUS
<1>2. PICK k \in S : \A j \in 0 .. k - 1 : j \notin S
  <2>1. S \subseteq Nat
    OBVIOUS
  <2>. HIDE DEF S
  <2>. QED BY <1>1, <2>1, Least
<1>3. k \in Nat /\ ~ \E g : Counts(g, k)
  BY <1>2
<1>4. CASE k = 0
  <2>. DEFINE g == [ n \in 0 .. 0 |-> << Chars[n + 1] >> ]
  <2>1. \A n \in 0 .. 0 : Numeral(g, n) = << Chars[n + 1] >>
    BY DEF Numeral
  <2>2. Counts(g, 0)
    BY <2>1 DEF Counts
  <2>. QED BY <1>3, <1>4, <2>2
<1>5. CASE k # 0
  <2>1. k - 1 \in Nat /\ k - 1 \in 0 .. k - 1
    BY <1>3, <1>5
  <2>2. PICK h : Counts(h, k - 1)
    BY <1>2, <2>1
  <2>. DEFINE g == [ n \in 0 .. k |-> IF n < k THEN h[n] ELSE Numeral(h, k) ]
  <2>3. \A n \in 0 .. k - 1 : g[n] = h[n]
    BY <1>3
  <2>4. \A n \in 0 .. k : Numeral(g, n) = Numeral(h, n)
    <3>1. SUFFICES ASSUME NEW n \in 0 .. k
                   PROVE  Numeral(g, n) = Numeral(h, n)
      OBVIOUS
    <3>2. n \in Nat
      BY <1>3
    <3>. HIDE DEF g
    <3>3. CASE n < 10
      BY <3>3 DEF Numeral
    <3>4. CASE ~ (n < 10)
      <4>1. n \div 10 \in 0 .. k - 1
        BY <1>3, <3>1, <3>2, <3>4, Tenth
      <4>2. g[n \div 10] = h[n \div 10]
        BY <2>3, <4>1
      <4>. QED BY <4>2, <3>4 DEF Numeral
    <3>. QED BY <3>3, <3>4
  <2>5. \A n \in 0 .. k : g[n] = Numeral(h, n)
    <3>1. SUFFICES ASSUME NEW n \in 0 .. k
                   PROVE  g[n] = Numeral(h, n)
      OBVIOUS
    <3>2. CASE n < k
      <4>1. n \in 0 .. k - 1
        BY <1>3, <3>2
      <4>2. h[n] = Numeral(h, n)
        BY <2>2, <4>1 DEF Counts
      <4>. QED BY <2>3, <4>1, <4>2
    <3>3. CASE ~ (n < k)
      <4>1. n = k
        BY <1>3, <3>3
      <4>. QED BY <3>3, <4>1
    <3>. QED BY <3>2, <3>3
  <2>6. \A n \in 0 .. k : g[n] = Numeral(g, n)
    BY <2>4, <2>5
  <2>7. g = [ n \in 0 .. k |-> Numeral(g, n) ]
    <3>1. g = [ n \in 0 .. k |-> g[n] ]
      OBVIOUS
    <3>. HIDE DEF g
    <3>. QED BY <2>6, <3>1
  <2>8. Counts(g, k)
    <3>. HIDE DEF g
    <3>. QED BY <2>7 DEF Counts
  <2>. QED BY <1>3, <2>8
<1>. QED BY <1>4, <1>5

\* The recursive definition has a function that satisfies it.
LEMMA DecimalIs == Decimal = [ n \in Nat |-> Numeral(Decimal, n) ]
<1>. DEFINE To(k) == CHOOSE g : Counts(g, k)
            f == [ n \in Nat |-> To(n)[n] ]
<1>1. \A k \in Nat : Counts(To(k), k)
  BY CountsExist
<1>2. \A n, k \in Nat : n <= k => To(k)[n] = f[n]
  <2>1. SUFFICES ASSUME NEW n \in Nat, NEW k \in Nat, n <= k
                 PROVE  To(k)[n] = To(n)[n]
    OBVIOUS
  <2>2. Counts(To(k), k) /\ Counts(To(n), n)
    BY <1>1
  <2>. HIDE DEF To
  <2>. QED BY <2>1, <2>2, CountsUnique
<1>3. ASSUME NEW n \in Nat
      PROVE  f[n] = Numeral(f, n)
  <2>1. f[n] = Numeral(To(n), n)
    <3>1. To(n)[n] = Numeral(To(n), n)
      <4>1. n \in 0 .. n
        OBVIOUS
      <4>2. Counts(To(n), n)
        BY <1>1
      <4>. HIDE DEF To
      <4>. QED BY <4>1, <4>2 DEF Counts
    <3>. QED BY <3>1
  <2>2. CASE n < 10
    <3>. HIDE DEF f, To
    <3>. QED BY <2>1, <2>2 DEF Numeral
  <2>3. CASE ~ (n < 10)
    <3>1. n \div 10 \in Nat /\ n \div 10 <= n
      BY <2>3, Tenth
    <3>2. To(n)[n \div 10] = f[n \div 10]
      <4>. HIDE DEF f, To
      <4>. QED BY <1>2, <3>1
    <3>. HIDE DEF f, To
    <3>. QED BY <2>1, <2>3, <3>2 DEF Numeral
  <2>. QED BY <2>2, <2>3
<1>4. f = [ n \in Nat |-> Numeral(f, n) ]
  <2>1. f = [ n \in Nat |-> f[n] ]
    OBVIOUS
  <2>. HIDE DEF f
  <2>. QED BY <1>3, <2>1
<1>5. \E g : g = [ n \in Nat |-> Numeral(g, n) ]
  BY <1>4
<1>6. Decimal = CHOOSE g : g = [ n \in Nat |-> Numeral(g, n) ]
  BY DEF Decimal, Numeral
<1>. HIDE DEF f, To
<1>. QED BY <1>5, <1>6

\* Different digits are written differently, and as nothing else.
LEMMA CharsDiffer ==
  /\ \A d, e \in 0 .. 9 : Chars[d + 1] = Chars[e + 1] => d = e
  /\ Chars[1] = "0"
  /\ Ciphers \cap {"e", "+", "."} = {}
<1>1. \A d, e \in 0 .. 9 : Chars[d + 1] = Chars[e + 1] => d = e
  BY DEF Chars
<1>2. Chars[1] = "0"
  BY DEF Chars
<1>3. \A d \in 0 .. 9 : Chars[d + 1] \notin {"e", "+", "."}
  BY DEF Chars
<1>. QED BY <1>1, <1>2, <1>3 DEF Ciphers

\* A numeral is made of the numeral of its tenth and of a last digit.
LEMMA DecimalStep ==
  ASSUME NEW n \in Nat
  PROVE  /\ n < 10 => Decimal[n] = << Chars[n + 1] >>
         /\ ~ (n < 10) => Decimal[n] = Append(Decimal[n \div 10], Chars[(n % 10) + 1])
<1>1. Decimal[n] = Numeral(Decimal, n)
  BY DecimalIs
<1>. QED BY <1>1 DEF Numeral

\* What an append leaves of the first element, the length and the type.
LEMMA AppendShape ==
  ASSUME NEW C, NEW s \in Seq(C), NEW ch \in C, Len(s) >= 1
  PROVE  /\ Append(s, ch) \in Seq(C) /\ Len(Append(s, ch)) = Len(s) + 1
         /\ Append(s, ch)[1] = s[1]
OBVIOUS

\* A numeral is made of ciphers, at least one, and the first is zero only for
\* zero.
LEMMA DecimalShape ==
  \A n \in Nat : /\ Decimal[n] \in Seq(Ciphers) /\ Len(Decimal[n]) >= 1
                 /\ n >= 1 => Decimal[n][1] # "0"
                 /\ n < 10 => Len(Decimal[n]) = 1
                 /\ ~ (n < 10) => Len(Decimal[n]) > 1
<1>. DEFINE OK(n) == /\ Decimal[n] \in Seq(Ciphers) /\ Len(Decimal[n]) >= 1
                     /\ n >= 1 => Decimal[n][1] # "0"
                     /\ n < 10 => Len(Decimal[n]) = 1
                     /\ ~ (n < 10) => Len(Decimal[n]) > 1
            S == { n \in Nat : ~ OK(n) }
<1>1. SUFFICES ASSUME S # {}
               PROVE  FALSE
  OBVIOUS
<1>2. PICK n \in S : \A j \in 0 .. n - 1 : j \notin S
  <2>1. S \subseteq Nat
    OBVIOUS
  <2>. HIDE DEF S
  <2>. QED BY <1>1, <2>1, Least
<1>3. n \in Nat /\ ~ OK(n)
  BY <1>2
<1>4. CASE n < 10
  <2>1. Decimal[n] = << Chars[n + 1] >>
    BY <1>3, <1>4, DecimalStep
  <2>2. Chars[n + 1] \in Ciphers
    <3>1. n \in 0 .. 9
      BY <1>3, <1>4
    <3>. QED BY <3>1 DEF Ciphers
  <2>3. n >= 1 => Chars[n + 1] # "0"
    <3>1. n \in 0 .. 9 /\ 0 \in 0 .. 9 /\ Chars[0 + 1] = Chars[1]
      BY <1>3, <1>4
    <3>2. Chars[n + 1] = "0" => n = 0
      BY <3>1, CharsDiffer
    <3>. QED BY <3>2
  <2>4. PICK ch \in Ciphers : ch = Chars[n + 1]
    BY <2>2
  <2>5. Decimal[n] = << ch >>
    BY <2>1, <2>4
  <2>6. << ch >> \in Seq(Ciphers) /\ Len(<< ch >>) = 1 /\ << ch >>[1] = ch
    OBVIOUS
  <2>7. n >= 1 => ch # "0"
    BY <2>3, <2>4
  <2>. QED BY <1>3, <1>4, <2>5, <2>6, <2>7
<1>5. CASE ~ (n < 10)
  <2>1. /\ n \div 10 \in Nat /\ n \div 10 \in 0 .. n - 1 /\ 1 <= n \div 10
        /\ n % 10 \in 0 .. 9
    BY <1>3, <1>5, Tenth
  <2>2. OK(n \div 10)
    BY <1>2, <2>1
  <2>3. PICK ch \in Ciphers : ch = Chars[(n % 10) + 1]
    BY <2>1 DEF Ciphers
  <2>4. Decimal[n] = Append(Decimal[n \div 10], ch)
    BY <1>3, <1>5, <2>3, DecimalStep
  <2>5. PICK s : s = Decimal[n \div 10]
    OBVIOUS
  <2>6. s \in Seq(Ciphers) /\ Len(s) >= 1 /\ s[1] # "0"
    BY <2>1, <2>2, <2>5
  <2>7. Decimal[n] = Append(s, ch)
    BY <2>4, <2>5
  <2>8. /\ Append(s, ch) \in Seq(Ciphers) /\ Len(Append(s, ch)) = Len(s) + 1
        /\ Append(s, ch)[1] = s[1] /\ Len(s) \in Nat
    BY <2>6, AppendShape
  <2>9. /\ Decimal[n] \in Seq(Ciphers) /\ Len(Decimal[n]) > 1
        /\ Decimal[n][1] # "0"
    BY <2>6, <2>7, <2>8
  <2>. QED BY <1>3, <1>5, <2>9
<1>. QED BY <1>4, <1>5

\* An append settles what was appended, and to what.
LEMMA AppendDiffers ==
  ASSUME NEW C, NEW s \in Seq(C), NEW t \in Seq(C), NEW a \in C, NEW b \in C,
         Append(s, a) = Append(t, b)
  PROVE  s = t /\ a = b
<1>1. /\ Len(Append(s, a)) = Len(s) + 1 /\ Append(s, a)[Len(s) + 1] = a
      /\ Len(Append(t, b)) = Len(t) + 1 /\ Append(t, b)[Len(t) + 1] = b
  OBVIOUS
<1>2. Len(s) = Len(t)
  BY <1>1
<1>3. \A i \in 1 .. Len(s) : Append(s, a)[i] = s[i] /\ Append(t, b)[i] = t[i]
  BY <1>2
<1>4. \A i \in 1 .. Len(s) : s[i] = t[i]
  BY <1>3
<1>. QED BY <1>1, <1>2, <1>4

\* Different numbers have different numerals.
LEMMA DecimalInjective ==
  \A n, m \in Nat : Decimal[n] = Decimal[m] => n = m
<1>. DEFINE S == { n \in Nat : \E m \in Nat : Decimal[n] = Decimal[m] /\ n # m }
<1>1. SUFFICES ASSUME S # {}
               PROVE  FALSE
  OBVIOUS
<1>2. PICK n \in S : \A j \in 0 .. n - 1 : j \notin S
  <2>1. S \subseteq Nat
    OBVIOUS
  <2>. HIDE DEF S
  <2>. QED BY <1>1, <2>1, Least
<1>3. PICK m \in Nat : n \in Nat /\ Decimal[n] = Decimal[m] /\ n # m
  BY <1>2
<1>4. n < 10 <=> m < 10
  <2>1. /\ n < 10 => Len(Decimal[n]) = 1
        /\ ~ (n < 10) => Len(Decimal[n]) > 1
    BY <1>3, DecimalShape
  <2>2. /\ m < 10 => Len(Decimal[m]) = 1
        /\ ~ (m < 10) => Len(Decimal[m]) > 1
    BY DecimalShape
  <2>3. PICK k : k = Len(Decimal[n])
    OBVIOUS
  <2>4. k = 1 => ~ (k > 1)
    OBVIOUS
  <2>5. k = Len(Decimal[m])
    BY <1>3, <2>3
  <2>. QED BY <2>1, <2>2, <2>3, <2>4, <2>5, Zenon
<1>5. CASE n < 10
  <2>1. << Chars[n + 1] >> = << Chars[m + 1] >>
    BY <1>3, <1>4, <1>5, DecimalStep
  <2>2. Chars[n + 1] = Chars[m + 1]
    BY <2>1
  <2>3. n \in 0 .. 9 /\ m \in 0 .. 9
    BY <1>3, <1>4, <1>5
  <2>. QED BY <1>3, <2>2, <2>3, CharsDiffer
<1>6. CASE ~ (n < 10)
  <2>1. /\ n \div 10 \in Nat /\ n \div 10 \in 0 .. n - 1
        /\ n % 10 \in 0 .. 9 /\ n = 10 * (n \div 10) + (n % 10)
    BY <1>3, <1>6, Tenth
  <2>2. m \div 10 \in Nat /\ m % 10 \in 0 .. 9 /\ m = 10 * (m \div 10) + (m % 10)
    BY <1>3, <1>4, <1>6, Tenth
  <2>3. Append(Decimal[n \div 10], Chars[(n % 10) + 1])
          = Append(Decimal[m \div 10], Chars[(m % 10) + 1])
    BY <1>3, <1>4, <1>6, DecimalStep
  <2>4. Decimal[n \div 10] \in Seq(Ciphers) /\ Decimal[m \div 10] \in Seq(Ciphers)
    BY <2>1, <2>2, DecimalShape
  <2>5. Chars[(n % 10) + 1] \in Ciphers /\ Chars[(m % 10) + 1] \in Ciphers
    BY <2>1, <2>2 DEF Ciphers
  <2>6. /\ Decimal[n \div 10] = Decimal[m \div 10]
        /\ Chars[(n % 10) + 1] = Chars[(m % 10) + 1]
    <3>1. PICK s \in Seq(Ciphers) : s = Decimal[n \div 10]
      BY <2>4
    <3>2. PICK t \in Seq(Ciphers) : t = Decimal[m \div 10]
      BY <2>4
    <3>3. PICK a \in Ciphers : a = Chars[(n % 10) + 1]
      BY <2>5
    <3>4. PICK b \in Ciphers : b = Chars[(m % 10) + 1]
      BY <2>5
    <3>5. Append(s, a) = Append(t, b)
      BY <2>3, <3>1, <3>2, <3>3, <3>4, Zenon
    <3>6. s = t /\ a = b
      BY <3>5, AppendDiffers
    <3>. QED BY <3>1, <3>2, <3>3, <3>4, <3>6, Zenon
  <2>7. n % 10 = m % 10
    BY <2>1, <2>2, <2>6, CharsDiffer
  <2>8. n \div 10 = m \div 10
    BY <1>2, <2>1, <2>2, <2>6
  <2>9. n = m
    BY <2>1, <2>2, <2>7, <2>8
  <2>. QED BY <1>3, <2>9
<1>. QED BY <1>5, <1>6

-----------------------------------------------------------------------------
(* Exponent forms *)

\* The type, the length and the first part of a join.
LEMMA JoinShape ==
  ASSUME NEW C, NEW s \in Seq(C), NEW t \in Seq(C)
  PROVE  /\ s \o t \in Seq(C)
         /\ Len(s \o t) = Len(s) + Len(t)
         /\ \A i \in 1 .. Len(s) : (s \o t)[i] = s[i]
OBVIOUS

\* The second part of a join.
LEMMA JoinSecond ==
  ASSUME NEW C, NEW s \in Seq(C), NEW t \in Seq(C), NEW i \in 1 .. Len(t)
  PROVE  (s \o t)[Len(s) + i] = t[i]
OBVIOUS

\* Sequences of one length with the same elements are the same.
LEMMA SameSeq ==
  ASSUME NEW C, NEW s \in Seq(C), NEW t \in Seq(C), Len(s) = Len(t),
         \A i \in 1 .. Len(s) : s[i] = t[i]
  PROVE  s = t
OBVIOUS

\* Lengths are naturals.
LEMMA LenNat ==
  ASSUME NEW C, NEW s \in Seq(C)
  PROVE  Len(s) \in Nat
OBVIOUS

\* Joins of sequences of the same lengths are equal part by part.
LEMMA JoinDiffers ==
  ASSUME NEW C, NEW s \in Seq(C), NEW t \in Seq(C),
         NEW u \in Seq(C), NEW v \in Seq(C),
         s \o t = u \o v, Len(s) = Len(u)
  PROVE  s = u /\ t = v
<1>1. \A i \in 1 .. Len(s) : s[i] = u[i]
  <2>1. /\ \A i \in 1 .. Len(s) : (s \o t)[i] = s[i]
        /\ \A i \in 1 .. Len(u) : (u \o v)[i] = u[i]
    BY JoinShape
  <2>. QED BY <2>1
<1>2. Len(t) = Len(v)
  <2>1. Len(s \o t) = Len(s) + Len(t) /\ Len(u \o v) = Len(u) + Len(v)
    BY JoinShape
  <2>2. Len(s) \in Nat /\ Len(t) \in Nat /\ Len(v) \in Nat
    BY LenNat
  <2>. QED BY <2>1, <2>2
<1>3. \A i \in 1 .. Len(t) : t[i] = v[i]
  <2>1. \A i \in 1 .. Len(t) : (s \o t)[Len(s) + i] = t[i]
    BY JoinSecond
  <2>2. \A i \in 1 .. Len(v) : (u \o v)[Len(u) + i] = v[i]
    BY JoinSecond
  <2>. QED BY <1>2, <2>1, <2>2
<1>. QED BY <1>1, <1>2, <1>3, SameSeq

\* What stands before the first e, and what follows it, are settled by the
\* whole.
SplitAt(a, e, p, s, t, C) ==
  /\ s \in Seq(C) /\ t \in Seq(C) /\ e \in C /\ p \in C
  /\ a = (s \o << e, p >>) \o t
  /\ \A i \in 1 .. Len(s) : s[i] # e

\* The two parts are settled by a.
LEMMA CutAtE ==
  ASSUME NEW a, NEW e, NEW p, NEW s, NEW t, NEW u, NEW v, NEW C,
         SplitAt(a, e, p, s, t, C), SplitAt(a, e, p, u, v, C)
  PROVE  s = u /\ t = v
<1>a. /\ e \in C /\ p \in C
      /\ s \in Seq(C) /\ t \in Seq(C) /\ u \in Seq(C) /\ v \in Seq(C)
      /\ a = (s \o << e, p >>) \o t /\ a = (u \o << e, p >>) \o v
  BY DEF SplitAt
<1>b. (\A i \in 1 .. Len(s) : s[i] # e) /\ (\A i \in 1 .. Len(u) : u[i] # e)
  BY DEF SplitAt
<1>0. PICK w \in Seq(C) : w = << e, p >>
  <2>1. << e, p >> \in Seq(C)
    BY <1>a
  <2>. QED BY <2>1, Zenon
<1>1. w \in Seq(C) /\ Len(w) = 2 /\ w[1] = e
  BY <1>0
<1>2. /\ s \o w \in Seq(C) /\ Len(s \o w) = Len(s) + 2
      /\ \A i \in 1 .. Len(s) : (s \o w)[i] = s[i]
      /\ (s \o w)[Len(s) + 1] = e
  <2>1. s \o w \in Seq(C) /\ Len(s \o w) = Len(s) + Len(w)
    BY <1>a, <1>1, JoinShape
  <2>2. \A i \in 1 .. Len(s) : (s \o w)[i] = s[i]
    BY <1>a, <1>1, JoinShape
  <2>3. 1 \in 1 .. Len(w)
    BY <1>1
  <2>4. (s \o w)[Len(s) + 1] = w[1]
    BY ONLY <1>a, <2>3, JoinSecond, w \in Seq(C)
  <2>. QED BY <1>1, <2>1, <2>2, <2>3, <2>4
<1>3. /\ u \o w \in Seq(C) /\ Len(u \o w) = Len(u) + 2
      /\ \A i \in 1 .. Len(u) : (u \o w)[i] = u[i]
      /\ (u \o w)[Len(u) + 1] = e
  <2>1. u \o w \in Seq(C) /\ Len(u \o w) = Len(u) + Len(w)
    BY <1>a, <1>1, JoinShape
  <2>2. \A i \in 1 .. Len(u) : (u \o w)[i] = u[i]
    BY <1>a, <1>1, JoinShape
  <2>3. 1 \in 1 .. Len(w)
    BY <1>1
  <2>4. (u \o w)[Len(u) + 1] = w[1]
    BY ONLY <1>a, <2>3, JoinSecond, w \in Seq(C)
  <2>. QED BY <1>1, <2>1, <2>2, <2>3, <2>4
<1>4. a = (s \o w) \o t
  BY <1>a, <1>0
<1>5. a = (u \o w) \o v
  BY <1>a, <1>0
<1>6. Len(s) \in Nat /\ Len(u) \in Nat
  BY <1>a, LenNat
<1>7. /\ \A i \in 1 .. Len(s) : a[i] = s[i]
      /\ a[Len(s) + 1] = e
  <2>1. \A i \in 1 .. Len(s \o w) : a[i] = (s \o w)[i]
    <3>1. PICK x \in Seq(C) : x = s \o w
      BY <1>2
    <3>2. a = x \o t
      BY <1>4, <3>1
    <3>3. \A i \in 1 .. Len(x) : (x \o t)[i] = x[i]
      BY <1>a, JoinShape
    <3>. QED BY <3>1, <3>2, <3>3, Zenon
  <2>2. \A i \in 1 .. Len(s) : i \in 1 .. Len(s \o w)
    BY <1>2, <1>6
  <2>3. Len(s) + 1 \in 1 .. Len(s \o w)
    BY <1>2, <1>6
  <2>. QED BY <1>2, <2>1, <2>2, <2>3
<1>8. /\ \A i \in 1 .. Len(u) : a[i] = u[i]
      /\ a[Len(u) + 1] = e
  <2>1. \A i \in 1 .. Len(u \o w) : a[i] = (u \o w)[i]
    <3>1. PICK x \in Seq(C) : x = u \o w
      BY <1>3
    <3>2. a = x \o v
      BY <1>5, <3>1
    <3>3. \A i \in 1 .. Len(x) : (x \o v)[i] = x[i]
      BY <1>a, JoinShape
    <3>. QED BY <3>1, <3>2, <3>3, Zenon
  <2>2. \A i \in 1 .. Len(u) : i \in 1 .. Len(u \o w)
    BY <1>3, <1>6
  <2>3. Len(u) + 1 \in 1 .. Len(u \o w)
    BY <1>3, <1>6
  <2>. QED BY <1>3, <2>1, <2>2, <2>3
<1>9. Len(s) = Len(u)
  <2>1. ~ (Len(s) < Len(u))
    <3>1. ASSUME Len(s) < Len(u)
          PROVE  FALSE
      <4>1. Len(s) + 1 \in 1 .. Len(u)
        BY <1>6, <3>1
      <4>. QED BY <1>b, <1>7, <1>8, <4>1
    <3>. QED BY <3>1
  <2>2. ~ (Len(u) < Len(s))
    <3>1. ASSUME Len(u) < Len(s)
          PROVE  FALSE
      <4>1. Len(u) + 1 \in 1 .. Len(s)
        BY <1>6, <3>1
      <4>. QED BY <1>b, <1>7, <1>8, <4>1
    <3>. QED BY <3>1
  <2>. QED BY <1>6, <2>1, <2>2
<1>10. s \o w = u \o w /\ t = v
  <2>1. PICK x \in Seq(C) : x = s \o w
    BY <1>2
  <2>2. PICK y \in Seq(C) : y = u \o w
    BY <1>3
  <2>3. Len(x) = Len(y)
    BY <1>2, <1>3, <1>9, <2>1, <2>2
  <2>4. x \o t = y \o v
    BY <1>4, <1>5, <2>1, <2>2
  <2>5. x = y /\ t = v
    BY ONLY <2>3, <2>4, JoinDiffers, <1>a
  <2>. QED BY <2>1, <2>2, <2>5
<1>11. s = u
  BY <1>a, <1>1, <1>9, <1>10, JoinDiffers
<1>. QED BY <1>10, <1>11

\* Joins need no parentheses.
LEMMA JoinTwice ==
  ASSUME NEW C, NEW s \in Seq(C), NEW t \in Seq(C), NEW u \in Seq(C)
  PROVE  (s \o t) \o u = s \o (t \o u)
OBVIOUS

\* A set of places of a sequence has a last one.
LEMMA LastPlace ==
  ASSUME NEW k \in Nat, NEW I, I \subseteq 1 .. k, I # {}
  PROVE  Max(I) \in I /\ \A i \in I : i <= Max(I)
<1>. DEFINE R == { j \in Nat : \E i \in I : j = k - i }
<1>1. R # {}
  <2>1. PICK i \in I : i \in 1 .. k
    OBVIOUS
  <2>2. k - i \in R
    BY <2>1
  <2>. QED BY <2>2
<1>2. PICK n \in R : \A j \in 0 .. n - 1 : j \notin R
  <2>1. R \subseteq Nat
    OBVIOUS
  <2>. HIDE DEF R
  <2>. QED BY <1>1, <2>1, Least
<1>3. PICK m \in I : n = k - m
  OBVIOUS
<1>4. \A i \in I : i <= m
  <2>1. SUFFICES ASSUME NEW i \in I, ~ (i <= m)
                 PROVE  FALSE
    OBVIOUS
  <2>2. i \in 1 .. k /\ m \in 1 .. k
    OBVIOUS
  <2>3. k - i \in 0 .. n - 1 /\ k - i \in Nat
    BY <1>3, <2>1, <2>2
  <2>4. k - i \in R
    BY <2>3
  <2>. QED BY <1>2, <2>3, <2>4
<1>5. \E x \in I : \A y \in I : x >= y
  BY <1>4
<1>6. Max(I) \in I /\ \A y \in I : Max(I) >= y
  BY <1>5 DEF Max
<1>. QED BY <1>6

\* The last digit that is not zero, as Exponent finds it.
LastNonzero(d) == SelectLastInSeq(d, LAMBDA ch : ch # "0")

\* After it, there are only zeros.
LEMMA LastNonzeroIs ==
  ASSUME NEW d \in Seq(Ciphers), Len(d) >= 1, d[1] # "0"
  PROVE  /\ LastNonzero(d) \in 1 .. Len(d)
         /\ \A i \in 1 .. Len(d) : LastNonzero(d) < i => d[i] = "0"
<1>. DEFINE I == { i \in 1 .. Len(d) : d[i] # "0" }
<1>1. Len(d) \in Nat /\ 1 \in 1 .. Len(d)
  BY LenNat
<1>2. I \subseteq 1 .. Len(d) /\ I # {}
  BY <1>1
<1>3. LastNonzero(d) = Max(I)
  BY <1>2 DEF LastNonzero, SelectLastInSeq
<1>4. Max(I) \in I /\ \A i \in I : i <= Max(I)
  <2>. HIDE DEF I
  <2>. QED BY <1>1, <1>2, LastPlace
<1>5. ASSUME NEW i \in 1 .. Len(d), Max(I) < i
      PROVE  d[i] = "0"
  <2>1. i \in I => i <= Max(I)
    BY <1>4
  <2>2. Max(I) \in Int /\ i \in Int
    BY <1>2, <1>4
  <2>3. i \notin I
    <3>. HIDE DEF I
    <3>. QED BY <1>5, <2>1, <2>2
  <2>. QED BY <2>3
<1>6. Max(I) \in 1 .. Len(d)
  BY <1>4
<1>. HIDE DEF I
<1>. QED BY <1>3, <1>5, <1>6

\* What an exponent form begins with: its first digit, a point unless that is
\* all, and the others up to the last.
Mantissa(d, last) ==
  (<< d[1] >> \o (IF last > 1 THEN << "." >> ELSE << >>)) \o SubSeq(d, 2, last)

\* Two digits at least, of the number of digits less one.
Power(k) == (IF k < 10 THEN << "0" >> ELSE << >>) \o Decimal[k]

\* The characters of a number's text.
Marks == Ciphers \cup {"e", "+", "."}

\* The digits after the first.
LEMMA SubSeqIs ==
  ASSUME NEW C, NEW d \in Seq(C), NEW last \in 1 .. Len(d)
  PROVE  /\ SubSeq(d, 2, last) \in Seq(C)
         /\ Len(SubSeq(d, 2, last)) = last - 1
         /\ \A i \in 1 .. last - 1 : SubSeq(d, 2, last)[i] = d[i + 1]
OBVIOUS

\* A join of two characters.
LEMMA JoinTwo ==
  ASSUME NEW a, NEW b
  PROVE  << a >> \o << b >> = << a, b >>
<1>. DEFINE C == {a, b}
<1>1. PICK s \in Seq(C) : s = << a >>
  <2>1. << a >> \in Seq(C)
    OBVIOUS
  <2>. QED BY <2>1, Zenon
<1>2. PICK t \in Seq(C) : t = << b >>
  <2>1. << b >> \in Seq(C)
    OBVIOUS
  <2>. QED BY <2>1, Zenon
<1>3. PICK u \in Seq(C) : u = << a, b >>
  <2>1. << a, b >> \in Seq(C)
    OBVIOUS
  <2>. QED BY <2>1, Zenon
<1>4. /\ Len(s) = 1 /\ s[1] = a /\ Len(t) = 1 /\ t[1] = b
      /\ Len(u) = 2 /\ u[1] = a /\ u[2] = b
  BY <1>1, <1>2, <1>3
<1>. HIDE DEF C
<1>5. /\ s \o t \in Seq(C) /\ Len(s \o t) = 2 /\ (s \o t)[1] = a
      /\ (s \o t)[2] = b
  <2>1. /\ s \o t \in Seq(C) /\ Len(s \o t) = Len(s) + Len(t)
        /\ \A i \in 1 .. Len(s) : (s \o t)[i] = s[i]
    BY JoinShape
  <2>2. 1 \in 1 .. Len(s) /\ 1 \in 1 .. Len(t)
    BY <1>4
  <2>3. (s \o t)[Len(s) + 1] = t[1]
    BY ONLY <2>2, JoinSecond, s \in Seq(C), t \in Seq(C)
  <2>4. Len(s) + 1 = 2 /\ Len(s) + Len(t) = 2
    BY <1>4
  <2>. QED BY <1>4, <2>1, <2>2, <2>3, <2>4
<1>6. s \o t = u
  <2>1. \A i \in 1 .. 2 : (s \o t)[i] = u[i]
    BY <1>4, <1>5
  <2>. QED BY <1>4, <1>5, <2>1, SameSeq
<1>. QED BY <1>1, <1>2, <1>3, <1>6

\* A mantissa and the digits it is made from.
LEMMA MantissaShape ==
  ASSUME NEW d \in Seq(Ciphers), NEW last \in 1 .. Len(d)
  PROVE  /\ Mantissa(d, last) \in Seq(Ciphers \cup {"."})
         /\ Len(Mantissa(d, last)) = IF last > 1 THEN last + 1 ELSE 1
         /\ Mantissa(d, last)[1] = d[1]
         /\ \A i \in 2 .. last : Mantissa(d, last)[i + 1] = d[i]
<1>. DEFINE C == Ciphers \cup {"."}
<1>0. d \in Seq(C) /\ d[1] \in C /\ "." \in C /\ last \in Nat /\ Len(d) \in Nat
  OBVIOUS
<1>. HIDE DEF C
<1>1. PICK tail \in Seq(C) : tail = SubSeq(d, 2, last)
  BY <1>0, SubSeqIs
<1>2. Len(tail) = last - 1 /\ \A i \in 1 .. last - 1 : tail[i] = d[i + 1]
  BY <1>0, <1>1, SubSeqIs
<1>3. CASE last > 1
  <2>1. PICK head \in Seq(C) : head = << d[1], "." >>
    <3>1. << d[1], "." >> \in Seq(C)
      BY <1>0
    <3>. QED BY <3>1, Zenon
  <2>2. << d[1] >> \o << "." >> = << d[1], "." >>
    BY JoinTwo
  <2>3. Mantissa(d, last) = head \o tail
    BY <1>1, <1>3, <2>1, <2>2 DEF Mantissa
  <2>4. Len(head) = 2 /\ head[1] = d[1]
    BY <2>1
  <2>5. /\ head \o tail \in Seq(C) /\ Len(head \o tail) = Len(head) + Len(tail)
        /\ \A i \in 1 .. Len(head) : (head \o tail)[i] = head[i]
    BY JoinShape
  <2>6. ASSUME NEW i \in 2 .. last
        PROVE  (head \o tail)[i + 1] = d[i]
    <3>1. PICK j \in 1 .. last - 1 : j = i - 1
      BY <1>0
    <3>2. (head \o tail)[Len(head) + j] = tail[j]
      BY <1>2, <3>1, JoinSecond
    <3>3. Len(head) + j = i + 1 /\ j + 1 = i
      BY <2>4, <3>1
    <3>4. tail[j] = d[j + 1]
      BY <1>2, <3>1
    <3>. QED BY <3>2, <3>3, <3>4
  <2>7. Len(head \o tail) = last + 1
    BY <1>0, <1>2, <2>4, <2>5
  <2>8. (head \o tail)[1] = d[1]
    BY <2>4, <2>5
  <2>. QED BY <1>3, <2>3, <2>5, <2>6, <2>7, <2>8 DEF C
<1>4. CASE ~ (last > 1)
  <2>1. last = 1
    BY <1>0, <1>4
  <2>2. tail = << >>
    BY <1>2, <2>1
  <2>3. (<< d[1] >> \o << >>) \o << >> = << d[1] >>
    OBVIOUS
  <2>4. Mantissa(d, last) = << d[1] >>
    BY <1>1, <1>4, <2>2, <2>3 DEF Mantissa
  <2>5. << d[1] >> \in Seq(C) /\ Len(<< d[1] >>) = 1 /\ << d[1] >>[1] = d[1]
    BY <1>0
  <2>6. \A i \in 2 .. last : FALSE
    BY <2>1
  <2>7. Mantissa(d, last) \in Seq(Ciphers \cup {"."})
    BY <2>4, <2>5 DEF C
  <2>8. Len(Mantissa(d, last)) = 1 /\ Mantissa(d, last)[1] = d[1]
    BY <2>4, <2>5
  <2>. QED BY <1>4, <2>6, <2>7, <2>8
<1>. QED BY <1>3, <1>4

\* Powers are told apart by their texts.
LEMMA PowerShape ==
  ASSUME NEW k \in Nat
  PROVE  /\ Power(k) \in Seq(Ciphers)
         /\ k < 10 => /\ Power(k)[1] = "0" /\ Len(Power(k)) = 2
                      /\ Power(k) = << "0" >> \o Decimal[k]
         /\ ~ (k < 10) => Power(k)[1] # "0" /\ Power(k) = Decimal[k]
<1>1. PICK d \in Seq(Ciphers) : d = Decimal[k]
  BY DecimalShape
<1>2. PICK z \in Seq(Ciphers) : z = << "0" >>
  <2>1. "0" \in Ciphers
    <3>1. 0 \in 0 .. 9 /\ Chars[0 + 1] = "0"
      BY CharsDiffer
    <3>. QED BY <3>1 DEF Ciphers
  <2>2. << "0" >> \in Seq(Ciphers)
    BY <2>1
  <2>. QED BY <2>2, Zenon
<1>3. Len(z) = 1 /\ z[1] = "0"
  BY <1>2
<1>4. CASE k < 10
  <2>1. Len(d) = 1
    BY <1>1, <1>4, DecimalShape
  <2>2. /\ z \o d \in Seq(Ciphers) /\ Len(z \o d) = Len(z) + Len(d)
        /\ \A i \in 1 .. Len(z) : (z \o d)[i] = z[i]
    BY JoinShape
  <2>3. Len(z \o d) = 2 /\ (z \o d)[1] = "0"
    BY <1>3, <2>1, <2>2
  <2>4. Power(k) = z \o d
    BY <1>1, <1>2, <1>4 DEF Power
  <2>5. Power(k) = << "0" >> \o Decimal[k]
    BY <1>1, <1>2, <2>4
  <2>. QED BY <1>4, <2>2, <2>3, <2>4, <2>5
<1>5. CASE ~ (k < 10)
  <2>1. << >> \o d = d
    OBVIOUS
  <2>2. Power(k) = d
    BY <1>1, <1>5, <2>1 DEF Power
  <2>3. d[1] # "0"
    <3>1. k >= 1
      BY <1>5
    <3>. QED BY <1>1, <3>1, DecimalShape
  <2>. QED BY <1>1, <1>5, <2>2, <2>3
<1>. QED BY <1>4, <1>5

\* Powers with the same text are the same.
LEMMA PowerInjective ==
  ASSUME NEW k \in Nat, NEW j \in Nat, Power(k) = Power(j)
  PROVE  k = j
<1>1. (k < 10) <=> (j < 10)
  <2>1. PICK p : p = Power(k)
    OBVIOUS
  <2>2. (k < 10 => p[1] = "0") /\ (~ (k < 10) => p[1] # "0")
    BY <2>1, PowerShape
  <2>3. p = Power(j)
    BY <2>1
  <2>4. (j < 10 => p[1] = "0") /\ (~ (j < 10) => p[1] # "0")
    BY <2>3, PowerShape
  <2>. QED BY <2>2, <2>4, Zenon
<1>2. Decimal[k] \in Seq(Ciphers) /\ Decimal[j] \in Seq(Ciphers)
  BY DecimalShape
<1>3. Decimal[k] = Decimal[j]
  <2>1. CASE k < 10
    <3>1. Power(k) = << "0" >> \o Decimal[k] /\ Power(j) = << "0" >> \o Decimal[j]
      BY <1>1, <2>1, PowerShape
    <3>2. PICK x \in Seq(Ciphers) : x = Decimal[k]
      BY <1>2
    <3>3. PICK y \in Seq(Ciphers) : y = Decimal[j]
      BY <1>2
    <3>4. PICK z \in Seq(Ciphers) : z = << "0" >>
      <4>1. "0" \in Ciphers
        <5>1. 0 \in 0 .. 9 /\ Chars[0 + 1] = "0"
          BY CharsDiffer
        <5>. QED BY <5>1 DEF Ciphers
      <4>2. << "0" >> \in Seq(Ciphers)
        BY <4>1
      <4>. QED BY <4>2, Zenon
    <3>5. z \o x = z \o y
      BY <3>1, <3>2, <3>3, <3>4, Zenon
    <3>6. x = y
      BY <3>5, JoinDiffers
    <3>. QED BY <3>2, <3>3, <3>6
  <2>2. CASE ~ (k < 10)
    <3>1. Power(k) = Decimal[k] /\ Power(j) = Decimal[j]
      BY <1>1, <2>2, PowerShape
    <3>. QED BY <3>1
  <2>. QED BY <2>1, <2>2
<1>. QED BY <1>3, DecimalInjective

\* An exponent form is a mantissa, an e and a power.
LEMMA ExponentIs ==
  ASSUME NEW n \in Nat, n >= 1,
         NEW d \in Seq(Ciphers), d = Decimal[n],
         NEW k \in Nat, k = Len(d) - 1
  PROVE  Exponent(n) = (Mantissa(d, LastNonzero(d)) \o << "e", "+" >>) \o Power(k)
<1>. DEFINE last == LastNonzero(d)
            pad == IF Len(d) <= 10 THEN << "0" >> ELSE << >>
            head == Mantissa(d, last) \o << "e", "+" >>
<1>1. Exponent(n) = (head \o pad) \o Decimal[k]
  BY DEF Exponent, Mantissa, LastNonzero
<1>2. (Len(d) <= 10) <=> (k < 10)
  <2>1. Len(d) \in Nat
    BY LenNat
  <2>. QED BY <2>1
<1>3. Power(k) = pad \o Decimal[k]
  BY <1>2 DEF Power
<1>4. head \in Seq(Marks) /\ pad \in Seq(Marks) /\ Decimal[k] \in Seq(Marks)
  <2>1. Len(d) >= 1 /\ d[1] # "0"
    BY DecimalShape
  <2>2. last \in 1 .. Len(d)
    BY <2>1, LastNonzeroIs
  <2>3. Mantissa(d, last) \in Seq(Ciphers \cup {"."})
    BY <2>2, MantissaShape
  <2>4. Seq(Ciphers \cup {"."}) \subseteq Seq(Marks) /\ Seq(Ciphers) \subseteq Seq(Marks)
    <3>1. Ciphers \cup {"."} \subseteq Marks /\ Ciphers \subseteq Marks
      BY DEF Marks
    <3>. QED BY <3>1
  <2>5. << "e", "+" >> \in Seq(Marks)
    BY DEF Marks
  <2>6. Mantissa(d, last) \in Seq(Marks)
    BY <2>3, <2>4
  <2>7. head \in Seq(Marks)
    BY <2>5, <2>6, JoinShape
  <2>8. pad \in Seq(Marks)
    <3>1. "0" \in Marks
      <4>1. 0 \in 0 .. 9 /\ Chars[0 + 1] = "0"
        BY CharsDiffer
      <4>. QED BY <4>1 DEF Ciphers, Marks
    <3>2. << "0" >> \in Seq(Marks) /\ << >> \in Seq(Marks)
      BY <3>1
    <3>. QED BY <3>2
  <2>9. Decimal[k] \in Seq(Marks)
    BY <2>4, DecimalShape
  <2>. QED BY <2>7, <2>8, <2>9
<1>5. (head \o pad) \o Decimal[k] = head \o (pad \o Decimal[k])
  <2>. HIDE DEF head, pad
  <2>1. PICK x \in Seq(Marks) : x = head
    BY <1>4
  <2>2. PICK y \in Seq(Marks) : y = pad
    BY <1>4
  <2>3. PICK z \in Seq(Marks) : z = Decimal[k]
    BY <1>4
  <2>4. (x \o y) \o z = x \o (y \o z)
    BY ONLY JoinTwice, x \in Seq(Marks), y \in Seq(Marks), z \in Seq(Marks)
  <2>. QED BY <2>1, <2>2, <2>3, <2>4, Zenon
<1>. HIDE DEF pad
<1>. QED BY <1>1, <1>3, <1>5

\* Mantissas are told apart with the digits that follow them: nothing but zeros.
LEMMA SameDigits ==
  ASSUME NEW d \in Seq(Ciphers), Len(d) >= 1, d[1] # "0",
         NEW c \in Seq(Ciphers), Len(c) = Len(d), c[1] # "0",
         Mantissa(d, LastNonzero(d)) = Mantissa(c, LastNonzero(c))
  PROVE  d = c
<1>1. PICK a \in 1 .. Len(d) : /\ a = LastNonzero(d)
                               /\ \A i \in 1 .. Len(d) : a < i => d[i] = "0"
  BY LastNonzeroIs
<1>2. PICK b \in 1 .. Len(c) : /\ b = LastNonzero(c)
                               /\ \A i \in 1 .. Len(c) : b < i => c[i] = "0"
  BY LastNonzeroIs
<1>3. PICK m : m = Mantissa(d, a)
  OBVIOUS
<1>4. m = Mantissa(c, b)
  BY <1>1, <1>2, <1>3
<1>5. /\ Len(m) = IF a > 1 THEN a + 1 ELSE 1
      /\ m[1] = d[1] /\ \A i \in 2 .. a : m[i + 1] = d[i]
  BY <1>3, MantissaShape
<1>6. /\ Len(m) = IF b > 1 THEN b + 1 ELSE 1
      /\ m[1] = c[1] /\ \A i \in 2 .. b : m[i + 1] = c[i]
  BY <1>4, MantissaShape
<1>7. a = b
  <2>1. a \in Nat /\ b \in Nat /\ a >= 1 /\ b >= 1
    BY <1>1, <1>2, LenNat
  <2>2. PICK l : l = Len(m)
    OBVIOUS
  <2>3. l = (IF a > 1 THEN a + 1 ELSE 1) /\ l = (IF b > 1 THEN b + 1 ELSE 1)
    BY <1>5, <1>6, <2>2
  <2>. QED BY ONLY <2>1, <2>3
<1>8. ASSUME NEW i \in 1 .. Len(d)
      PROVE  d[i] = c[i]
  <2>0. a \in Nat /\ i \in Nat /\ 1 <= i
    BY LenNat
  <2>1. CASE i = 1
    BY <1>5, <1>6, <2>1
  <2>2. CASE i # 1 /\ i <= a
    <3>1. i \in 2 .. a
      BY <2>0, <2>2
    <3>2. m[i + 1] = d[i]
      BY <1>5, <3>1
    <3>3. m[i + 1] = c[i]
      BY <1>6, <1>7, <3>1
    <3>. QED BY <3>2, <3>3
  <2>3. CASE i # 1 /\ ~ (i <= a)
    <3>1. a < i
      BY <2>0, <2>3
    <3>. QED BY <1>1, <1>2, <1>7, <3>1
  <2>. QED BY <2>1, <2>2, <2>3
<1>. QED BY <1>8, SameSeq

\* What an exponent form is made of, for CutAtE.
LEMMA ExponentShape ==
  ASSUME NEW n \in Nat, n >= 1
  PROVE  \E d \in Seq(Ciphers), k \in Nat, m \in Seq(Marks), p \in Seq(Marks) :
           /\ d = Decimal[n] /\ k = Len(d) - 1 /\ Len(d) >= 1 /\ d[1] # "0"
           /\ m = Mantissa(d, LastNonzero(d)) /\ p = Power(k)
           /\ Exponent(n) = (m \o << "e", "+" >>) \o p
           /\ \A i \in 1 .. Len(m) : m[i] # "e"
<1>1. PICK d \in Seq(Ciphers) : d = Decimal[n] /\ Len(d) >= 1 /\ d[1] # "0"
  BY DecimalShape
<1>2. PICK k \in Nat : k = Len(d) - 1
  <2>1. Len(d) \in Nat
    BY LenNat
  <2>. QED BY <1>1, <2>1
<1>3. LastNonzero(d) \in 1 .. Len(d)
  BY <1>1, LastNonzeroIs
<1>4. PICK m \in Seq(Ciphers \cup {"."}) : m = Mantissa(d, LastNonzero(d))
  BY <1>3, MantissaShape
<1>5. PICK p \in Seq(Ciphers) : p = Power(k)
  BY PowerShape
<1>6. m \in Seq(Marks) /\ p \in Seq(Marks)
  <2>1. Ciphers \cup {"."} \subseteq Marks /\ Ciphers \subseteq Marks
    BY DEF Marks
  <2>. QED BY <2>1
<1>7. \A i \in 1 .. Len(m) : m[i] # "e"
  <2>1. "e" \notin Ciphers \cup {"."}
    BY CharsDiffer
  <2>2. \A i \in 1 .. Len(m) : m[i] \in Ciphers \cup {"."}
    OBVIOUS
  <2>. QED BY <2>1, <2>2, Zenon
<1>8. Exponent(n) = (m \o << "e", "+" >>) \o p
  BY <1>1, <1>2, <1>4, <1>5, ExponentIs
<1>. QED BY <1>1, <1>2, <1>4, <1>5, <1>6, <1>7, <1>8, Zenon

\* Different numbers have different exponent forms.
LEMMA ExponentInjective ==
  ASSUME NEW n \in Nat, n >= 1, NEW j \in Nat, j >= 1,
         Exponent(n) = Exponent(j)
  PROVE  n = j
<1>1. PICK d \in Seq(Ciphers), k \in Nat, m \in Seq(Marks), p \in Seq(Marks) :
           /\ d = Decimal[n] /\ k = Len(d) - 1 /\ Len(d) >= 1 /\ d[1] # "0"
           /\ m = Mantissa(d, LastNonzero(d)) /\ p = Power(k)
           /\ Exponent(n) = (m \o << "e", "+" >>) \o p
           /\ \A i \in 1 .. Len(m) : m[i] # "e"
  BY ExponentShape
<1>2. PICK c \in Seq(Ciphers), h \in Nat, u \in Seq(Marks), q \in Seq(Marks) :
           /\ c = Decimal[j] /\ h = Len(c) - 1 /\ Len(c) >= 1 /\ c[1] # "0"
           /\ u = Mantissa(c, LastNonzero(c)) /\ q = Power(h)
           /\ Exponent(j) = (u \o << "e", "+" >>) \o q
           /\ \A i \in 1 .. Len(u) : u[i] # "e"
  BY ExponentShape
<1>3. PICK e \in Marks : e = "e"
  BY DEF Marks
<1>4. PICK s \in Marks : s = "+"
  BY DEF Marks
<1>5. PICK a : a = Exponent(n)
  OBVIOUS
<1>6. SplitAt(a, e, s, m, p, Marks)
  BY <1>1, <1>3, <1>4, <1>5, Zenon DEF SplitAt
<1>7. m = u /\ p = q
  <2>1. SplitAt(a, e, s, u, q, Marks)
    BY <1>2, <1>3, <1>4, <1>5, Zenon DEF SplitAt
  <2>. QED BY <1>6, <2>1, CutAtE
<1>8. k = h
  <2>1. Power(k) = Power(h)
    BY <1>1, <1>2, <1>7, Zenon
  <2>. QED BY <2>1, PowerInjective
<1>9. Len(d) = Len(c)
  <2>1. Len(d) \in Nat /\ Len(c) \in Nat
    BY LenNat
  <2>. QED BY <1>1, <1>2, <1>8, <2>1
<1>10. d = c
  BY <1>1, <1>2, <1>7, <1>9, SameDigits
<1>. QED BY <1>1, <1>2, <1>10, DecimalInjective

\* An exponent form is no numeral.
LEMMA ExponentIsNoNumeral ==
  ASSUME NEW n \in Nat, n >= 1, NEW j \in Nat
  PROVE  Exponent(n) # Decimal[j]
<1>1. PICK m \in Seq(Marks), p \in Seq(Marks) :
        Exponent(n) = (m \o << "e", "+" >>) \o p
  <2>1. \E d \in Seq(Ciphers), k \in Nat, m \in Seq(Marks), p \in Seq(Marks) :
           /\ d = Decimal[n] /\ k = Len(d) - 1 /\ Len(d) >= 1 /\ d[1] # "0"
           /\ m = Mantissa(d, LastNonzero(d)) /\ p = Power(k)
           /\ Exponent(n) = (m \o << "e", "+" >>) \o p
           /\ \A i \in 1 .. Len(m) : m[i] # "e"
    BY ExponentShape
  <2>. QED BY <2>1, Zenon
<1>2. PICK w \in Seq(Marks) : w = << "e", "+" >>
  <2>1. << "e", "+" >> \in Seq(Marks)
    BY DEF Marks
  <2>. QED BY <2>1, Zenon
<1>3. 1 \in 1 .. Len(w) /\ w[1] = "e" /\ Len(w) = 2
  BY <1>2
<1>4. PICK a \in Seq(Marks) : a = m \o w
  BY JoinShape
<1>5. Len(a) = Len(m) + 2 /\ a[Len(m) + 1] = "e"
  <2>1. Len(a) = Len(m) + Len(w)
    BY <1>4, JoinShape
  <2>2. (m \o w)[Len(m) + 1] = w[1]
    <3>1. PICK C : C = Marks
      OBVIOUS
    <3>2. m \in Seq(C) /\ w \in Seq(C)
      BY <3>1
    <3>. QED BY ONLY <1>3, <3>2, JoinSecond, ZenonT(60)
  <2>. QED BY <1>3, <1>4, <2>1, <2>2
<1>6. PICK x \in Seq(Marks) : x = a \o p
  BY JoinShape
<1>7. PICK i \in 1 .. Len(x) : x[i] = "e"
  <2>1. Len(m) \in Nat /\ Len(a) \in Nat /\ Len(p) \in Nat
    BY LenNat
  <2>2. Len(m) + 1 \in 1 .. Len(a)
    BY <1>5, <2>1
  <2>3. /\ Len(a \o p) = Len(a) + Len(p)
        /\ \A i \in 1 .. Len(a) : (a \o p)[i] = a[i]
    BY JoinShape
  <2>4. Len(m) + 1 \in 1 .. Len(x)
    BY <1>5, <1>6, <2>1, <2>3
  <2>5. x[Len(m) + 1] = "e"
    BY <1>5, <1>6, <2>2, <2>3
  <2>. QED BY <2>4, <2>5
<1>8. ASSUME Exponent(n) = Decimal[j]
      PROVE  FALSE
  <2>1. x = Decimal[j]
    BY <1>1, <1>2, <1>4, <1>6, <1>8, Zenon
  <2>2. x \in Seq(Ciphers)
    BY <2>1, DecimalShape
  <2>3. x[i] \in Ciphers
    BY <2>2
  <2>4. "e" \notin Ciphers
    BY CharsDiffer
  <2>. QED BY <1>7, <2>3, <2>4
<1>. QED BY <1>8

-----------------------------------------------------------------------------
(* Comparisons *)

\* The text of a float.
LEMMA FloatText ==
  ASSUME NEW n \in Nat
  PROVE  Text(Num("float", n)) = IF n < ExpFrom THEN Decimal[n] ELSE Exponent(n)
<1>1. PICK f : f = Num("float", n)
  OBVIOUS
<1>2. f.type = "float" /\ f.number = n
  BY <1>1, NumShape
<1>3. Text(f) = ScalarText(f)
  BY <1>2, ItemText
<1>4. ScalarText(f) = IF n < ExpFrom THEN Decimal[n] ELSE Exponent(n)
  BY <1>2 DEF ScalarText
<1>. QED BY <1>1, <1>3, <1>4

\* Different floats have different texts.
LEMMA FloatTextInjective ==
  ASSUME NEW n \in Nat, NEW m \in Nat,
         Text(Num("float", n)) = Text(Num("float", m))
  PROVE  n = m
<1>1. PICK x : x = Text(Num("float", n))
  OBVIOUS
<1>2. x = IF n < ExpFrom THEN Decimal[n] ELSE Exponent(n)
  BY <1>1, FloatText
<1>3. x = IF m < ExpFrom THEN Decimal[m] ELSE Exponent(m)
  BY <1>1, FloatText
<1>4. \A i \in Nat : ~ (i < ExpFrom) => i >= 1
  BY NumbersAssumption
<1>5. CASE n < ExpFrom /\ m < ExpFrom
  BY <1>2, <1>3, <1>5, DecimalInjective
<1>6. CASE ~ (n < ExpFrom) /\ ~ (m < ExpFrom)
  <2>1. n >= 1 /\ m >= 1
    BY <1>4, <1>6
  <2>. QED BY <1>2, <1>3, <1>6, <2>1, ExponentInjective
<1>7. CASE n < ExpFrom /\ ~ (m < ExpFrom)
  <2>1. m >= 1
    BY <1>4, <1>7
  <2>. QED BY <1>2, <1>3, <1>7, <2>1, ExponentIsNoNumeral
<1>8. CASE ~ (n < ExpFrom) /\ m < ExpFrom
  <2>1. n >= 1
    BY <1>4, <1>8
  <2>. QED BY <1>2, <1>3, <1>8, <2>1, ExponentIsNoNumeral
<1>. QED BY <1>5, <1>6, <1>7, <1>8

\* A string is read as it is, and is its own text.
LEMMA StringText ==
  ASSUME NEW v, Written(v), v.type = "string"
  PROVE  /\ ReadAs("float", v) = v /\ v = Str(v.text)
         /\ Text(ReadAs("float", v)) = v.text
<1>1. ReadAs("float", v) = v
  BY ReadOther
<1>2. Text(v) = ScalarText(v)
  BY ItemText
<1>3. ScalarText(v) = v.text
  BY DEF ScalarText
<1>. QED BY <1>1, <1>2, <1>3 DEF Written

\* Two strings, or two numbers, of a module are equal exactly if they were
\* written equal.
LEMMA EqualAsWritten ==
  ASSUME NEW v, NEW w, Written(v), Written(w), v.type = w.type,
         v.type \in {"string", "number"}
  PROVE  Equals(ReadAs("float", v), ReadAs("float", w)) <=> v = w
<1>1. CASE v.type = "string"
  <2>1. v = Str(v.text) /\ Text(ReadAs("float", v)) = v.text
    BY <1>1, StringText
  <2>2. w = Str(w.text) /\ Text(ReadAs("float", w)) = w.text
    BY <1>1, StringText
  <2>3. v.text = w.text => v = w
    BY <2>1, <2>2
  <2>. QED BY <2>1, <2>2, <2>3 DEF Equals
<1>2. CASE v.type = "number"
  <2>1. v = Num("number", v.number) /\ v.number \in Nat
    BY <1>2 DEF Written
  <2>2. w = Num("number", w.number) /\ w.number \in Nat
    BY <1>2 DEF Written
  <2>3. ReadAs("float", v) = Num("float", v.number)
    BY <1>2, ReadNumber
  <2>4. ReadAs("float", w) = Num("float", w.number)
    BY <1>2, ReadNumber
  <2>5. Text(Num("float", v.number)) = Text(Num("float", w.number)) => v.number = w.number
    BY <2>1, <2>2, FloatTextInjective
  <2>6. v.number = w.number => v = w
    BY <2>1, <2>2
  <2>. QED BY <2>3, <2>4, <2>5, <2>6 DEF Equals
<1>. QED BY <1>1, <1>2

\* The attribute of a condition in the context of a request.
LEMMA ResolvedAttribute ==
  ASSUME NEW q \in Questions, NEW a, a.root = "attributes",
         a.name \in AttributeNames
  PROVE  Resolve(a, Context(q)) = ReadAs("float", q.context.attributes[a.name])
<1>1. Context(q).attributes[a.name] = ReadAs("float", q.context.attributes[a.name])
  BY QuestionsAssumption DEF Context
<1>2. PICK x : x = Context(q)
  OBVIOUS
<1>3. Resolve(a, x) = x.attributes[a.name]
  BY DEF Resolve
<1>. QED BY <1>1, <1>2, <1>3

\* What a rule of one condition says, and what its condition is read as.
LEMMA OneCondition ==
  ASSUME NEW q \in Questions, Len(q.conditions) = 1,
         NEW c, c = q.conditions[1], c.attribute.root = "attributes"
  PROVE  \E f :
           /\ f.attribute = c.attribute /\ f.operator = c.operator
           /\ f.value = ReadAs("float", c.value) /\ Written(c.value)
           /\ Resolve(f.attribute, Context(q))
                = ReadAs("float", q.context.attributes[c.attribute.name])
           /\ Written(q.context.attributes[c.attribute.name])
           /\ AllConditionsMatch(Conditions(q, "float"), Context(q))
                <=> EvaluateCondition(f, Context(q))
<1>1. 1 \in DOMAIN q.conditions /\ DOMAIN q.conditions = 1 .. 1
  <2>1. DOMAIN q.conditions = 1 .. Len(q.conditions)
    BY QuestionsAssumption
  <2>2. DOMAIN q.conditions = 1 .. 1
    BY <2>1, Zenon
  <2>. QED BY <2>2
<1>2. /\ DOMAIN c = {"attribute", "operator", "value"} /\ Written(c.value)
      /\ c.attribute.name \in AttributeNames
  BY <1>1, QuestionsAssumption
<1>3. Written(q.context.attributes[c.attribute.name])
  BY <1>2, QuestionsAssumption
<1>4. PICK f : f = Conditions(q, "float")[1]
  OBVIOUS
<1>5. /\ f.attribute = c.attribute /\ f.operator = c.operator
      /\ f.value = ReadAs("float", c.value)
  <2>1. f = [c EXCEPT !.value = ReadAs("float", @)]
    BY <1>1, <1>4 DEF Conditions
  <2>. QED BY <1>2, <2>1
<1>6. Resolve(f.attribute, Context(q))
        = ReadAs("float", q.context.attributes[c.attribute.name])
  BY <1>2, <1>5, ResolvedAttribute
<1>7. AllConditionsMatch(Conditions(q, "float"), Context(q))
        <=> EvaluateCondition(f, Context(q))
  <2>1. DOMAIN Conditions(q, "float") = 1 .. 1
    BY <1>1 DEF Conditions
  <2>. QED BY <1>4, <2>1 DEF AllConditionsMatch
<1>. QED BY <1>2, <1>3, <1>5, <1>6, <1>7

\* What a condition that compares two strings or two numbers says.
LEMMA ConditionAsWritten ==
  ASSUME NEW c, NEW context, NEW v, NEW w, Written(v), Written(w),
         Resolve(c.attribute, context) = ReadAs("float", v),
         c.value = ReadAs("float", w),
         v.type = w.type, v.type \in {"string", "number"},
         \/ c.operator \in {"equals", "not_equals"}
         \/ ComparesNumbers(c) /\ v.type = "number"
  PROVE  EvaluateCondition(c, context) <=> Comparison(c.operator, v, w)
<1>1. PICK x : x = ReadAs("float", v)
  OBVIOUS
<1>2. PICK y : y = ReadAs("float", w)
  OBVIOUS
<1>3. x # Absent
  <2>1. x.type \in {"string", "float"}
    <3>1. CASE v.type = "string"
      BY <1>1, <3>1, ReadOther
    <3>2. CASE v.type = "number"
      BY <1>1, <3>2, ReadNumber, NumShape
    <3>. QED BY <3>1, <3>2
  <2>2. Absent.type = "absent"
    BY DEF Absent
  <2>. QED BY <2>1, <2>2
<1>4. Equals(x, y) <=> v = w
  BY <1>1, <1>2, EqualAsWritten
<1>5. Resolve(c.attribute, context) = x /\ c.value = y
  BY <1>1, <1>2
<1>6. CASE c.operator = "equals"
  <2>1. EvaluateCondition(c, context) <=> Equals(x, y)
    BY <1>3, <1>5, <1>6 DEF EvaluateCondition
  <2>. QED BY <1>4, <1>6, <2>1 DEF Comparison
<1>7. CASE c.operator = "not_equals"
  <2>1. EvaluateCondition(c, context) <=> ~ Equals(x, y)
    BY <1>3, <1>5, <1>7 DEF EvaluateCondition
  <2>. QED BY <1>4, <1>7, <2>1 DEF Comparison
<1>8. CASE ComparesNumbers(c) /\ v.type = "number"
  <2>1. /\ x.type = "float" /\ x.number = v.number
        /\ y.type = "float" /\ y.number = w.number
    <3>1. x = Num("float", v.number)
      BY <1>1, <1>8, ReadNumber
    <3>2. y = Num("float", w.number)
      BY <1>2, <1>8, ReadNumber
    <3>. QED BY <3>1, <3>2, NumShape
  <2>2. IsNumber(x) /\ IsNumber(y)
    BY <2>1 DEF IsNumber
  <2>3. CASE c.operator = "greater_than"
    <3>1. EvaluateCondition(c, context) <=> x.number > y.number
      BY <1>3, <1>5, <2>2, <2>3 DEF EvaluateCondition
    <3>. QED BY <2>1, <2>3, <3>1 DEF Comparison
  <2>4. CASE c.operator = "less_than"
    <3>1. EvaluateCondition(c, context) <=> x.number < y.number
      BY <1>3, <1>5, <2>2, <2>4 DEF EvaluateCondition
    <3>. QED BY <2>1, <2>4, <3>1 DEF Comparison
  <2>. QED BY <1>8, <2>3, <2>4 DEF ComparesNumbers
<1>. QED BY <1>6, <1>7, <1>8

-----------------------------------------------------------------------------
(* Numbers of versions *)

\* What Number makes of what it has read and of one more character.
Taken(n, ch) == IF IsDigit(ch) THEN Wrap(10 * n + Digit(ch)) ELSE n

\* g is the fold of Number over the places S of s.
Folds(g, s, S) ==
  g = [ p \in SUBSET S |->
          IF p = {} THEN 0 ELSE Taken(g[p \ {Max(p)}], s[Max(p)]) ]

\* What Number computes, as a recursive function.
LEMMA NumberIs ==
  ASSUME NEW s
  PROVE  Number(s) = (CHOOSE g : Folds(g, s, DOMAIN s))[DOMAIN s]
BY DEF Number, FoldLeft, MapThenFoldSet, Folds, Taken

\* Without its last place, a set of places is among the earlier ones.
LEMMA WithoutLast ==
  ASSUME NEW k \in Nat, NEW p \in SUBSET (1 .. k), p # {}
  PROVE  /\ Max(p) \in p /\ Max(p) \in 1 .. k
         /\ p \ {Max(p)} \in SUBSET (1 .. Max(p) - 1)
         /\ p \ {Max(p)} \in SUBSET (1 .. k)
<1>1. Max(p) \in p /\ \A i \in p : i <= Max(p)
  BY LastPlace
<1>2. Max(p) \in 1 .. k
  BY <1>1
<1>3. PICK m \in 1 .. k : m = Max(p)
  BY <1>2
<1>4. ASSUME NEW i \in p \ {m}
      PROVE  i \in 1 .. m - 1
  <2>1. i \in 1 .. k /\ i <= m /\ i # m
    BY <1>1, <1>3
  <2>. QED BY <2>1
<1>. QED BY <1>1, <1>3, <1>4

\* There is such a function, whatever the characters.
LEMMA FoldsExist ==
  ASSUME NEW s
  PROVE  \A k \in Nat : \E g : Folds(g, s, 1 .. k)
<1>. DEFINE S == { k \in Nat : ~ \E g : Folds(g, s, 1 .. k) }
<1>1. SUFFICES ASSUME S # {}
               PROVE  FALSE
  OBVIOUS
<1>2. PICK k \in S : \A j \in 0 .. k - 1 : j \notin S
  <2>1. S \subseteq Nat
    OBVIOUS
  <2>. HIDE DEF S
  <2>. QED BY <1>1, <2>1, Least
<1>3. k \in Nat /\ ~ \E g : Folds(g, s, 1 .. k)
  BY <1>2
<1>. DEFINE Value(g, p) == IF p = {} THEN 0 ELSE Taken(g[p \ {Max(p)}], s[Max(p)])
<1>4. CASE k = 0
  <2>. DEFINE g == [ p \in SUBSET (1 .. k) |-> 0 ]
  <2>1. \A p \in SUBSET (1 .. k) : Value(g, p) = 0
    BY <1>4
  <2>2. g = [ p \in SUBSET (1 .. k) |-> Value(g, p) ]
    <3>. HIDE DEF Value
    <3>. QED BY <2>1
  <2>3. Folds(g, s, 1 .. k)
    <3>. HIDE DEF g
    <3>. QED BY <2>2 DEF Folds
  <2>. QED BY <1>3, <2>3
<1>5. CASE k # 0
  <2>1. k - 1 \in Nat /\ k - 1 \in 0 .. k - 1
    BY <1>3, <1>5
  <2>2. PICK h : Folds(h, s, 1 .. k - 1)
    BY <1>2, <2>1
  <2>3. \A p \in SUBSET (1 .. k - 1) : h[p] = Value(h, p)
    BY <2>2 DEF Folds
  <2>. DEFINE g == [ p \in SUBSET (1 .. k) |->
                       IF p \in SUBSET (1 .. k - 1) THEN h[p] ELSE Value(h, p) ]
  <2>4. \A p \in SUBSET (1 .. k) : g[p] = Value(h, p)
    <3>. HIDE DEF Value
    <3>. QED BY <2>3
  <2>5. \A p \in SUBSET (1 .. k) : Value(g, p) = Value(h, p)
    <3>1. SUFFICES ASSUME NEW p \in SUBSET (1 .. k), p # {}
                   PROVE  Value(g, p) = Value(h, p)
      BY DEF Value
    <3>2. /\ Max(p) \in 1 .. k
          /\ p \ {Max(p)} \in SUBSET (1 .. Max(p) - 1)
          /\ p \ {Max(p)} \in SUBSET (1 .. k)
      BY <1>3, <3>1, WithoutLast
    <3>3. p \ {Max(p)} \in SUBSET (1 .. k - 1)
      <4>1. 1 .. Max(p) - 1 \subseteq 1 .. k - 1
        BY <1>3, <3>2
      <4>. QED BY <3>2, <4>1
    <3>4. PICK q \in SUBSET (1 .. k) : q = p \ {Max(p)}
      BY <3>2
    <3>5. g[q] = h[q]
      BY <3>3, <3>4
    <3>. HIDE DEF g
    <3>. QED BY <3>4, <3>5
  <2>6. g = [ p \in SUBSET (1 .. k) |-> g[p] ]
    OBVIOUS
  <2>7. g = [ p \in SUBSET (1 .. k) |-> Value(g, p) ]
    <3>. HIDE DEF g, Value
    <3>. QED BY <2>4, <2>5, <2>6
  <2>8. Folds(g, s, 1 .. k)
    <3>. HIDE DEF g
    <3>. QED BY <2>7 DEF Folds
  <2>. QED BY <1>3, <2>8
<1>. QED BY <1>4, <1>5

\* What is folded up to one place more is what that place's character makes of
\* what was folded up to it.
LEMMA FoldStep ==
  ASSUME NEW s, NEW k \in Nat, NEW g, Folds(g, s, 1 .. k), NEW j \in 0 .. k
  PROVE  /\ j = 0 => g[1 .. j] = 0
         /\ j > 0 => g[1 .. j] = Taken(g[1 .. j - 1], s[j])
<1>0. j \in Nat
  OBVIOUS
<1>1. 1 .. j \in SUBSET (1 .. k)
  OBVIOUS
<1>2. g[1 .. j] = IF 1 .. j = {} THEN 0
                  ELSE Taken(g[(1 .. j) \ {Max(1 .. j)}], s[Max(1 .. j)])
  BY <1>1 DEF Folds
<1>3. CASE j = 0
  BY <1>2, <1>3
<1>4. CASE j > 0
  <2>0. 1 .. j \subseteq 1 .. j /\ 1 .. j # {} /\ j \in 1 .. j
    <3>1. j \in 1 .. j
      BY <1>0, <1>4
    <3>. QED BY <3>1, Zenon
  <2>1. Max(1 .. j) \in 1 .. j /\ \A i \in 1 .. j : i <= Max(1 .. j)
    BY <1>0, <2>0, LastPlace
  <2>2. Max(1 .. j) = j
    <3>1. PICK m \in 1 .. j : m = Max(1 .. j)
      BY <2>1
    <3>2. j <= m
      BY <2>0, <2>1, <3>1
    <3>. QED BY <3>1, <3>2
  <2>3. (1 .. j) \ {j} = 1 .. j - 1 /\ 1 .. j # {}
    BY <1>4
  <2>4. g[1 .. j] = Taken(g[(1 .. j) \ {Max(1 .. j)}], s[Max(1 .. j)])
    BY <1>2, <2>3
  <2>5. g[1 .. j] = Taken(g[1 .. j - 1], s[j])
    BY <2>2, <2>3, <2>4, Zenon
  <2>6. j # 0
    BY <1>4
  <2>. QED BY <2>5, <2>6, Zenon
<1>5. j = 0 \/ j > 0
  BY <1>0
<1>. QED BY <1>3, <1>4, <1>5, Zenon

\* Two folds agree on the first places if the characters there are the same.
LEMMA FoldsAgree ==
  ASSUME NEW s, NEW t, NEW k \in Nat, NEW m \in Nat, NEW g, NEW h,
         Folds(g, s, 1 .. k), Folds(h, t, 1 .. m), k <= m,
         \A i \in 1 .. k : s[i] = t[i]
  PROVE  g[1 .. k] = h[1 .. k]
<1>. DEFINE S == { j \in Nat : j <= k /\ g[1 .. j] # h[1 .. j] }
<1>1. SUFFICES ASSUME S # {}
               PROVE  FALSE
  BY DEF S
<1>2. PICK j \in S : \A i \in 0 .. j - 1 : i \notin S
  <2>1. S \subseteq Nat
    OBVIOUS
  <2>. HIDE DEF S
  <2>. QED BY <1>1, <2>1, Least
<1>3. j \in Nat /\ j <= k /\ g[1 .. j] # h[1 .. j]
  BY <1>2
<1>4. j \in 0 .. k /\ j \in 0 .. m
  BY <1>3
<1>5. CASE j = 0
  BY <1>3, <1>4, <1>5, FoldStep
<1>6. CASE j > 0
  <2>1. g[1 .. j] = Taken(g[1 .. j - 1], s[j]) /\ h[1 .. j] = Taken(h[1 .. j - 1], t[j])
    BY <1>4, <1>6, FoldStep
  <2>2. j - 1 \in 0 .. j - 1 /\ j - 1 \in Nat /\ j - 1 <= k
    BY <1>3, <1>6
  <2>3. g[1 .. j - 1] = h[1 .. j - 1]
    BY <1>2, <2>2
  <2>4. s[j] = t[j]
    BY <1>3, <1>6
  <2>. QED BY <1>3, <2>1, <2>3, <2>4
<1>. QED BY <1>3, <1>5, <1>6

\* The number of a text, character by character.
LEMMA NumberFold ==
  ASSUME NEW C, NEW s \in Seq(C)
  PROVE  \E g : Folds(g, s, 1 .. Len(s)) /\ Number(s) = g[1 .. Len(s)]
<1>1. DOMAIN s = 1 .. Len(s) /\ Len(s) \in Nat
  OBVIOUS
<1>2. PICK g : g = CHOOSE f : Folds(f, s, 1 .. Len(s))
  OBVIOUS
<1>3. Folds(g, s, 1 .. Len(s))
  BY <1>1, <1>2, FoldsExist
<1>4. Number(s) = g[1 .. Len(s)]
  BY <1>1, <1>2, NumberIs
<1>. QED BY <1>3, <1>4

\* The number of an empty text is zero.
LEMMA NumberEmpty == Number(<< >>) = 0
<1>1. PICK s \in Seq({}) : s = << >>
  <2>1. << >> \in Seq({})
    OBVIOUS
  <2>. QED BY <2>1, Zenon
<1>2. Len(s) = 0
  BY <1>1
<1>3. PICK g : Folds(g, s, 1 .. Len(s)) /\ Number(s) = g[1 .. Len(s)]
  BY NumberFold
<1>. QED BY <1>1, <1>2, <1>3, FoldStep

\* The number of a text with one more character.
LEMMA NumberAppend ==
  ASSUME NEW C, NEW s \in Seq(C), NEW ch \in C
  PROVE  Number(Append(s, ch)) = Taken(Number(s), ch)
<1>1. PICK t \in Seq(C) : t = Append(s, ch)
  <2>1. Append(s, ch) \in Seq(C)
    OBVIOUS
  <2>. QED BY <2>1, Zenon
<1>2. /\ Len(t) = Len(s) + 1 /\ Len(s) \in Nat /\ t[Len(s) + 1] = ch
      /\ \A i \in 1 .. Len(s) : t[i] = s[i]
  BY <1>1
<1>3. PICK k \in Nat : k = Len(s)
  BY <1>2
<1>4. PICK g : Folds(g, s, 1 .. k) /\ Number(s) = g[1 .. k]
  BY <1>3, NumberFold
<1>5. PICK h : Folds(h, t, 1 .. k + 1) /\ Number(t) = h[1 .. k + 1]
  BY <1>2, <1>3, NumberFold
<1>6. h[1 .. k + 1] = Taken(h[1 .. k], t[k + 1])
  <2>1. k + 1 \in Nat /\ k + 1 \in 0 .. k + 1 /\ k + 1 > 0 /\ (k + 1) - 1 = k
    OBVIOUS
  <2>2. h[1 .. k + 1] = Taken(h[1 .. (k + 1) - 1], t[k + 1])
    BY <1>5, <2>1, FoldStep
  <2>. QED BY <2>1, <2>2
<1>7. g[1 .. k] = h[1 .. k]
  <2>1. k + 1 \in Nat /\ k <= k + 1
    OBVIOUS
  <2>2. \A i \in 1 .. k : s[i] = t[i]
    BY <1>2, <1>3
  <2>. QED BY <1>4, <1>5, <2>1, <2>2, FoldsAgree
<1>. QED BY <1>1, <1>2, <1>3, <1>4, <1>5, <1>6, <1>7

\* The first of a set of places, zero if there is none, as SelectInSeq has it.
First(I) == IF I # {} THEN Min(I) ELSE 0

\* The first place is the one before which there is none.
LEMMA FirstIs ==
  ASSUME NEW I, I \subseteq Nat, NEW m \in I, \A i \in I : m <= i
  PROVE  First(I) = m
<1>1. m \in I /\ \A y \in I : m <= y
  OBVIOUS
<1>2. Min(I) \in I /\ \A y \in I : Min(I) <= y
  BY <1>1 DEF Min
<1>3. PICK x \in I : x = Min(I)
  BY <1>2
<1>4. x <= m /\ m <= x /\ x \in Nat /\ m \in Nat
  BY <1>2, <1>3
<1>. QED BY <1>3, <1>4 DEF First

\* A set of places that is not empty has a first one.
LEMMA FirstPlace ==
  ASSUME NEW I, I \subseteq Nat, I # {}
  PROVE  First(I) \in I /\ \A i \in I : First(I) <= i
<1>1. PICK m \in I : \A j \in 0 .. m - 1 : j \notin I
  BY Least
<1>2. \A i \in I : m <= i
  <2>1. SUFFICES ASSUME NEW i \in I, ~ (m <= i)
                 PROVE  FALSE
    OBVIOUS
  <2>2. i \in 0 .. m - 1
    BY <2>1
  <2>. QED BY <1>1, <2>1, <2>2
<1>3. First(I) = m
  BY <1>2, FirstIs
<1>. QED BY <1>2, <1>3

\* Nothing is left of a numeral of zeros.
LEMMA StrippedZeros ==
  ASSUME NEW C, NEW s \in Seq(C), \A i \in 1 .. Len(s) : s[i] = "0"
  PROVE  Stripped(s) = << >>
<1>1. { i \in 1 .. Len(s) : s[i] # "0" } = {}
  OBVIOUS
<1>2. SelectInSeq(s, LAMBDA ch : ch # "0") = 0
  BY <1>1 DEF SelectInSeq
<1>. QED BY <1>2 DEF Stripped

\* Of any other, what begins at its first digit that is not zero.
LEMMA StrippedAt ==
  ASSUME NEW C, NEW s \in Seq(C), NEW a \in 1 .. Len(s), s[a] # "0",
         \A i \in 1 .. a - 1 : s[i] = "0"
  PROVE  Stripped(s) = SubSeq(s, a, Len(s))
<1>. DEFINE I == { i \in 1 .. Len(s) : s[i] # "0" }
<1>1. Len(s) \in Nat
  BY LenNat
<1>2. I \subseteq Nat /\ a \in I
  BY <1>1
<1>3. \A i \in I : a <= i
  <2>1. SUFFICES ASSUME NEW i \in I, ~ (a <= i)
                 PROVE  FALSE
    OBVIOUS
  <2>2. i \in 1 .. a - 1
    BY <1>1, <2>1
  <2>. QED BY <2>1, <2>2
<1>4. First(I) = a
  <2>. HIDE DEF I
  <2>. QED BY <1>2, <1>3, FirstIs
<1>5. SelectInSeq(s, LAMBDA ch : ch # "0") = a
  BY <1>4 DEF SelectInSeq, First
<1>6. a # 0
  OBVIOUS
<1>. QED BY <1>5, <1>6 DEF Stripped

\* A sequence from one of its places on, element by element.
LEMMA RestIs ==
  ASSUME NEW C, NEW s \in Seq(C), NEW a \in 1 .. Len(s)
  PROVE  /\ SubSeq(s, a, Len(s)) \in Seq(C)
         /\ Len(SubSeq(s, a, Len(s))) = Len(s) - a + 1
         /\ \A i \in 1 .. Len(s) - a + 1 : SubSeq(s, a, Len(s))[i] = s[i + a - 1]
OBVIOUS

\* A sequence from one of its places on, once a character is appended.
LEMMA RestAppend ==
  ASSUME NEW C, NEW s \in Seq(C), NEW ch \in C, NEW a \in 1 .. Len(s)
  PROVE  SubSeq(Append(s, ch), a, Len(s) + 1) = Append(SubSeq(s, a, Len(s)), ch)
<1>1. PICK t \in Seq(C) : t = Append(s, ch)
  <2>1. Append(s, ch) \in Seq(C)
    OBVIOUS
  <2>. QED BY <2>1, Zenon
<1>2. /\ Len(t) = Len(s) + 1 /\ t[Len(s) + 1] = ch /\ Len(s) \in Nat
      /\ \A i \in 1 .. Len(s) : t[i] = s[i]
  BY <1>1
<1>3. PICK u \in Seq(C) : u = SubSeq(s, a, Len(s))
  <2>1. SubSeq(s, a, Len(s)) \in Seq(C)
    BY RestIs
  <2>. QED BY <2>1, Zenon
<1>4. /\ Len(u) = Len(s) - a + 1
      /\ \A i \in 1 .. Len(u) : u[i] = s[i + a - 1]
  BY <1>3, RestIs
<1>5. a \in 1 .. Len(t)
  BY <1>2
<1>6. PICK v \in Seq(C) : v = SubSeq(t, a, Len(t))
  <2>1. SubSeq(t, a, Len(t)) \in Seq(C)
    BY <1>5, RestIs
  <2>. QED BY <2>1, Zenon
<1>7. /\ Len(v) = Len(t) - a + 1
      /\ \A i \in 1 .. Len(v) : v[i] = t[i + a - 1]
  BY <1>5, <1>6, RestIs
<1>8. PICK w \in Seq(C) : w = Append(u, ch)
  <2>1. Append(u, ch) \in Seq(C)
    OBVIOUS
  <2>. QED BY <2>1, Zenon
<1>9. /\ Len(w) = Len(u) + 1 /\ w[Len(u) + 1] = ch
      /\ \A i \in 1 .. Len(u) : w[i] = u[i]
  BY <1>8
<1>10. Len(v) = Len(w) /\ Len(u) \in Nat /\ Len(v) = Len(u) + 1
  BY <1>2, <1>4, <1>7, <1>9
<1>11. ASSUME NEW i \in 1 .. Len(v)
       PROVE  v[i] = w[i]
  <2>0. PICK k \in Nat : k = Len(u)
    BY <1>10
  <2>1. v[i] = t[i + a - 1]
    BY <1>7
  <2>2. CASE i = k + 1
    <3>1. i + a - 1 = Len(s) + 1
      BY <1>2, <1>4, <2>0, <2>2
    <3>. QED BY <1>2, <1>9, <2>0, <2>1, <2>2, <3>1
  <2>3. CASE i # k + 1
    <3>1. i \in 1 .. Len(u) /\ i + a - 1 \in 1 .. Len(s)
      <4>1. PICK l \in Nat : l = Len(s)
        BY <1>2
      <4>2. i \in 1 .. k + 1 /\ k = l - a + 1 /\ a \in 1 .. l
        BY <1>4, <1>10, <2>0, <4>1
      <4>3. i \in 1 .. k /\ i + a - 1 \in 1 .. l
        BY <2>3, <4>2
      <4>. QED BY <2>0, <4>1, <4>3
    <3>2. u[i] = s[i + a - 1] /\ w[i] = u[i] /\ t[i + a - 1] = s[i + a - 1]
      BY <1>2, <1>4, <1>9, <3>1
    <3>. QED BY <2>1, <3>2
  <2>. QED BY <2>2, <2>3
<1>12. v = w
  BY <1>10, <1>11, SameSeq
<1>. QED BY <1>1, <1>2, <1>3, <1>6, <1>8, <1>12

\* What is left without zeros once a digit is appended.
LEMMA StrippedAppend ==
  ASSUME NEW C, NEW s \in Seq(C), NEW ch \in C
  PROVE  Stripped(Append(s, ch))
           = IF Stripped(s) # << >> THEN Append(Stripped(s), ch)
             ELSE IF ch = "0" THEN << >> ELSE << ch >>
<1>1. PICK t \in Seq(C) : t = Append(s, ch)
  <2>1. Append(s, ch) \in Seq(C)
    OBVIOUS
  <2>. QED BY <2>1, Zenon
<1>2. /\ Len(t) = Len(s) + 1 /\ t[Len(s) + 1] = ch /\ Len(s) \in Nat
      /\ \A i \in 1 .. Len(s) : t[i] = s[i]
  BY <1>1
<1>. DEFINE I == { i \in 1 .. Len(s) : s[i] # "0" }
<1>3. CASE I = {}
  <2>1. \A i \in 1 .. Len(s) : s[i] = "0"
    BY <1>3
  <2>2. Stripped(s) = << >>
    BY <2>1, StrippedZeros
  <2>3. CASE ch = "0"
    <3>1. \A i \in 1 .. Len(t) : t[i] = "0"
      BY <1>2, <2>1, <2>3
    <3>. QED BY <1>1, <2>2, <2>3, <3>1, StrippedZeros
  <2>4. CASE ch # "0"
    <3>1. Len(t) \in 1 .. Len(t) /\ t[Len(t)] # "0"
      BY <1>2, <2>4
    <3>2. \A i \in 1 .. Len(t) - 1 : t[i] = "0"
      BY <1>2, <2>1
    <3>3. Stripped(t) = SubSeq(t, Len(t), Len(t))
      BY <3>1, <3>2, StrippedAt
    <3>4. SubSeq(t, Len(t), Len(t)) = << ch >>
      <4>1. PICK u \in Seq(C) : u = SubSeq(t, Len(t), Len(t))
        <5>1. SubSeq(t, Len(t), Len(t)) \in Seq(C)
          BY <3>1, RestIs
        <5>. QED BY <5>1, Zenon
      <4>2. Len(u) = 1 /\ u[1] = ch
        <5>1. Len(t) - Len(t) + 1 = 1 /\ 1 + Len(t) - 1 = Len(t)
          BY <1>2
        <5>2. /\ Len(u) = Len(t) - Len(t) + 1
              /\ \A i \in 1 .. Len(t) - Len(t) + 1 : u[i] = t[i + Len(t) - 1]
          BY <3>1, <4>1, RestIs
        <5>3. u[1] = t[1 + Len(t) - 1]
          BY <5>1, <5>2
        <5>. QED BY <1>2, <5>1, <5>2, <5>3
      <4>3. u = << ch >>
        BY <4>2
      <4>. QED BY <4>1, <4>3
    <3>. QED BY <1>1, <2>2, <2>4, <3>3, <3>4, Zenon
  <2>. QED BY <2>3, <2>4
<1>4. CASE I # {}
  <2>1. I \subseteq Nat
    BY <1>2
  <2>2. PICK a \in I : \A i \in I : a <= i
    <3>. HIDE DEF I
    <3>. QED BY <1>4, <2>1, FirstPlace
  <2>3. a \in 1 .. Len(s) /\ s[a] # "0"
    OBVIOUS
  <2>4. ASSUME NEW i \in 1 .. a - 1
        PROVE  s[i] = "0"
    <3>1. i \in 1 .. Len(s) /\ ~ (a <= i)
      BY <1>2, <2>3
    <3>. QED BY <2>2, <3>1
  <2>5. Stripped(s) = SubSeq(s, a, Len(s))
    BY <2>3, <2>4, StrippedAt
  <2>6. a \in 1 .. Len(t) /\ t[a] # "0" /\ \A i \in 1 .. a - 1 : t[i] = "0"
    BY <1>2, <2>3, <2>4
  <2>7. Stripped(t) = SubSeq(t, a, Len(t))
    BY <2>6, StrippedAt
  <2>8. SubSeq(t, a, Len(s) + 1) = Append(SubSeq(s, a, Len(s)), ch)
    BY <1>1, <2>3, RestAppend
  <2>9. Stripped(s) # << >>
    <3>1. PICK u \in Seq(C) : u = SubSeq(s, a, Len(s))
      <4>1. SubSeq(s, a, Len(s)) \in Seq(C)
        BY <2>3, RestIs
      <4>. QED BY <4>1, Zenon
    <3>2. Len(u) # 0
      BY <1>2, <2>3, <3>1, RestIs
    <3>3. u # << >>
      BY <3>2
    <3>. QED BY <2>5, <3>1, <3>3
  <2>. QED BY <1>1, <1>2, <2>5, <2>7, <2>8, <2>9, Zenon
<1>. QED BY <1>3, <1>4

\* A digit is read as it is written.
LEMMA DigitIs ==
  ASSUME NEW d \in 0 .. 9
  PROVE  /\ Digit(Chars[d + 1]) = d /\ IsDigit(Chars[d + 1])
         /\ Chars[d + 1] = "0" <=> d = 0
<1>1. \A e \in 0 .. 9 : Chars[e + 1] = Chars[d + 1] => e = d
  BY CharsDiffer
<1>2. Digit(Chars[d + 1]) = d
  BY <1>1 DEF Digit
<1>3. IsDigit(Chars[d + 1])
  BY DEF IsDigit
<1>4. Chars[d + 1] = "0" <=> d = 0
  <2>1. 0 \in 0 .. 9 /\ Chars[0 + 1] = Chars[1] /\ Chars[1] = "0"
    BY CharsDiffer
  <2>. QED BY <1>1, <2>1
<1>. QED BY <1>2, <1>3, <1>4

\* What an int can hold does not wrap around.
LEMMA WrapIs ==
  ASSUME NEW n \in Nat, n <= IntMax
  PROVE  Wrap(n) = n
<1>1. IntMax \in Nat
  BY NumbersAssumption
<1>2. n + IntMax + 1 \in 0 .. (2 * IntMax + 2) - 1 /\ 2 * IntMax + 2 \in Nat \ {0}
  BY <1>1
<1>3. \A x, m \in Nat : m > 0 /\ x < m => x % m = x
  OBVIOUS
<1>4. (n + IntMax + 1) % (2 * IntMax + 2) = n + IntMax + 1
  BY <1>2, <1>3
<1>. QED BY <1>1, <1>4 DEF Wrap

\* The number of a numeral and the numeral without the zeros before it.
HasValue(s, n) ==
  /\ Stripped(s) = IF n = 0 THEN << >> ELSE Decimal[n]
  /\ n <= IntMax => Number(s) = n

\* A digit more makes a number ten times as large, and adds the digit.
LEMMA ValueAppend ==
  ASSUME NEW s \in Seq(Ciphers), NEW n \in Nat, HasValue(s, n), NEW d \in 0 .. 9
  PROVE  HasValue(Append(s, Chars[d + 1]), 10 * n + d)
<1>0. PICK m \in Nat : m = 10 * n + d
  OBVIOUS
<1>1. PICK ch \in Ciphers : ch = Chars[d + 1]
  BY DEF Ciphers
<1>2. Digit(ch) = d /\ IsDigit(ch) /\ (ch = "0" <=> d = 0)
  BY <1>1, DigitIs
<1>3. m <= IntMax => Number(Append(s, ch)) = m
  <2>1. SUFFICES ASSUME m <= IntMax
                 PROVE  Number(Append(s, ch)) = m
    OBVIOUS
  <2>2. n <= IntMax
    BY <1>0, <2>1, NumbersAssumption
  <2>3. Number(s) = n
    BY <2>2 DEF HasValue
  <2>4. Number(Append(s, ch)) = Taken(n, ch)
    BY <2>3, NumberAppend
  <2>5. Taken(n, ch) = Wrap(m)
    BY <1>0, <1>2 DEF Taken
  <2>6. Wrap(m) = m
    BY <2>1, WrapIs
  <2>. QED BY <2>4, <2>5, <2>6
<1>4. Stripped(Append(s, ch)) = IF m = 0 THEN << >> ELSE Decimal[m]
  <2>1. Stripped(Append(s, ch))
          = IF Stripped(s) # << >> THEN Append(Stripped(s), ch)
            ELSE IF ch = "0" THEN << >> ELSE << ch >>
    BY StrippedAppend
  <2>2. CASE n = 0
    <3>1. Stripped(s) = << >> /\ m = d
      BY <1>0, <2>2 DEF HasValue
    <3>2. d # 0 => Decimal[d] = << ch >>
      BY <1>1, DecimalStep
    <3>. QED BY <1>2, <2>1, <3>1, <3>2
  <2>3. CASE n # 0
    <3>1. Stripped(s) = Decimal[n]
      BY <2>3 DEF HasValue
    <3>2. Decimal[n] # << >>
      <4>1. PICK u \in Seq(Ciphers) : u = Decimal[n]
        <5>1. Decimal[n] \in Seq(Ciphers)
          BY DecimalShape
        <5>. QED BY <5>1, Zenon
      <4>2. Len(u) >= 1
        BY <4>1, DecimalShape
      <4>3. u # << >>
        BY <4>2
      <4>. QED BY <4>1, <4>3
    <3>3. ~ (m < 10) /\ m \div 10 = n /\ m % 10 = d /\ m # 0
      BY <1>0, <2>3
    <3>4. Decimal[m] = Append(Decimal[n], ch)
      BY <1>1, <3>3, DecimalStep
    <3>. QED BY <2>1, <3>1, <3>2, <3>3, <3>4, Zenon
  <2>. QED BY <2>2, <2>3
<1>. QED BY <1>0, <1>1, <1>3, <1>4 DEF HasValue

\* Every numeral has a value.
LEMMA NumeralValue == \A s \in Seq(Ciphers) : \E n \in Nat : HasValue(s, n)
<1>. DEFINE Valued(s) == \E n \in Nat : HasValue(s, n)
            S == { k \in Nat : \E s \in Seq(Ciphers) : Len(s) = k /\ ~ Valued(s) }
<1>1. SUFFICES ASSUME S # {}
               PROVE  FALSE
  <2>1. SUFFICES ASSUME NEW s \in Seq(Ciphers), ~ Valued(s)
                 PROVE  S # {}
    <3>. HIDE DEF Valued, S
    <3>1. \A s \in Seq(Ciphers) : Valued(s)
      BY <1>1, <2>1
    <3>. QED BY <3>1 DEF Valued
  <2>2. Len(s) \in Nat
    BY LenNat
  <2>. HIDE DEF Valued
  <2>. QED BY <2>1, <2>2
<1>2. PICK k \in S : \A j \in 0 .. k - 1 : j \notin S
  <2>1. S \subseteq Nat
    OBVIOUS
  <2>. HIDE DEF S
  <2>. QED BY <1>1, <2>1, Least
<1>3. PICK s \in Seq(Ciphers) : Len(s) = k /\ ~ Valued(s) /\ k \in Nat
  <2>. HIDE DEF Valued
  <2>. QED BY <1>2
<1>4. CASE k = 0
  <2>1. s = << >>
    BY <1>3, <1>4
  <2>2. Stripped(s) = << >>
    <3>1. \A i \in 1 .. Len(s) : s[i] = "0"
      BY <1>3, <1>4
    <3>. QED BY <3>1, StrippedZeros
  <2>3. HasValue(s, 0)
    BY <2>1, <2>2, NumberEmpty DEF HasValue
  <2>. QED BY <1>3, <2>3
<1>5. CASE k # 0
  <2>1. PICK t \in Seq(Ciphers) : t = SubSeq(s, 1, k - 1)
    <3>1. SubSeq(s, 1, k - 1) \in Seq(Ciphers)
      BY <1>3, <1>5
    <3>. QED BY <3>1, Zenon
  <2>2. Len(t) = k - 1 /\ \A i \in 1 .. k - 1 : t[i] = s[i]
    BY <1>3, <1>5, <2>1
  <2>3. PICK d \in 0 .. 9 : s[k] = Chars[d + 1]
    <3>1. s[k] \in Ciphers
      BY <1>3, <1>5
    <3>. QED BY <3>1 DEF Ciphers
  <2>4. PICK ch \in Ciphers : ch = Chars[d + 1]
    BY DEF Ciphers
  <2>5. s = Append(t, ch)
    <3>1. PICK u \in Seq(Ciphers) : u = Append(t, ch)
      <4>1. Append(t, ch) \in Seq(Ciphers)
        OBVIOUS
      <4>. QED BY <4>1, Zenon
    <3>2. /\ Len(u) = Len(t) + 1 /\ u[Len(t) + 1] = ch
          /\ \A i \in 1 .. Len(t) : u[i] = t[i]
      BY <3>1
    <3>3. Len(u) = k /\ u[k] = ch /\ \A i \in 1 .. k - 1 : u[i] = s[i]
      BY <1>3, <2>2, <3>2
    <3>4. \A i \in 1 .. k : u[i] = s[i]
      <4>1. \A i \in 1 .. k : i = k \/ i \in 1 .. k - 1
        BY <1>3
      <4>2. s[k] = ch
        BY <2>3, <2>4
      <4>. QED BY <3>3, <4>1, <4>2
    <3>5. u = s
      <4>1. Len(u) = Len(s) /\ \A i \in 1 .. Len(u) : u[i] = s[i]
        BY <1>3, <3>3, <3>4
      <4>. QED BY <4>1, SameSeq
    <3>. QED BY <3>1, <3>5
  <2>6. k - 1 \in 0 .. k - 1 /\ k - 1 \in Nat
    BY <1>3, <1>5
  <2>7. Valued(t)
    <3>1. k - 1 \notin S
      BY <1>2, <2>6
    <3>. HIDE DEF Valued
    <3>. QED BY <2>2, <2>6, <3>1
  <2>8. PICK n \in Nat : HasValue(t, n)
    BY <2>7
  <2>9. HasValue(Append(t, Chars[d + 1]), 10 * n + d)
    BY <2>8, ValueAppend, Zenon
  <2>10. 10 * n + d \in Nat
    OBVIOUS
  <2>11. Valued(s)
    BY <2>4, <2>5, <2>9, <2>10, Zenon
  <2>. HIDE DEF Valued
  <2>. QED BY <1>3, <2>11
<1>. QED BY <1>4, <1>5

\* The order of two numerals without zeros before them: the shorter one is
\* smaller, or the one whose first different digit is.
Before(m, n) ==
  \/ Len(m) < Len(n)
  \/ /\ Len(m) = Len(n)
     /\ \E i \in DOMAIN m : Digit(m[i]) < Digit(n[i]) /\ \A j \in 1 .. i - 1 : m[j] = n[j]

\* Of two numerals, only one comes before the other.
LEMMA BeforeAsymmetric ==
  ASSUME NEW m \in Seq(Ciphers), NEW n \in Seq(Ciphers), Before(m, n)
  PROVE  ~ Before(n, m)
<1>1. Len(m) \in Nat /\ Len(n) \in Nat
  BY LenNat
<1>2. \A ch \in Ciphers : Digit(ch) \in Nat
  <2>1. \A d \in 0 .. 9 : Digit(Chars[d + 1]) = d
    BY DigitIs
  <2>. QED BY <2>1 DEF Ciphers
<1>3. SUFFICES ASSUME Before(n, m)
               PROVE  FALSE
  OBVIOUS
<1>4. Len(m) = Len(n)
  BY <1>1, <1>3 DEF Before
<1>5. PICK i \in 1 .. Len(m) : Digit(m[i]) < Digit(n[i]) /\ \A j \in 1 .. i - 1 : m[j] = n[j]
  BY <1>1, <1>4 DEF Before
<1>6. PICK k \in 1 .. Len(m) : Digit(n[k]) < Digit(m[k]) /\ \A j \in 1 .. k - 1 : n[j] = m[j]
  BY <1>1, <1>3, <1>4 DEF Before
<1>7. Digit(m[i]) \in Nat /\ Digit(n[i]) \in Nat /\ Digit(m[k]) \in Nat /\ Digit(n[k]) \in Nat
  <2>1. m[i] \in Ciphers /\ n[i] \in Ciphers /\ m[k] \in Ciphers /\ n[k] \in Ciphers
    BY <1>4
  <2>. QED BY <1>2, <2>1, Zenon
<1>8. i \in Nat /\ k \in Nat
  OBVIOUS
<1>9. i = k
  <2>1. ~ (i < k)
    <3>1. SUFFICES ASSUME i < k
                   PROVE  FALSE
      OBVIOUS
    <3>2. i \in 1 .. k - 1
      BY <3>1
    <3>3. n[i] = m[i]
      BY <1>6, <3>2
    <3>. QED BY <1>5, <1>7, <3>3
  <2>2. ~ (k < i)
    <3>1. SUFFICES ASSUME k < i
                   PROVE  FALSE
      OBVIOUS
    <3>2. k \in 1 .. i - 1
      BY <3>1
    <3>3. n[k] = m[k]
      BY <1>5, <3>2
    <3>. QED BY <1>6, <1>7, <3>3
  <2>. QED BY <1>8, <2>1, <2>2
<1>. QED BY <1>5, <1>6, <1>7, <1>9

\* A smaller beginning stays smaller, whatever digits are appended; and of
\* two numerals that begin alike, the one that ends in the smaller digit is.
LEMMA BeforeAppend ==
  ASSUME NEW m \in Seq(Ciphers), NEW n \in Seq(Ciphers),
         NEW a \in Ciphers, NEW b \in Ciphers,
         Before(m, n) \/ (m = n /\ Digit(a) < Digit(b))
  PROVE  Before(Append(m, a), Append(n, b))
<1>1. PICK u \in Seq(Ciphers) : u = Append(m, a)
  <2>1. Append(m, a) \in Seq(Ciphers)
    OBVIOUS
  <2>. QED BY <2>1, Zenon
<1>2. PICK v \in Seq(Ciphers) : v = Append(n, b)
  <2>1. Append(n, b) \in Seq(Ciphers)
    OBVIOUS
  <2>. QED BY <2>1, Zenon
<1>3. /\ Len(u) = Len(m) + 1 /\ u[Len(m) + 1] = a /\ Len(m) \in Nat
      /\ \A i \in 1 .. Len(m) : u[i] = m[i]
  BY <1>1
<1>4. /\ Len(v) = Len(n) + 1 /\ v[Len(n) + 1] = b /\ Len(n) \in Nat
      /\ \A i \in 1 .. Len(n) : v[i] = n[i]
  BY <1>2
<1>5. CASE Len(m) < Len(n)
  <2>1. Len(u) < Len(v)
    BY <1>3, <1>4, <1>5
  <2>. QED BY <1>1, <1>2, <2>1 DEF Before
<1>6. CASE Len(m) = Len(n) /\ Before(m, n)
  <2>1. DOMAIN m = 1 .. Len(m) /\ DOMAIN u = 1 .. Len(u)
    OBVIOUS
  <2>2. PICK i \in 1 .. Len(m) : Digit(m[i]) < Digit(n[i]) /\ \A j \in 1 .. i - 1 : m[j] = n[j]
    BY <1>3, <1>6, <2>1 DEF Before
  <2>3. i \in 1 .. Len(u) /\ u[i] = m[i] /\ v[i] = n[i]
    BY <1>3, <1>4, <1>6
  <2>4. ASSUME NEW j \in 1 .. i - 1
        PROVE  u[j] = v[j]
    <3>1. j \in 1 .. Len(m)
      BY <1>3
    <3>. QED BY <1>3, <1>4, <1>6, <2>2, <3>1
  <2>5. Len(u) = Len(v)
    BY <1>3, <1>4, <1>6
  <2>6. Digit(u[i]) < Digit(v[i])
    BY <2>2, <2>3
  <2>. QED BY <1>1, <1>2, <2>1, <2>3, <2>4, <2>5, <2>6 DEF Before
<1>7. CASE m = n /\ Digit(a) < Digit(b)
  <2>1. PICK k \in Nat : k = Len(m)
    BY <1>3
  <2>2. /\ Len(u) = k + 1 /\ Len(v) = k + 1 /\ u[k + 1] = a /\ v[k + 1] = b
        /\ k + 1 \in DOMAIN u
    BY <1>3, <1>4, <1>7, <2>1
  <2>3. \A j \in 1 .. (k + 1) - 1 : u[j] = v[j]
    BY <1>3, <1>4, <1>7, <2>1
  <2>4. Len(u) = Len(v)
    BY <2>2
  <2>5. Digit(u[k + 1]) < Digit(v[k + 1])
    BY <1>7, <2>2
  <2>. QED BY <1>1, <1>2, <2>2, <2>3, <2>4, <2>5 DEF Before
<1>8. Before(m, n) => Len(m) < Len(n) \/ Len(m) = Len(n)
  BY DEF Before
<1>. QED BY <1>5, <1>6, <1>7, <1>8

\* The numeral of a smaller number comes before that of a larger one.
LEMMA DecimalOrder ==
  \A n, m \in Nat : n < m => Before(Decimal[n], Decimal[m])
<1>. DEFINE S == { n \in Nat : \E m \in Nat : n < m /\ ~ Before(Decimal[n], Decimal[m]) }
<1>1. SUFFICES ASSUME S # {}
               PROVE  FALSE
  OBVIOUS
<1>2. PICK n \in S : \A j \in 0 .. n - 1 : j \notin S
  <2>1. S \subseteq Nat
    OBVIOUS
  <2>. HIDE DEF S
  <2>. QED BY <1>1, <2>1, Least
<1>3. PICK m \in Nat : n \in Nat /\ n < m /\ ~ Before(Decimal[n], Decimal[m])
  BY <1>2
<1>4. CASE m < 10
  <2>1. n \in 0 .. 9 /\ m \in 0 .. 9 /\ n < 10
    BY <1>3, <1>4
  <2>2. Digit(Chars[n + 1]) = n /\ Digit(Chars[m + 1]) = m
    BY <2>1, DigitIs
  <2>3. PICK a \in Ciphers : a = Chars[n + 1]
    BY <2>1 DEF Ciphers
  <2>4. PICK b \in Ciphers : b = Chars[m + 1]
    BY <2>1 DEF Ciphers
  <2>5. Decimal[n] = << a >> /\ Decimal[m] = << b >>
    BY <1>3, <1>4, <2>1, <2>3, <2>4, DecimalStep
  <2>6. Digit(a) < Digit(b)
    BY <1>3, <2>2, <2>3, <2>4
  <2>7. Before(<< a >>, << b >>)
    <3>1. PICK u \in Seq(Ciphers) : u = << a >>
      <4>1. << a >> \in Seq(Ciphers)
        OBVIOUS
      <4>. QED BY <4>1, Zenon
    <3>2. PICK v \in Seq(Ciphers) : v = << b >>
      <4>1. << b >> \in Seq(Ciphers)
        OBVIOUS
      <4>. QED BY <4>1, Zenon
    <3>3. Len(u) = Len(v) /\ 1 \in DOMAIN u /\ u[1] = a /\ v[1] = b
      BY <3>1, <3>2
    <3>4. \A j \in 1 .. 1 - 1 : u[j] = v[j]
      OBVIOUS
    <3>5. Digit(u[1]) < Digit(v[1])
      BY <2>6, <3>3
    <3>6. Before(u, v)
      BY <3>3, <3>4, <3>5 DEF Before
    <3>. QED BY <3>1, <3>2, <3>6
  <2>. QED BY <1>3, <2>5, <2>7
<1>5. CASE n < 10 /\ ~ (m < 10)
  <2>1. Len(Decimal[n]) = 1 /\ Len(Decimal[m]) > 1
    BY <1>3, <1>5, DecimalShape
  <2>2. Len(Decimal[n]) < Len(Decimal[m])
    BY <2>1
  <2>. QED BY <1>3, <2>2 DEF Before
<1>6. CASE ~ (n < 10) /\ ~ (m < 10)
  <2>1. PICK x \in Nat : x = n \div 10 /\ x \in 0 .. n - 1
    BY <1>3, <1>6, Tenth
  <2>2. PICK y \in Nat : y = m \div 10
    BY <1>3, <1>6, Tenth
  <2>3. PICK d \in 0 .. 9 : d = n % 10 /\ n = 10 * x + d
    BY <1>3, <1>6, <2>1, Tenth
  <2>4. PICK e \in 0 .. 9 : e = m % 10 /\ m = 10 * y + e
    BY <1>3, <1>6, <2>2, Tenth
  <2>5. PICK a \in Ciphers : a = Chars[d + 1]
    BY DEF Ciphers
  <2>6. PICK b \in Ciphers : b = Chars[e + 1]
    BY DEF Ciphers
  <2>7. Digit(a) = d /\ Digit(b) = e
    BY <2>5, <2>6, DigitIs
  <2>8. PICK s \in Seq(Ciphers) : s = Decimal[x]
    <3>1. Decimal[x] \in Seq(Ciphers)
      BY DecimalShape
    <3>. QED BY <3>1, Zenon
  <2>9. PICK t \in Seq(Ciphers) : t = Decimal[y]
    <3>1. Decimal[y] \in Seq(Ciphers)
      BY DecimalShape
    <3>. QED BY <3>1, Zenon
  <2>10. Decimal[n] = Append(s, a) /\ Decimal[m] = Append(t, b)
    BY <1>3, <1>6, <2>1, <2>2, <2>3, <2>4, <2>5, <2>6, <2>8, <2>9, DecimalStep
  <2>11. x < y \/ (x = y /\ d < e)
    BY <1>3, <2>3, <2>4
  <2>12. x < y => Before(s, t)
    <3>1. x \notin S
      BY <1>2, <2>1
    <3>. QED BY <2>8, <2>9, <3>1
  <2>13. Before(s, t) \/ (s = t /\ Digit(a) < Digit(b))
    BY <2>7, <2>8, <2>9, <2>11, <2>12
  <2>14. Before(Append(s, a), Append(t, b))
    BY <2>13, BeforeAppend
  <2>. QED BY <1>3, <2>10, <2>14
<1>. QED BY <1>3, <1>4, <1>5, <1>6

\* The numeral of a number without zeros before it: of zero, nothing.
Shown(n) == IF n = 0 THEN << >> ELSE Decimal[n]

\* Numerals without zeros before them are ordered, and told apart, as their
\* numbers are.
LEMMA ShownOrder ==
  ASSUME NEW n \in Nat, NEW m \in Nat
  PROVE  /\ Shown(n) \in Seq(Ciphers)
         /\ Before(Shown(n), Shown(m)) <=> n < m
         /\ Shown(n) = Shown(m) <=> n = m
<1>1. \A x \in Nat : Shown(x) \in Seq(Ciphers)
  <2>1. << >> \in Seq(Ciphers)
    OBVIOUS
  <2>2. \A x \in Nat : Decimal[x] \in Seq(Ciphers)
    BY DecimalShape
  <2>. QED BY <2>1, <2>2, Zenon DEF Shown
<1>2. \A x, y \in Nat : x < y => Before(Shown(x), Shown(y))
  <2>1. SUFFICES ASSUME NEW x \in Nat, NEW y \in Nat, x < y
                 PROVE  Before(Shown(x), Shown(y))
    OBVIOUS
  <2>2. Shown(y) = Decimal[y]
    BY <2>1 DEF Shown
  <2>3. CASE x = 0
    <3>1. Shown(x) = << >> /\ Len(<< >>) = 0
      BY <2>3 DEF Shown
    <3>2. PICK k : k = Len(Shown(x))
      OBVIOUS
    <3>3. k = 0
      BY <3>1, <3>2
    <3>4. Len(Decimal[y]) >= 1
      BY DecimalShape
    <3>5. Len(Shown(x)) < Len(Shown(y))
      BY <2>2, <3>2, <3>3, <3>4
    <3>. QED BY <3>5 DEF Before
  <2>4. CASE x # 0
    BY <2>1, <2>2, <2>4, DecimalOrder DEF Shown
  <2>. QED BY <2>3, <2>4
<1>3. \A x, y \in Nat : Before(Shown(x), Shown(y)) => ~ Before(Shown(y), Shown(x))
  BY <1>1, BeforeAsymmetric
<1>4. n < m \/ n = m \/ m < n
  OBVIOUS
<1>5. Before(Shown(n), Shown(m)) => n < m
  <2>1. CASE n = m
    BY <1>3, <2>1
  <2>2. CASE m < n
    BY <1>2, <1>3, <2>2
  <2>. QED BY <1>4, <2>1, <2>2
<1>6. Shown(n) = Shown(m) => n = m
  <2>1. SUFFICES ASSUME Shown(n) = Shown(m), n # m
                 PROVE  FALSE
    OBVIOUS
  <2>2. ~ Before(Shown(n), Shown(n))
    BY <1>3
  <2>3. ~ (n < m) /\ ~ (m < n)
    BY <1>2, <2>1, <2>2
  <2>. QED BY <1>4, <2>1, <2>3
<1>. QED BY <1>1, <1>2, <1>5, <1>6

\* A number's numeral without the zeros before it: nothing, for zero.
LEMMA StrippedDecimal ==
  ASSUME NEW n \in Nat
  PROVE  Stripped(Decimal[n]) = Shown(n)
<1>1. PICK s \in Seq(Ciphers) : s = Decimal[n]
  <2>1. Decimal[n] \in Seq(Ciphers)
    BY DecimalShape
  <2>. QED BY <2>1, Zenon
<1>2. Len(s) >= 1 /\ Len(s) \in Nat
  BY <1>1, DecimalShape, LenNat
<1>3. CASE n = 0
  <2>1. s = << Chars[0 + 1] >>
    BY <1>1, <1>3, DecimalStep
  <2>2. Chars[0 + 1] = "0"
    BY DEF Chars
  <2>3. s = << "0" >>
    BY <2>1, <2>2
  <2>4. \A i \in 1 .. Len(s) : s[i] = "0"
    BY <2>3
  <2>. QED BY <1>1, <1>3, <2>4, StrippedZeros DEF Shown
<1>4. CASE n # 0
  <2>1. s[1] # "0" /\ 1 \in 1 .. Len(s)
    BY <1>1, <1>2, <1>4, DecimalShape
  <2>2. \A i \in 1 .. 1 - 1 : s[i] = "0"
    OBVIOUS
  <2>3. Stripped(s) = SubSeq(s, 1, Len(s))
    BY <2>1, <2>2, StrippedAt
  <2>4. SubSeq(s, 1, Len(s)) = s
    OBVIOUS
  <2>. QED BY <1>1, <1>4, <2>3, <2>4 DEF Shown
<1>. QED BY <1>3, <1>4

\* Numerals that fit an int are numbers, ordered as the numerals are.
LEMMA FittingNumerals ==
  ASSUME NEW s \in Seq(Ciphers), NEW t \in Seq(Ciphers), FitsInt(s), FitsInt(t)
  PROVE  /\ Number(s) \in Nat
         /\ Smaller(s, t) <=> Number(s) < Number(t)
         /\ Stripped(s) = Stripped(t) <=> Number(s) = Number(t)
<1>1. PICK n \in Nat : HasValue(s, n)
  BY NumeralValue
<1>2. PICK m \in Nat : HasValue(t, m)
  BY NumeralValue
<1>3. Stripped(s) = Shown(n) /\ Stripped(t) = Shown(m)
  BY <1>1, <1>2 DEF HasValue, Shown
<1>4. IntMax \in Nat
  BY NumbersAssumption
<1>5. Stripped(Decimal[IntMax]) = Shown(IntMax)
  BY <1>4, StrippedDecimal
<1>6. \A x, y : Smaller(x, y) <=> Before(Stripped(x), Stripped(y))
  BY DEF Smaller, Before
<1>7. ~ Before(Shown(IntMax), Shown(n)) /\ ~ Before(Shown(IntMax), Shown(m))
  BY <1>3, <1>5, <1>6 DEF FitsInt
<1>8. n <= IntMax /\ m <= IntMax
  <2>1. ~ (IntMax < n) /\ ~ (IntMax < m)
    BY <1>4, <1>7, ShownOrder
  <2>. QED BY <1>4, <2>1
<1>9. Number(s) = n /\ Number(t) = m
  BY <1>1, <1>2, <1>8 DEF HasValue
<1>10. Smaller(s, t) <=> n < m
  BY <1>3, <1>6, ShownOrder
<1>11. Stripped(s) = Stripped(t) <=> n = m
  BY <1>3, ShownOrder
<1>. QED BY <1>9, <1>10, <1>11

\* A version's three numbers.
NumbersOf(v) == [ i \in 1 .. 3 |-> Number(PartOf(v, i)) ]

\* An ordinary version's parts are numerals that fit an int.
LEMMA OrdinaryParts ==
  ASSUME NEW v, IsVersion(v), Ordinary(v), NEW i
  PROVE  PartOf(v, i) \in Seq(Ciphers) /\ FitsInt(PartOf(v, i))
<1>1. CASE i \in DOMAIN v
  BY <1>1 DEF PartOf, IsVersion, Ordinary
<1>2. CASE i \notin DOMAIN v
  <2>1. PICK s \in Seq(Ciphers) : s = << >>
    <3>1. << >> \in Seq(Ciphers)
      OBVIOUS
    <3>. QED BY <3>1, Zenon
  <2>2. PartOf(v, i) = s
    BY <1>2, <2>1 DEF PartOf
  <2>3. Stripped(s) = Shown(0)
    <3>1. \A j \in 1 .. Len(s) : s[j] = "0"
      BY <2>1
    <3>. QED BY <3>1, StrippedZeros DEF Shown
  <2>4. FitsInt(s)
    <3>1. ~ Before(Shown(IntMax), Shown(0))
      <4>1. IntMax \in Nat /\ ~ (IntMax < 0)
        BY NumbersAssumption
      <4>. QED BY <4>1, ShownOrder
    <3>2. Stripped(Decimal[IntMax]) = Shown(IntMax)
      BY NumbersAssumption, StrippedDecimal
    <3>. QED BY <2>3, <3>1, <3>2 DEF FitsInt, Smaller, Before
  <2>. QED BY <2>2, <2>4
<1>. QED BY <1>1, <1>2

\* Less of the numbers is Older of the numerals.
LEMMA OrdinaryOrder ==
  ASSUME NEW v, NEW w, IsVersion(v), IsVersion(w), Ordinary(v), Ordinary(w)
  PROVE  /\ NumbersOf(v) \in [1 .. 3 -> Int]
         /\ Less(NumbersOf(v), NumbersOf(w)) <=> Older(v, w)
<1>1. ASSUME NEW i \in 1 .. 3
      PROVE  /\ NumbersOf(v)[i] \in Nat
             /\ Smaller(PartOf(v, i), PartOf(w, i)) <=> NumbersOf(v)[i] < NumbersOf(w)[i]
             /\ Stripped(PartOf(v, i)) = Stripped(PartOf(w, i))
                  <=> NumbersOf(v)[i] = NumbersOf(w)[i]
  <2>1. /\ PartOf(v, i) \in Seq(Ciphers) /\ FitsInt(PartOf(v, i))
        /\ PartOf(w, i) \in Seq(Ciphers) /\ FitsInt(PartOf(w, i))
    BY OrdinaryParts
  <2>2. NumbersOf(v)[i] = Number(PartOf(v, i)) /\ NumbersOf(w)[i] = Number(PartOf(w, i))
    BY DEF NumbersOf
  <2>. QED BY <2>1, <2>2, FittingNumerals
<1>2. NumbersOf(v) \in [1 .. 3 -> Int]
  BY <1>1 DEF NumbersOf
<1>3. \A i \in 1 .. 3 : 1 .. i - 1 \subseteq 1 .. 3
  OBVIOUS
<1>4. Less(NumbersOf(v), NumbersOf(w)) <=> Older(v, w)
  BY <1>1, <1>3 DEF Less, Older
<1>. QED BY <1>2, <1>4

-----------------------------------------------------------------------------
(* Reading versions *)

\* A part of a sequence, given by its elements.
LEMMA SliceIs ==
  ASSUME NEW C, NEW u \in Seq(C), NEW a \in Nat, NEW b \in Nat, NEW t \in Seq(C),
         1 <= a, b <= Len(u), Len(t) = b - a + 1,
         \A i \in 1 .. Len(t) : t[i] = u[i + a - 1]
  PROVE  SubSeq(u, a, b) = t
<1>0. Len(t) \in Nat /\ a <= b + 1
  <2>1. Len(t) \in Nat
    BY LenNat
  <2>. QED BY <2>1
<1>1. PICK x \in Seq(C) : x = SubSeq(u, a, b)
  <2>1. SubSeq(u, a, b) \in Seq(C)
    OBVIOUS
  <2>. QED BY <2>1, Zenon
<1>2. Len(x) = b - a + 1 /\ \A i \in 1 .. b - a + 1 : x[i] = u[i + a - 1]
  BY <1>0, <1>1
<1>3. Len(x) = Len(t) /\ \A i \in 1 .. Len(x) : x[i] = t[i]
  BY <1>2
<1>4. x = t
  BY <1>3, SameSeq
<1>. QED BY <1>1, <1>4

\* A sequence without one of its elements, e.
Lacks(s, e) == \A i \in 1 .. Len(s) : s[i] # e

\* A join of two sequences around an element.
LEMMA JoinAround ==
  ASSUME NEW C, NEW e \in C, NEW a \in Seq(C), NEW r \in Seq(C)
  PROVE  /\ a \o (<< e >> \o r) \in Seq(C)
         /\ Len(a \o (<< e >> \o r)) = Len(a) + 1 + Len(r)
         /\ \A i \in 1 .. Len(a) : (a \o (<< e >> \o r))[i] = a[i]
         /\ (a \o (<< e >> \o r))[Len(a) + 1] = e
         /\ \A i \in 1 .. Len(r) : r[i] = (a \o (<< e >> \o r))[i + Len(a) + 1]
<1>1. PICK x \in Seq(C) : x = << e >>
  <2>1. << e >> \in Seq(C)
    OBVIOUS
  <2>. QED BY <2>1, Zenon
<1>2. Len(x) = 1 /\ x[1] = e /\ 1 \in 1 .. Len(x)
  BY <1>1
<1>3. PICK y \in Seq(C) : y = x \o r
  <2>1. x \o r \in Seq(C)
    BY JoinShape
  <2>. QED BY <2>1, Zenon
<1>4. Len(y) = 1 + Len(r) /\ y[1] = e
  <2>1. Len(x \o r) = Len(x) + Len(r) /\ \A i \in 1 .. Len(x) : (x \o r)[i] = x[i]
    BY JoinShape
  <2>. QED BY <1>2, <1>3, <2>1
<1>5. PICK u \in Seq(C) : u = a \o y
  <2>1. a \o y \in Seq(C)
    BY JoinShape
  <2>. QED BY <2>1, Zenon
<1>6. Len(a) \in Nat /\ Len(r) \in Nat
  BY LenNat
<1>7. Len(u) = Len(a) + 1 + Len(r) /\ \A i \in 1 .. Len(a) : u[i] = a[i]
  <2>1. Len(a \o y) = Len(a) + Len(y) /\ \A i \in 1 .. Len(a) : (a \o y)[i] = a[i]
    BY JoinShape
  <2>. QED BY <1>4, <1>5, <1>6, <2>1
<1>8. u[Len(a) + 1] = e
  <2>1. 1 \in 1 .. Len(y)
    BY <1>4, <1>6
  <2>. QED BY <1>4, <1>5, <2>1, JoinSecond
<1>9. ASSUME NEW i \in 1 .. Len(r)
      PROVE  r[i] = u[i + Len(a) + 1]
  <2>1. y[Len(x) + i] = r[i]
    BY <1>3, JoinSecond
  <2>2. PICK j \in 1 .. Len(y) : j = 1 + i
    BY <1>4, <1>6
  <2>3. u[Len(a) + j] = y[j]
    BY <1>5, JoinSecond
  <2>4. Len(a) + j = i + Len(a) + 1 /\ Len(x) + i = j
    BY <1>2, <1>6, <2>2
  <2>. QED BY <2>1, <2>3, <2>4
<1>10. a \o (<< e >> \o r) = u
  BY <1>1, <1>3, <1>5, Zenon
<1>. QED BY <1>7, <1>8, <1>9, <1>10

\* u is a join of a and r around e.
Around(u, a, e, r, C) ==
  e \in C /\ a \in Seq(C) /\ r \in Seq(C) /\ u = a \o (<< e >> \o r)

\* The first place of e in u from the given one on.
Place(u, from, e) == First({ i \in from .. Len(u) : u[i] = e })

\* Where the first e is, and what stands before and after it.
LEMMA CutAround ==
  ASSUME NEW C, NEW e, NEW a, NEW r, NEW u, Around(u, a, e, r, C), Lacks(a, e)
  PROVE  /\ Place(u, 1, e) = Len(a) + 1
         /\ SubSeq(u, 1, Len(a)) = a
         /\ SubSeq(u, Len(a) + 2, Len(u)) = r
         /\ u \in Seq(C) /\ Len(u) = Len(a) + 1 + Len(r)
<1>. e \in C /\ a \in Seq(C) /\ r \in Seq(C) /\ u = a \o (<< e >> \o r)
  BY DEF Around
<1>0. Len(a) \in Nat /\ Len(r) \in Nat
  BY LenNat
<1>1. /\ u \in Seq(C) /\ Len(u) = Len(a) + 1 + Len(r)
      /\ \A i \in 1 .. Len(a) : u[i] = a[i]
      /\ u[Len(a) + 1] = e
      /\ \A i \in 1 .. Len(r) : r[i] = u[i + Len(a) + 1]
  BY JoinAround
<1>. DEFINE I == { i \in 1 .. Len(u) : u[i] = e }
<1>2. First(I) = Len(a) + 1
  <2>1. I \subseteq Nat /\ Len(a) + 1 \in I
    BY <1>0, <1>1
  <2>2. \A i \in I : Len(a) + 1 <= i
    <3>1. SUFFICES ASSUME NEW i \in I, ~ (Len(a) + 1 <= i)
                   PROVE  FALSE
      OBVIOUS
    <3>2. i \in 1 .. Len(a)
      BY <1>0, <3>1
    <3>3. a[i] = e
      BY <1>1, <3>2
    <3>. QED BY <3>2, <3>3 DEF Lacks
  <2>. HIDE DEF I
  <2>. QED BY <2>1, <2>2, FirstIs
<1>3. SubSeq(u, 1, Len(a)) = a
  <2>1. \A i \in 1 .. Len(a) : a[i] = u[i + 1 - 1]
    BY <1>1
  <2>2. 1 <= 1 /\ Len(a) <= Len(u) /\ Len(a) = Len(a) - 1 + 1
    BY <1>0, <1>1
  <2>. QED BY <1>0, <1>1, <2>1, <2>2, SliceIs
<1>4. SubSeq(u, Len(a) + 2, Len(u)) = r
  <2>1. \A i \in 1 .. Len(r) : r[i] = u[i + (Len(a) + 2) - 1]
    <3>1. \A i \in 1 .. Len(r) : i + (Len(a) + 2) - 1 = i + Len(a) + 1
      BY <1>0
    <3>. QED BY <1>1, <3>1
  <2>2. /\ Len(a) + 2 \in Nat /\ Len(u) \in Nat /\ 1 <= Len(a) + 2
        /\ Len(u) <= Len(u) /\ Len(r) = Len(u) - (Len(a) + 2) + 1
    BY <1>0, <1>1
  <2>. QED BY <1>1, <2>1, <2>2, SliceIs
<1>5. Place(u, 1, e) = Len(a) + 1
  BY <1>2 DEF Place
<1>. QED BY <1>1, <1>3, <1>4, <1>5

\* No place of an empty set is first.
LEMMA FirstNone ==
  ASSUME NEW I, I = {}
  PROVE  First(I) = 0
BY DEF First

\* After the first e, the next is found where it is in what follows.
LEMMA NextIs ==
  ASSUME NEW C, NEW e, NEW a, NEW r, NEW u, Around(u, a, e, r, C),
         NEW k \in 1 .. Len(r), Place(r, 1, e) = k
  PROVE  Place(u, Len(a) + 2, e) = Len(a) + 1 + k
<1>. e \in C /\ a \in Seq(C) /\ r \in Seq(C) /\ u = a \o (<< e >> \o r)
  BY DEF Around
<1>0. Len(a) \in Nat /\ Len(r) \in Nat
  BY LenNat
<1>1. /\ u \in Seq(C) /\ Len(u) = Len(a) + 1 + Len(r)
      /\ \A i \in 1 .. Len(r) : r[i] = u[i + Len(a) + 1]
  BY JoinAround
<1>. DEFINE R == { i \in 1 .. Len(r) : r[i] = e }
            I == { i \in Len(a) + 2 .. Len(u) : u[i] = e }
<1>2. k \in R /\ \A i \in R : k <= i
  <2>1. R \subseteq Nat
    BY <1>0
  <2>2. First(R) = k
    BY DEF Place
  <2>3. R # {}
    <3>1. k # 0
      OBVIOUS
    <3>. HIDE DEF R
    <3>. QED BY <2>2, <3>1, FirstNone
  <2>. HIDE DEF R
  <2>. QED BY <2>1, <2>2, <2>3, FirstPlace
<1>3. I \subseteq Nat
  BY <1>0
<1>4. Len(a) + 1 + k \in I
  <2>1. r[k] = u[k + Len(a) + 1] /\ k + Len(a) + 1 = Len(a) + 1 + k
    BY <1>0, <1>1
  <2>2. r[k] = e
    BY <1>2
  <2>3. Len(a) + 1 + k \in Len(a) + 2 .. Len(u)
    BY <1>0, <1>1
  <2>. QED BY <2>1, <2>2, <2>3
<1>5. \A i \in I : Len(a) + 1 + k <= i
  <2>1. SUFFICES ASSUME NEW i \in I
                 PROVE  Len(a) + 1 + k <= i
    OBVIOUS
  <2>2. i \in Len(a) + 2 .. Len(u) /\ u[i] = e
    OBVIOUS
  <2>3. PICK j \in 1 .. Len(r) : i = j + Len(a) + 1
    <3>1. i - Len(a) - 1 \in 1 .. Len(r) /\ i = (i - Len(a) - 1) + Len(a) + 1
      BY <1>0, <1>1, <2>2
    <3>. QED BY <3>1
  <2>4. r[j] = e
    BY <1>1, <2>2, <2>3
  <2>5. j \in R
    BY <2>4
  <2>6. k <= j
    BY <1>2, <2>5
  <2>. QED BY <1>0, <2>3, <2>6
<1>6. First(I) = Len(a) + 1 + k
  <2>. HIDE DEF I
  <2>. QED BY <1>3, <1>4, <1>5, FirstIs
<1>. QED BY <1>6 DEF Place

\* Nor is there a next one, if there is none there.
LEMMA NextNone ==
  ASSUME NEW C, NEW e, NEW a, NEW r, NEW u, Around(u, a, e, r, C), Lacks(r, e)
  PROVE  Place(u, Len(a) + 2, e) = 0
<1>. e \in C /\ a \in Seq(C) /\ r \in Seq(C) /\ u = a \o (<< e >> \o r)
  BY DEF Around
<1>0. Len(a) \in Nat /\ Len(r) \in Nat
  BY LenNat
<1>1. /\ u \in Seq(C) /\ Len(u) = Len(a) + 1 + Len(r)
      /\ \A i \in 1 .. Len(r) : r[i] = u[i + Len(a) + 1]
  BY JoinAround
<1>2. ASSUME NEW i \in Len(a) + 2 .. Len(u), u[i] = e
      PROVE  FALSE
  <2>1. PICK j \in 1 .. Len(r) : i = j + Len(a) + 1
    <3>1. i - Len(a) - 1 \in 1 .. Len(r) /\ i = (i - Len(a) - 1) + Len(a) + 1
      BY <1>0, <1>1, <1>2
    <3>. QED BY <3>1
  <2>2. r[j] = e
    BY <1>1, <1>2, <2>1
  <2>. QED BY <2>2 DEF Lacks
<1>3. { i \in Len(a) + 2 .. Len(u) : u[i] = e } = {}
  BY <1>2
<1>. QED BY <1>3, FirstNone DEF Place

\* The characters of versions.
Dots == Ciphers \cup {"."}

\* No digit is a sign.
LEMMA CiphersDiffer == Ciphers \cap {"-", "+", ".", " ", "v", ">", "<", "="} = {}
<1>. DEFINE Ten == {"0", "1", "2", "3", "4", "5", "6", "7", "8", "9"}
<1>1. \A d \in 0 .. 9 : Chars[d + 1] \in Ten
  BY DEF Chars
<1>2. \A ch \in Ten : ch \notin {"-", "+", ".", " "}
  BY Zenon
<1>3. \A ch \in Ten : ch \notin {"v", ">", "<", "="}
  BY Zenon
<1>. HIDE DEF Ten
<1>. QED BY <1>1, <1>2, <1>3 DEF Ciphers

\* A numeral is a text without dots.
LEMMA NumeralIsDotless ==
  ASSUME NEW s \in Seq(Ciphers)
  PROVE  s \in Seq(Dots) /\ Lacks(s, ".")
<1>1. s \in Seq(Dots)
  BY DEF Dots
<1>2. \A i \in 1 .. Len(s) : s[i] \in Ciphers
  OBVIOUS
<1>3. "." \notin Ciphers
  BY CiphersDiffer
<1>. QED BY <1>1, <1>2, <1>3 DEF Lacks

\* A text's first two places of e, a dot.
DotsAt(u, e, first, second) ==
  e = "." /\ Place(u, 1, e) = first /\ Place(u, first + 1, e) = second

\* The parts of a text, by the places of its first two dots.
LEMMA PartsAt ==
  ASSUME NEW u, NEW e, NEW first, NEW second, DotsAt(u, e, first, second)
  PROVE  /\ first = 0 => Parts(u) = << u >>
         /\ first # 0 /\ second = 0
              => Parts(u) = << SubSeq(u, 1, first - 1), SubSeq(u, first + 1, Len(u)) >>
         /\ first # 0 /\ second # 0
              => Parts(u) = << SubSeq(u, 1, first - 1),
                               SubSeq(u, first + 1, second - 1),
                               SubSeq(u, second + 1, Len(u)) >>
<1>1. SelectInSeq(u, LAMBDA ch : ch = ".") = first
  BY DEF SelectInSeq, First, Place, DotsAt
<1>2. SelectInSubSeq(u, first + 1, Len(u), LAMBDA ch : ch = ".") = second
  BY DEF SelectInSubSeq, First, Place, DotsAt
<1>. QED BY <1>1, <1>2 DEF Parts

\* A text without dots is one part.
LEMMA OnePart ==
  ASSUME NEW e, e = ".", NEW a, Lacks(a, e)
  PROVE  Parts(a) = << a >>
<1>1. { i \in 1 .. Len(a) : a[i] = e } = {}
  BY DEF Lacks
<1>2. Place(a, 1, e) = 0
  BY <1>1, FirstNone DEF Place
<1>3. PICK second : second = Place(a, 0 + 1, e)
  OBVIOUS
<1>4. DotsAt(a, e, 0, second)
  BY <1>2, <1>3 DEF DotsAt
<1>. QED BY <1>4, PartsAt

\* A text with one dot is cut there.
LEMMA TwoParts ==
  ASSUME NEW C, NEW e, e = ".", NEW a, NEW b, NEW u, Around(u, a, e, b, C),
         Lacks(a, e), Lacks(b, e)
  PROVE  Parts(u) = << a, b >>
<1>1. PICK k \in Nat : k = Len(a)
  BY LenNat DEF Around
<1>2. PICK first \in Nat : first = k + 1
  OBVIOUS
<1>3. /\ Place(u, 1, e) = first
      /\ SubSeq(u, 1, k) = a /\ SubSeq(u, k + 2, Len(u)) = b
  BY <1>1, <1>2, CutAround
<1>4. first + 1 = k + 2 /\ first - 1 = k /\ first # 0
  BY <1>2
<1>5. Place(u, first + 1, e) = 0
  BY <1>1, <1>4, NextNone
<1>6. Parts(u) = << SubSeq(u, 1, first - 1), SubSeq(u, first + 1, Len(u)) >>
  <2>1. DotsAt(u, e, first, 0)
    BY <1>3, <1>5, Zenon DEF DotsAt
  <2>. QED BY <1>4, <2>1, PartsAt
<1>. QED BY <1>3, <1>4, <1>6

\* A text with two dots before which there are none is cut at both.
LEMMA ThreeParts ==
  ASSUME NEW C, NEW e, e = ".", NEW a, NEW b, NEW c, NEW r, NEW u,
         Around(r, b, e, c, C), Around(u, a, e, r, C), Lacks(a, e), Lacks(b, e)
  PROVE  Parts(u) = << a, b, c >>
<1>. /\ e \in C /\ a \in Seq(C) /\ b \in Seq(C) /\ c \in Seq(C) /\ r \in Seq(C)
     /\ r = b \o (<< e >> \o c) /\ u = a \o (<< e >> \o r)
  BY DEF Around
<1>3. PICK k \in Nat : k = Len(a)
  BY LenNat
<1>4. PICK l \in Nat : l = Len(b)
  BY LenNat
<1>5. Place(r, 1, e) = l + 1 /\ Len(r) = l + 1 + Len(c)
  BY <1>4, CutAround
<1>6. Len(c) \in Nat /\ Len(r) \in Nat
  BY LenNat
<1>7. PICK first \in Nat : first = k + 1
  OBVIOUS
<1>8. /\ Place(u, 1, e) = first /\ SubSeq(u, 1, k) = a
      /\ u \in Seq(C) /\ Len(u) = k + 1 + Len(r)
  BY <1>3, <1>7, CutAround
<1>9. PICK second \in Nat : second = k + 1 + (l + 1)
  OBVIOUS
<1>11. first # 0 /\ second # 0 /\ first - 1 = k /\ first + 1 = k + 2
  BY <1>7, <1>9
<1>10. Place(u, first + 1, e) = second
  <2>1. l + 1 \in 1 .. Len(r)
    BY <1>5, <1>6
  <2>2. PICK p \in 1 .. Len(r) : p = l + 1
    BY <2>1
  <2>3. Place(u, Len(a) + 2, e) = Len(a) + 1 + p
    <3>1. Place(r, 1, e) = p
      BY <1>5, <2>2
    <3>2. Around(u, a, e, r, C)
      OBVIOUS
    <3>. QED BY ONLY <3>1, <3>2, NextIs, p \in 1 .. Len(r)
  <2>4. first + 1 = k + 2 /\ second = k + 1 + p
    BY ONLY <1>9, <1>11, <2>2
  <2>. QED BY <1>3, <2>3, <2>4, Zenon
<1>12. \A i \in 1 .. Len(r) : r[i] = u[i + k + 1]
  <2>1. \A i \in 1 .. Len(r) : r[i] = (a \o (<< e >> \o r))[i + Len(a) + 1]
    BY ONLY e \in C, a \in Seq(C), r \in Seq(C), JoinAround
  <2>. QED BY <1>3, <2>1, Zenon
<1>13. SubSeq(u, first + 1, second - 1) = b
  <2>1. \A i \in 1 .. Len(b) : b[i] = r[i]
    BY JoinAround
  <2>2. ASSUME NEW i \in 1 .. l
        PROVE  b[i] = u[i + k + 1]
    <3>1. i \in 1 .. Len(b) /\ i \in 1 .. Len(r)
      BY <1>4, <1>5, <1>6
    <3>. QED BY <1>12, <2>1, <3>1
  <2>3. \A i \in 1 .. Len(b) : b[i] = u[i + (first + 1) - 1]
    <3>1. \A i \in 1 .. l : i + k + 1 = i + (first + 1) - 1
      BY <1>7
    <3>2. Len(b) = l
      BY <1>4
    <3>. QED BY <2>2, <3>1, <3>2
  <2>4. /\ first + 1 \in Nat /\ second - 1 \in Nat /\ 1 <= first + 1
        /\ second - 1 <= Len(u) /\ Len(b) = (second - 1) - (first + 1) + 1
    BY <1>4, <1>5, <1>6, <1>7, <1>8, <1>9
  <2>. QED BY <1>8, <2>3, <2>4, SliceIs
<1>14. SubSeq(u, second + 1, Len(u)) = c
  <2>1. \A i \in 1 .. Len(c) : c[i] = r[i + l + 1]
    BY <1>4, JoinAround
  <2>2. ASSUME NEW i \in 1 .. Len(c)
        PROVE  c[i] = u[i + (second + 1) - 1]
    <3>1. PICK j \in 1 .. Len(r) : j = i + l + 1
      BY <1>5, <1>6
    <3>2. r[j] = u[j + k + 1]
      BY <1>12
    <3>3. j + k + 1 = i + (second + 1) - 1
      BY <1>9, <3>1
    <3>. QED BY <2>1, <3>1, <3>2, <3>3
  <2>3. /\ second + 1 \in Nat /\ Len(u) \in Nat /\ 1 <= second + 1
        /\ Len(u) <= Len(u) /\ Len(c) = Len(u) - (second + 1) + 1
    <3>1. PICK m \in Nat : m = Len(c)
      BY <1>6
    <3>2. Len(u) = k + 1 + (l + 1 + m)
      BY <1>5, <1>8, <3>1
    <3>. QED BY <1>9, <3>1, <3>2
  <2>. QED BY <1>8, <2>2, <2>3, SliceIs
<1>15. Parts(u) = << SubSeq(u, 1, first - 1), SubSeq(u, first + 1, second - 1),
                     SubSeq(u, second + 1, Len(u)) >>
  <2>1. DotsAt(u, e, first, second)
    BY <1>8, <1>10, Zenon DEF DotsAt
  <2>. QED BY ONLY <1>11, <2>1, PartsAt
<1>16. SubSeq(u, 1, first - 1) = a
  BY <1>8, <1>11, Zenon
<1>. QED BY ONLY <1>13, <1>14, <1>15, <1>16

\* What is written with dots is read as the parts it was made of.
LEMMA DottedParts ==
  ASSUME NEW v, IsVersion(v)
  PROVE  /\ Dotted(v) \in Seq(Dots) /\ Len(Dotted(v)) >= 1 /\ Dotted(v)[1] \in Ciphers
         /\ DOMAIN Parts(Dotted(v)) = DOMAIN v
         /\ \A i \in DOMAIN v : Parts(Dotted(v))[i] = v[i]
<1>1. PICK e \in Dots : e = "."
  BY DEF Dots
<1>2. Len(v) \in 1 .. 3 /\ DOMAIN v = 1 .. Len(v)
  BY DEF IsVersion
<1>3. ASSUME NEW i \in DOMAIN v
      PROVE  /\ v[i] \in Seq(Ciphers) /\ v[i] \in Seq(Dots) /\ Lacks(v[i], e)
             /\ Len(v[i]) \in Nat /\ Len(v[i]) >= 1 /\ v[i][1] \in Ciphers
  <2>1. v[i] \in Seq(Ciphers) /\ v[i] # << >>
    BY DEF IsVersion
  <2>2. PICK s \in Seq(Ciphers) : s = v[i]
    BY <2>1
  <2>3. s # << >>
    BY <2>1, <2>2
  <2>4. Len(s) \in Nat /\ Len(s) >= 1 /\ s[1] \in Ciphers
    BY <2>3
  <2>5. s \in Seq(Dots) /\ Lacks(s, e)
    BY <1>1, NumeralIsDotless
  <2>. QED BY <2>2, <2>4, <2>5
<1>4. PICK a \in Seq(Dots) : a = v[1]
  BY <1>2, <1>3
<1>5. Lacks(a, e) /\ Len(a) \in Nat /\ Len(a) >= 1 /\ a[1] \in Ciphers
  BY <1>2, <1>3, <1>4
<1>6. CASE Len(v) = 1
  <2>1. Dotted(v) = a
    BY <1>4, <1>6 DEF Dotted
  <2>2. Parts(a) = << a >>
    BY <1>1, <1>5, OnePart
  <2>3. DOMAIN << a >> = 1 .. 1 /\ << a >>[1] = a
    OBVIOUS
  <2>4. DOMAIN v = 1 .. 1
    BY <1>2, <1>6
  <2>. QED BY <1>4, <1>5, <2>1, <2>2, <2>3, <2>4
<1>7. CASE Len(v) = 2
  <2>1. PICK b \in Seq(Dots) : b = v[2]
    BY <1>2, <1>3, <1>7
  <2>2. Lacks(b, e)
    BY <1>2, <1>3, <1>7, <2>1
  <2>3. PICK u : u = a \o (<< e >> \o b)
    OBVIOUS
  <2>4. Dotted(v) = u
    <3>1. Dotted(v) = v[1] \o (<< "." >> \o v[2])
      <4>1. Len(v) # 1 /\ Len(v) # 3
        BY <1>7
      <4>. QED BY <1>7, <4>1, Zenon DEF Dotted
    <3>. QED BY <1>1, <1>4, <2>1, <2>3, <3>1, Zenon
  <2>5. Around(u, a, e, b, Dots)
    BY <2>3 DEF Around
  <2>6. Parts(u) = << a, b >>
    BY <1>1, <1>5, <2>2, <2>5, TwoParts
  <2>7. /\ u \in Seq(Dots) /\ Len(u) = Len(a) + 1 + Len(b)
        /\ \A i \in 1 .. Len(a) : u[i] = a[i]
    BY <2>3, JoinAround
  <2>8. Len(u) >= 1 /\ u[1] \in Ciphers
    <3>1. Len(b) \in Nat /\ 1 \in 1 .. Len(a)
      BY <1>5, LenNat
    <3>. QED BY <1>5, <2>7, <3>1
  <2>9. DOMAIN v = 1 .. 2
    BY <1>2, <1>7
  <2>10. /\ DOMAIN << a, b >> = 1 .. 2
         /\ \A i \in 1 .. 2 : << a, b >>[i] = v[i]
    BY <1>4, <2>1
  <2>. QED BY <2>4, <2>6, <2>7, <2>8, <2>9, <2>10
<1>8. CASE Len(v) = 3
  <2>1. PICK b \in Seq(Dots) : b = v[2]
    BY <1>2, <1>3, <1>8
  <2>2. PICK c \in Seq(Dots) : c = v[3]
    BY <1>2, <1>3, <1>8
  <2>3. Lacks(b, e)
    BY <1>2, <1>3, <1>8, <2>1
  <2>4. PICK r : r = b \o (<< e >> \o c)
    OBVIOUS
  <2>5. r \in Seq(Dots)
    BY <2>4, JoinAround
  <2>6. PICK u : u = a \o (<< e >> \o r)
    OBVIOUS
  <2>7. Dotted(v) = u
    <3>1. Dotted(v) = v[1] \o (<< "." >> \o (v[2] \o (<< "." >> \o v[3])))
      <4>1. Len(v) # 1 /\ Len(v) # 2
        BY <1>8
      <4>. QED BY <1>8, <4>1, Zenon DEF Dotted
    <3>. QED BY <1>1, <1>4, <2>1, <2>2, <2>4, <2>6, <3>1, Zenon
  <2>8. Around(r, b, e, c, Dots) /\ Around(u, a, e, r, Dots)
    BY <2>4, <2>5, <2>6 DEF Around
  <2>9. Parts(u) = << a, b, c >>
    BY <1>1, <1>5, <2>3, <2>8, ThreeParts
  <2>10. /\ u \in Seq(Dots) /\ Len(u) = Len(a) + 1 + Len(r)
         /\ \A i \in 1 .. Len(a) : u[i] = a[i]
    BY <2>5, <2>6, JoinAround
  <2>11. Len(u) >= 1 /\ u[1] \in Ciphers
    <3>1. Len(r) \in Nat /\ 1 \in 1 .. Len(a)
      BY <1>5, <2>5, LenNat
    <3>. QED BY <1>5, <2>10, <3>1
  <2>12. DOMAIN v = 1 .. 3
    BY <1>2, <1>8
  <2>13. /\ DOMAIN << a, b, c >> = 1 .. 3
         /\ \A i \in 1 .. 3 : << a, b, c >>[i] = v[i]
    BY <1>4, <2>1, <2>2
  <2>. QED BY <2>7, <2>9, <2>10, <2>11, <2>12, <2>13
<1>. QED BY <1>2, <1>6, <1>7, <1>8

\* A prefix is no longer than the text, and its characters are the text's.
LEMMA PrefixIs ==
  ASSUME NEW C, NEW s \in Seq(C), NEW t \in Seq(C)
  PROVE  IsPrefix(s, t) <=> Len(s) <= Len(t) /\ \A i \in 1 .. Len(s) : s[i] = t[i]
<1>1. Len(s) \in Nat /\ Len(t) \in Nat
  BY LenNat
<1>2. ASSUME Len(s) <= Len(t)
      PROVE  SubSeq(t, 1, Len(s)) = s <=> \A i \in 1 .. Len(s) : s[i] = t[i]
  <2>1. PICK x \in Seq(C) : x = SubSeq(t, 1, Len(s))
    <3>1. SubSeq(t, 1, Len(s)) \in Seq(C)
      BY <1>1, <1>2
    <3>. QED BY <3>1, Zenon
  <2>2. Len(x) = Len(s) /\ \A i \in 1 .. Len(s) : x[i] = t[i]
    BY <1>1, <1>2, <2>1
  <2>3. x = s => \A i \in 1 .. Len(s) : s[i] = t[i]
    BY <2>2
  <2>4. (\A i \in 1 .. Len(s) : s[i] = t[i]) => x = s
    <3>1. SUFFICES ASSUME \A i \in 1 .. Len(s) : s[i] = t[i]
                   PROVE  x = s
      OBVIOUS
    <3>2. \A i \in 1 .. Len(x) : x[i] = s[i]
      BY <2>2, <3>1
    <3>. QED BY <2>2, <3>2, SameSeq
  <2>. QED BY <2>1, <2>3, <2>4
<1>3. SubSeq(s, 1, Len(s)) = s
  OBVIOUS
<1>. QED BY <1>2, <1>3 DEF IsPrefix

\* A text that begins with body, and goes on with a pre-release or a build.
Extends(text, body, C) ==
  /\ text \in Seq(C) /\ body \in Seq(C) /\ Len(body) <= Len(text)
  /\ \A i \in 1 .. Len(body) : body[i] = text[i]
  /\ Len(body) < Len(text) => text[Len(body) + 1] \in {"-", "+"}

\* A pre-release or a build is left out.
LEMMA CoreIs ==
  ASSUME NEW C, NEW text, NEW body, Extends(text, body, C),
         \A i \in 1 .. Len(body) : body[i] \notin {"-", "+"}
  PROVE  Core(text) = body
<1>1. /\ text \in Seq(C) /\ body \in Seq(C) /\ Len(body) <= Len(text)
      /\ \A i \in 1 .. Len(body) : body[i] = text[i]
      /\ Len(body) < Len(text) => text[Len(body) + 1] \in {"-", "+"}
  BY DEF Extends
<1>2. PICK k \in Nat : k = Len(body)
  BY <1>1, LenNat
<1>3. PICK n \in Nat : n = Len(text)
  BY <1>1, LenNat
<1>. DEFINE I == { i \in 1 .. Len(text) : text[i] \in {"-", "+"} }
<1>4. SelectInSeq(text, LAMBDA ch : ch \in {"-", "+"}) = First(I)
  BY DEF SelectInSeq, First
<1>5. \A i \in 1 .. k : i \notin I
  BY <1>1, <1>2
<1>6. CASE k = n
  <2>1. I = {}
    BY <1>3, <1>5, <1>6
  <2>2. First(I) = 0
    <3>. HIDE DEF I
    <3>. QED BY <2>1, FirstNone
  <2>3. Core(text) = text
    <3>. HIDE DEF I
    <3>. QED BY <1>4, <2>2 DEF Core
  <2>4. body = text
    <3>1. Len(body) = Len(text)
      BY <1>2, <1>3, <1>6
    <3>. QED BY <1>1, <3>1, SameSeq
  <2>. QED BY <2>3, <2>4
<1>7. CASE k < n
  <2>1. PICK m \in Nat : m = k + 1
    OBVIOUS
  <2>2. m \in I /\ I \subseteq Nat
    BY <1>1, <1>2, <1>3, <1>7, <2>1
  <2>3. \A i \in I : m <= i
    <3>1. SUFFICES ASSUME NEW i \in I, ~ (m <= i)
                   PROVE  FALSE
      OBVIOUS
    <3>2. i \in 1 .. k
      BY <2>1, <3>1
    <3>. HIDE DEF I
    <3>. QED BY <1>5, <3>1, <3>2
  <2>4. First(I) = m
    <3>. HIDE DEF I
    <3>. QED BY <2>2, <2>3, FirstIs
  <2>5. m # 0 /\ m - 1 = k
    BY <2>1
  <2>6. Core(text) = SubSeq(text, 1, k)
    <3>. HIDE DEF I
    <3>. QED BY <1>4, <2>4, <2>5 DEF Core
  <2>7. SubSeq(text, 1, k) = body
    <3>1. \A i \in 1 .. Len(body) : body[i] = text[i + 1 - 1]
      BY <1>1
    <3>2. 1 <= 1 /\ k <= Len(text) /\ Len(body) = k - 1 + 1
      BY <1>2, <1>3, <1>7
    <3>. QED BY <1>1, <3>1, <3>2, SliceIs
  <2>. QED BY <2>6, <2>7
<1>8. k = n \/ k < n
  BY <1>1, <1>2, <1>3
<1>. QED BY <1>6, <1>7, <1>8

\* What follows the first element of a sequence.
LEMMA AfterFirst ==
  ASSUME NEW C, NEW u \in Seq(C), Len(u) >= 1
  PROVE  /\ SubSeq(u, 2, Len(u)) \in Seq(C)
         /\ Len(SubSeq(u, 2, Len(u))) = Len(u) - 1
         /\ \A i \in 1 .. Len(u) - 1 : SubSeq(u, 2, Len(u))[i] = u[i + 1]
OBVIOUS

\* A v before a version is left out.
LEMMA Trimmed ==
  ASSUME NEW C, Dots \cup {"v"} \subseteq C, NEW text \in Seq(C),
         NEW v, IsVersion(v), Spells(text, v)
  PROVE  Extends(TrimPrefix(text, << "v" >>), Dotted(v), C)
<1>1. PICK e \in C : e = "v"
  OBVIOUS
<1>2. PICK x \in Seq(C) : x = << e >>
  <2>1. << e >> \in Seq(C)
    OBVIOUS
  <2>. QED BY <2>1, Zenon
<1>3. Len(x) = 1 /\ x[1] = e
  BY <1>2
<1>4. PICK d \in Seq(C) : d = Dotted(v)
  <2>1. Dotted(v) \in Seq(Dots)
    BY DottedParts
  <2>2. Seq(Dots) \subseteq Seq(C)
    OBVIOUS
  <2>. QED BY <2>1, <2>2
<1>5. Len(d) \in Nat /\ Len(d) >= 1 /\ d[1] # e
  <2>1. Len(d) >= 1 /\ d[1] \in Ciphers
    BY <1>4, DottedParts
  <2>2. e \notin Ciphers
    BY <1>1, CiphersDiffer
  <2>. QED BY <2>1, <2>2, LenNat
<1>6. PICK n \in Nat : n = Len(text)
  BY LenNat
<1>7. PICK lead \in { << >>, << "v" >> } :
        /\ IsPrefix(lead \o d, text)
        /\ Len(lead \o d) < Len(text) => text[Len(lead \o d) + 1] \in {"-", "+"}
  BY <1>4 DEF Spells
<1>8. TrimPrefix(text, x)
        = IF IsPrefix(x, text) THEN SubSeq(text, Len(x) + 1, Len(text)) ELSE text
  BY DEF TrimPrefix
<1>9. IsPrefix(x, text) <=> n >= 1 /\ text[1] = e
  <2>1. IsPrefix(x, text) <=> Len(x) <= Len(text) /\ \A i \in 1 .. Len(x) : x[i] = text[i]
    BY PrefixIs
  <2>. QED BY <1>3, <1>6, <2>1
<1>10. CASE lead = << >>
  <2>1. lead \o d = d
    BY <1>10
  <2>2. IsPrefix(d, text) /\ (Len(d) < Len(text) => text[Len(d) + 1] \in {"-", "+"})
    BY <1>7, <2>1
  <2>3. Len(d) <= Len(text) /\ \A i \in 1 .. Len(d) : d[i] = text[i]
    BY <2>2, PrefixIs
  <2>4. text[1] # e
    <3>1. 1 \in 1 .. Len(d)
      BY <1>5
    <3>. QED BY <1>5, <2>3, <3>1
  <2>5. TrimPrefix(text, x) = text
    BY <1>8, <1>9, <2>4
  <2>6. Extends(text, d, C)
    BY <2>2, <2>3 DEF Extends
  <2>. QED BY <1>1, <1>2, <1>4, <2>5, <2>6
<1>11. CASE lead = << "v" >>
  <2>1. PICK b \in Seq(C) : b = x \o d
    <3>1. x \o d \in Seq(C)
      BY JoinShape
    <3>. QED BY <3>1, Zenon
  <2>2. lead \o d = b
    BY <1>1, <1>2, <1>11, <2>1
  <2>3. IsPrefix(b, text) /\ (Len(b) < Len(text) => text[Len(b) + 1] \in {"-", "+"})
    BY <1>7, <2>2
  <2>4. Len(b) <= Len(text) /\ \A i \in 1 .. Len(b) : b[i] = text[i]
    BY <2>3, PrefixIs
  <2>5. Len(b) = 1 + Len(d) /\ b[1] = e
    <3>1. Len(x \o d) = Len(x) + Len(d) /\ \A i \in 1 .. Len(x) : (x \o d)[i] = x[i]
      BY JoinShape
    <3>. QED BY <1>3, <2>1, <3>1
  <2>6. ASSUME NEW i \in 1 .. Len(d)
        PROVE  d[i] = b[i + 1]
    <3>1. b[Len(x) + i] = d[i]
      BY <2>1, JoinSecond
    <3>2. Len(x) + i = i + 1
      BY <1>3
    <3>. QED BY <3>1, <3>2
  <2>7. text[1] = e /\ n >= 1
    <3>1. 1 \in 1 .. Len(b) /\ Len(b) >= 1
      BY <1>5, <2>5
    <3>. QED BY <1>5, <1>6, <2>4, <2>5, <3>1
  <2>8. PICK t \in Seq(C) : t = SubSeq(text, 2, Len(text))
    <3>1. SubSeq(text, 2, Len(text)) \in Seq(C)
      BY <1>6, <2>7, AfterFirst
    <3>. QED BY <3>1, Zenon
  <2>9. Len(t) = n - 1 /\ \A i \in 1 .. n - 1 : t[i] = text[i + 1]
    BY <1>6, <2>7, <2>8, AfterFirst
  <2>10. TrimPrefix(text, x) = t
    <3>1. Len(x) + 1 = 2
      BY <1>3
    <3>. QED BY <1>8, <1>9, <2>7, <2>8, <3>1
  <2>11. PICK k \in Nat : k = Len(d)
    BY <1>5
  <2>12. k <= n - 1
    BY <1>6, <2>4, <2>5, <2>11
  <2>13. ASSUME NEW i \in 1 .. k
         PROVE  d[i] = t[i]
    <3>1. i + 1 \in 1 .. Len(b) /\ i \in 1 .. n - 1
      BY <2>5, <2>11, <2>12
    <3>2. b[i + 1] = text[i + 1]
      BY <2>4, <3>1
    <3>. QED BY <2>6, <2>9, <2>11, <3>1, <3>2
  <2>14. k < Len(t) => t[k + 1] \in {"-", "+"}
    <3>1. SUFFICES ASSUME k < Len(t)
                   PROVE  t[k + 1] \in {"-", "+"}
      OBVIOUS
    <3>2. k + 1 \in 1 .. n - 1
      BY <2>9, <3>1
    <3>3. t[k + 1] = text[k + 1 + 1]
      BY <2>9, <3>2
    <3>4. Len(b) < Len(text) /\ Len(b) + 1 = k + 1 + 1
      BY <1>6, <2>5, <2>9, <2>11, <3>1
    <3>. QED BY <2>3, <3>3, <3>4
  <2>15. Extends(t, d, C)
    BY <1>6, <2>9, <2>11, <2>12, <2>13, <2>14 DEF Extends
  <2>. QED BY <1>1, <1>2, <1>4, <2>10, <2>15
<1>. QED BY <1>7, <1>10, <1>11

\* A version is read as the three numbers it was written from.
LEMMA SpelledParts ==
  ASSUME NEW C, Dots \cup {"v"} \subseteq C, NEW text \in Seq(C),
         NEW v, IsVersion(v), Spells(text, v)
  PROVE  SemverParts(TrimPrefix(text, << "v" >>)) = NumbersOf(v)
<1>1. PICK t : t = TrimPrefix(text, << "v" >>)
  OBVIOUS
<1>2. PICK d : d = Dotted(v)
  OBVIOUS
<1>3. Extends(t, d, C)
  BY <1>1, <1>2, Trimmed
<1>4. \A i \in 1 .. Len(d) : d[i] \notin {"-", "+"}
  <2>1. d \in Seq(Dots)
    BY <1>2, DottedParts
  <2>2. \A ch \in Dots : ch \notin {"-", "+"}
    BY CiphersDiffer DEF Dots
  <2>3. \A i \in 1 .. Len(d) : d[i] \in Dots
    BY <2>1
  <2>. QED BY <2>2, <2>3
<1>5. Core(t) = d
  BY <1>3, <1>4, CoreIs
<1>6. PICK p : p = Parts(d)
  OBVIOUS
<1>7. DOMAIN p = DOMAIN v /\ \A i \in DOMAIN v : p[i] = v[i]
  BY <1>2, <1>6, DottedParts
<1>8. SemverParts(t) = [ i \in 1 .. 3 |-> IF i \in DOMAIN p THEN Number(p[i]) ELSE 0 ]
  BY <1>5, <1>6 DEF SemverParts
<1>9. ASSUME NEW i \in 1 .. 3
      PROVE  (IF i \in DOMAIN p THEN Number(p[i]) ELSE 0) = Number(PartOf(v, i))
  BY <1>7, NumberEmpty DEF PartOf
<1>. QED BY <1>1, <1>8, <1>9 DEF NumbersOf

-----------------------------------------------------------------------------
(* Constraints *)

\* The characters of constraints and versions, in an alphabet C.
Alphabet(C) == Dots \cup {"v", " ", ">", "<", "="} \subseteq C

\* A sign is a prefix of a text if the text begins with its characters.
LEMMA OneSign ==
  ASSUME NEW C, NEW e \in C, NEW text \in Seq(C)
  PROVE  IsPrefix(<< e >>, text) <=> Len(text) >= 1 /\ text[1] = e
<1>1. PICK x \in Seq(C) : x = << e >>
  <2>1. << e >> \in Seq(C)
    OBVIOUS
  <2>. QED BY <2>1, Zenon
<1>2. Len(x) = 1 /\ x[1] = e
  BY <1>1
<1>3. IsPrefix(x, text) <=> Len(x) <= Len(text) /\ \A i \in 1 .. Len(x) : x[i] = text[i]
  BY PrefixIs
<1>4. IsPrefix(x, text) <=> Len(text) >= 1 /\ text[1] = e
  BY <1>2, <1>3, LenNat
<1>. QED BY <1>1, <1>4

\* The same of a sign of two characters.
LEMMA TwoSigns ==
  ASSUME NEW C, NEW e \in C, NEW f \in C, NEW text \in Seq(C)
  PROVE  IsPrefix(<< e, f >>, text) <=> Len(text) >= 2 /\ text[1] = e /\ text[2] = f
<1>1. PICK x \in Seq(C) : x = << e, f >>
  <2>1. << e, f >> \in Seq(C)
    OBVIOUS
  <2>. QED BY <2>1, Zenon
<1>2. Len(x) = 2 /\ x[1] = e /\ x[2] = f
  BY <1>1
<1>3. IsPrefix(x, text) <=> Len(x) <= Len(text) /\ \A i \in 1 .. Len(x) : x[i] = text[i]
  BY PrefixIs
<1>4. \A i \in 1 .. 2 : i = 1 \/ i = 2
  OBVIOUS
<1>5. 1 \in 1 .. 2 /\ 2 \in 1 .. 2
  OBVIOUS
<1>6. IsPrefix(x, text) <=> Len(text) >= 2 /\ text[1] = e /\ text[2] = f
  BY <1>2, <1>3, <1>4, <1>5, LenNat
<1>. QED BY <1>1, <1>6

\* Which signs a text begins with.
SignsOf(text) == { i \in 1 .. 5 : IsPrefix(Prefixed[i], text) }

\* Which they are, by its first two characters.
LEMMA SignsAre ==
  ASSUME NEW C, Alphabet(C), NEW text \in Seq(C), Len(text) >= 1
  PROVE  /\ 1 \in SignsOf(text) <=> Len(text) >= 2 /\ text[1] = ">" /\ text[2] = "="
         /\ 2 \in SignsOf(text) <=> Len(text) >= 2 /\ text[1] = "<" /\ text[2] = "="
         /\ 3 \in SignsOf(text) <=> text[1] = ">"
         /\ 4 \in SignsOf(text) <=> text[1] = "<"
         /\ 5 \in SignsOf(text) <=> text[1] = "="
<1>1. PICK gt \in C : gt = ">"
  BY DEF Alphabet
<1>2. PICK lt \in C : lt = "<"
  BY DEF Alphabet
<1>3. PICK eq \in C : eq = "="
  BY DEF Alphabet
<1>4. /\ Prefixed[1] = << gt, eq >> /\ Prefixed[2] = << lt, eq >>
      /\ Prefixed[3] = << gt >> /\ Prefixed[4] = << lt >> /\ Prefixed[5] = << eq >>
  BY <1>1, <1>2, <1>3 DEF Prefixed
<1>5. \A i \in 1 .. 5 : i \in SignsOf(text) <=> IsPrefix(Prefixed[i], text)
  BY DEF SignsOf
<1>6. /\ 1 \in SignsOf(text) <=> IsPrefix(<< gt, eq >>, text)
      /\ 2 \in SignsOf(text) <=> IsPrefix(<< lt, eq >>, text)
      /\ 3 \in SignsOf(text) <=> IsPrefix(<< gt >>, text)
      /\ 4 \in SignsOf(text) <=> IsPrefix(<< lt >>, text)
      /\ 5 \in SignsOf(text) <=> IsPrefix(<< eq >>, text)
  <2>1. 1 \in 1 .. 5 /\ 2 \in 1 .. 5 /\ 3 \in 1 .. 5 /\ 4 \in 1 .. 5 /\ 5 \in 1 .. 5
    OBVIOUS
  <2>. QED BY <1>4, <1>5, <2>1, Zenon
<1>7. /\ IsPrefix(<< gt, eq >>, text) <=> Len(text) >= 2 /\ text[1] = gt /\ text[2] = eq
      /\ IsPrefix(<< lt, eq >>, text) <=> Len(text) >= 2 /\ text[1] = lt /\ text[2] = eq
  BY TwoSigns
<1>8. /\ IsPrefix(<< gt >>, text) <=> text[1] = gt
      /\ IsPrefix(<< lt >>, text) <=> text[1] = lt
      /\ IsPrefix(<< eq >>, text) <=> text[1] = eq
  BY OneSign
<1>. QED BY <1>1, <1>2, <1>3, <1>6, <1>7, <1>8, Zenon

\* The place of an operator's sign among those that semverMatch tries.
PlaceOf(op) ==
  CASE op = ">=" -> 1 [] op = "<=" -> 2 [] op = ">" -> 3 [] op = "<" -> 4 [] op = "=" -> 5

\* The operators of constraints.
SemverOps == {">=", "<=", ">", "<", "="}

\* The sign a constraint begins with is the first that fits, provided that no
\* = follows.
LEMMA SignIs ==
  ASSUME NEW C, Alphabet(C), NEW text \in Seq(C), NEW op \in SemverOps,
         IsPrefix(Sign(op), text),
         Len(text) > Len(Sign(op)), text[Len(Sign(op)) + 1] # "="
  PROVE  /\ First(SignsOf(text)) = PlaceOf(op)
         /\ PlaceOf(op) \in 1 .. 5 /\ Prefixed[PlaceOf(op)] = Sign(op)
         /\ Sign(op) \in Seq(C) /\ Len(Sign(op)) \in 1 .. 2
<1>1. PICK gt \in C : gt = ">"
  BY DEF Alphabet
<1>2. PICK lt \in C : lt = "<"
  BY DEF Alphabet
<1>3. PICK eq \in C : eq = "="
  BY DEF Alphabet
<1>4. gt # lt /\ gt # eq /\ lt # eq
  BY <1>1, <1>2, <1>3
<1>5. /\ Prefixed[1] = << gt, eq >> /\ Prefixed[2] = << lt, eq >>
      /\ Prefixed[3] = << gt >> /\ Prefixed[4] = << lt >> /\ Prefixed[5] = << eq >>
  BY <1>1, <1>2, <1>3 DEF Prefixed
<1>6. \A x \in C : << x >> \in Seq(C) /\ Len(<< x >>) = 1
  OBVIOUS
<1>7. \A x, y \in C : << x, y >> \in Seq(C) /\ Len(<< x, y >>) = 2
  OBVIOUS
<1>8. SignsOf(text) \subseteq 1 .. 5 /\ SignsOf(text) \subseteq Nat
  BY DEF SignsOf
<1>9. Len(text) \in Nat
  BY LenNat
<1>10. /\ 1 \in SignsOf(text) <=> Len(text) >= 2 /\ text[1] = gt /\ text[2] = eq
       /\ 2 \in SignsOf(text) <=> Len(text) >= 2 /\ text[1] = lt /\ text[2] = eq
       /\ 3 \in SignsOf(text) <=> text[1] = gt
       /\ 4 \in SignsOf(text) <=> text[1] = lt
       /\ 5 \in SignsOf(text) <=> text[1] = eq
  <2>1. Len(text) >= 1
    <3>1. Len(Sign(op)) \in Nat
      <4>1. CASE op = ">="
        BY <4>1 DEF Sign
      <4>2. CASE op = "<="
        BY <4>2 DEF Sign
      <4>3. CASE op = ">"
        BY <4>3 DEF Sign
      <4>4. CASE op = "<"
        BY <4>4 DEF Sign
      <4>5. CASE op = "="
        BY <4>5 DEF Sign
      <4>. QED BY <4>1, <4>2, <4>3, <4>4, <4>5 DEF SemverOps
    <3>. QED BY <1>9, <3>1
  <2>. QED BY <1>1, <1>2, <1>3, <2>1, SignsAre
<1>11. ASSUME NEW m \in SignsOf(text), \A i \in SignsOf(text) : m <= i
       PROVE  First(SignsOf(text)) = m
  BY <1>8, <1>11, FirstIs
<1>12. CASE op = ">="
  <2>1. Sign(op) = << gt, eq >> /\ PlaceOf(op) = 1
    BY <1>1, <1>3, <1>12 DEF Sign, PlaceOf
  <2>2. Len(Sign(op)) = 2 /\ Sign(op) \in Seq(C)
    BY <1>7, <2>1
  <2>3. 1 \in SignsOf(text)
    BY <1>5, <2>1 DEF SignsOf
  <2>4. \A i \in SignsOf(text) : 1 <= i
    BY <1>8
  <2>5. First(SignsOf(text)) = 1
    BY <1>11, <2>3, <2>4
  <2>. QED BY <1>5, <2>1, <2>2, <2>5
<1>13. CASE op = "<="
  <2>1. Sign(op) = << lt, eq >> /\ PlaceOf(op) = 2
    BY <1>2, <1>3, <1>13 DEF Sign, PlaceOf
  <2>2. Len(Sign(op)) = 2 /\ Sign(op) \in Seq(C)
    BY <1>7, <2>1
  <2>3. 2 \in SignsOf(text)
    BY <1>5, <2>1 DEF SignsOf
  <2>4. 1 \notin SignsOf(text)
    BY <1>4, <1>10, <2>3
  <2>5. \A i \in SignsOf(text) : 2 <= i
    BY <1>8, <2>4
  <2>6. First(SignsOf(text)) = 2
    BY <1>11, <2>3, <2>5
  <2>. QED BY <1>5, <2>1, <2>2, <2>6
<1>14. CASE op = ">"
  <2>1. Sign(op) = << gt >> /\ PlaceOf(op) = 3
    BY <1>1, <1>14 DEF Sign, PlaceOf
  <2>2. Len(Sign(op)) = 1 /\ Sign(op) \in Seq(C)
    BY <1>6, <2>1
  <2>3. 3 \in SignsOf(text)
    BY <1>5, <2>1 DEF SignsOf
  <2>4. text[2] # eq
    BY <1>3, <2>2
  <2>5. 1 \notin SignsOf(text) /\ 2 \notin SignsOf(text)
    BY <1>10, <2>4
  <2>6. \A i \in SignsOf(text) : 3 <= i
    BY <1>8, <2>5
  <2>7. First(SignsOf(text)) = 3
    BY <1>11, <2>3, <2>6
  <2>. QED BY <1>5, <2>1, <2>2, <2>7
<1>15. CASE op = "<"
  <2>1. Sign(op) = << lt >> /\ PlaceOf(op) = 4
    BY <1>2, <1>15 DEF Sign, PlaceOf
  <2>2. Len(Sign(op)) = 1 /\ Sign(op) \in Seq(C)
    BY <1>6, <2>1
  <2>3. 4 \in SignsOf(text)
    BY <1>5, <2>1 DEF SignsOf
  <2>4. text[2] # eq
    BY <1>3, <2>2
  <2>5. 1 \notin SignsOf(text) /\ 2 \notin SignsOf(text) /\ 3 \notin SignsOf(text)
    BY <1>4, <1>10, <2>3, <2>4
  <2>6. \A i \in SignsOf(text) : 4 <= i
    BY <1>8, <2>5
  <2>7. First(SignsOf(text)) = 4
    BY <1>11, <2>3, <2>6
  <2>. QED BY <1>5, <2>1, <2>2, <2>7
<1>16. CASE op = "="
  <2>1. Sign(op) = << eq >> /\ PlaceOf(op) = 5
    BY <1>3, <1>16 DEF Sign, PlaceOf
  <2>2. Len(Sign(op)) = 1 /\ Sign(op) \in Seq(C)
    BY <1>6, <2>1
  <2>3. 5 \in SignsOf(text)
    BY <1>5, <2>1 DEF SignsOf
  <2>4. \A i \in 1 .. 4 : i \notin SignsOf(text)
    <3>1. \A i \in 1 .. 4 : i = 1 \/ i = 2 \/ i = 3 \/ i = 4
      OBVIOUS
    <3>. QED BY <1>4, <1>10, <2>3, <3>1
  <2>5. \A i \in SignsOf(text) : 5 <= i
    BY <1>8, <2>4
  <2>6. First(SignsOf(text)) = 5
    BY <1>11, <2>3, <2>5
  <2>. QED BY <1>5, <2>1, <2>2, <2>6
<1>. QED BY <1>12, <1>13, <1>14, <1>15, <1>16 DEF SemverOps

\* Versions are compared by a total order of their three parts: neither is less
\* than itself, less is transitive, and of two one is less or they are equal,
\* so that each constraint of semverMatch is the negation of another or of two
\* (compareSemver, rules.go:225).
THEOREM LessIsTotalOrder ==
  ASSUME NEW a \in [1 .. 3 -> Int], NEW b \in [1 .. 3 -> Int],
         NEW c \in [1 .. 3 -> Int]
  PROVE  /\ ~ Less(a, a)
         /\ Less(a, b) /\ Less(b, c) => Less(a, c)
         /\ Less(a, b) \/ Less(b, a) \/ a = b
         /\ ~ (Less(a, b) /\ Less(b, a))
<1>1. \A x, y \in [1 .. 3 -> Int] :
        Less(x, y) <=> \/ x[1] < y[1]
                       \/ x[1] = y[1] /\ x[2] < y[2]
                       \/ x[1] = y[1] /\ x[2] = y[2] /\ x[3] < y[3]
  BY DEF Less
<1>2. a = b <=> a[1] = b[1] /\ a[2] = b[2] /\ a[3] = b[3]
  OBVIOUS
<1>3. \A x \in [1 .. 3 -> Int] : x[1] \in Int /\ x[2] \in Int /\ x[3] \in Int
  OBVIOUS
<1>. QED BY <1>1, <1>2, <1>3

\* What a sign says of two versions.
Verdict(sign, have, want) ==
  CASE sign = << ">", "=" >> -> ~ Less(have, want)
    [] sign = << "<", "=" >> -> ~ Less(want, have)
    [] sign = << ">" >> -> Less(want, have)
    [] sign = << "<" >> -> Less(have, want)
    [] sign = << "=" >> -> have = want

\* The first place of a text that is not e, a space.
FirstInk(text, e) == First({ i \in 1 .. Len(text) : text[i] # e })

\* A text whose first fitting sign is number at, with target after the spaces.
Signed(text, at, target) ==
  /\ at # 0 /\ at = First(SignsOf(text))
  /\ \E rest, e, ink :
       /\ rest = TrimPrefix(text, Prefixed[at]) /\ e = " "
       /\ ink # 0 /\ ink = FirstInk(rest, e)
       /\ target = SubSeq(rest, ink, Len(rest))

\* semverMatch of a constraint that begins with a sign.
LEMMA MatchWithSign ==
  ASSUME NEW version, NEW text, NEW at, NEW target, Signed(text, at, target)
  PROVE  SemverMatch(version, text)
           = Verdict(Prefixed[at], SemverParts(TrimPrefix(version, << "v" >>)),
                     SemverParts(TrimPrefix(target, << "v" >>)))
<1>. PICK rest, e, ink :
       /\ at # 0 /\ at = First(SignsOf(text))
       /\ rest = TrimPrefix(text, Prefixed[at]) /\ e = " "
       /\ ink # 0 /\ ink = FirstInk(rest, e)
       /\ target = SubSeq(rest, ink, Len(rest))
  BY DEF Signed
<1>1. Len(Prefixed) = 5
  BY DEF Prefixed
<1>2. SelectInSeq(Prefixed, LAMBDA p : IsPrefix(p, text)) = at
  BY <1>1 DEF SelectInSeq, First, SignsOf
<1>3. SelectInSeq(rest, LAMBDA ch : ch # " ") = ink
  BY DEF SelectInSeq, First, FirstInk
<1>. QED BY <1>2, <1>3, Zenon DEF SemverMatch, Verdict

\* semverMatch of a constraint without a sign.
LEMMA MatchWithoutSign ==
  ASSUME NEW version, NEW text, First(SignsOf(text)) = 0
  PROVE  SemverMatch(version, text)
           = Verdict(<< "=" >>, SemverParts(TrimPrefix(version, << "v" >>)),
                     SemverParts(TrimPrefix(text, << "v" >>)))
<1>1. Len(Prefixed) = 5
  BY DEF Prefixed
<1>2. SelectInSeq(Prefixed, LAMBDA p : IsPrefix(p, text)) = 0
  BY <1>1 DEF SelectInSeq, First, SignsOf
<1>. QED BY <1>2, Zenon DEF SemverMatch, Verdict

\* What a version is written with begins with a digit or a v.
LEMMA SpelledFirst ==
  ASSUME NEW C, Alphabet(C), NEW text \in Seq(C), NEW v, IsVersion(v), Spells(text, v)
  PROVE  Len(text) >= 1 /\ text[1] \notin {" ", ">", "<", "="}
<1>0. Dots \cup {"v"} \subseteq C
  BY DEF Alphabet
<1>1. Extends(TrimPrefix(text, << "v" >>), Dotted(v), C)
  BY <1>0, Trimmed
<1>2. PICK d : d = Dotted(v)
  OBVIOUS
<1>3. PICK t : t = TrimPrefix(text, << "v" >>)
  OBVIOUS
<1>4. Len(d) >= 1 /\ d[1] \in Ciphers
  BY <1>2, DottedParts
<1>5. t \in Seq(C) /\ d \in Seq(C) /\ Len(d) <= Len(t) /\ \A i \in 1 .. Len(d) : d[i] = t[i]
  BY <1>1, <1>2, <1>3 DEF Extends
<1>6. Len(d) \in Nat /\ Len(t) \in Nat /\ Len(text) \in Nat
  BY <1>5, LenNat
<1>7. PICK e \in C : e = "v"
  BY <1>0
<1>8. PICK x : x = << e >>
  OBVIOUS
<1>9. t = IF IsPrefix(x, text) THEN SubSeq(text, Len(x) + 1, Len(text)) ELSE text
  BY <1>3, <1>7, <1>8 DEF TrimPrefix
<1>10. IsPrefix(x, text) <=> Len(text) >= 1 /\ text[1] = e
  BY <1>8, OneSign
<1>11. CASE IsPrefix(x, text)
  <2>1. e \notin {" ", ">", "<", "="}
    BY <1>7
  <2>. QED BY <1>10, <1>11, <2>1
<1>12. CASE ~ IsPrefix(x, text)
  <2>1. t = text
    BY <1>9, <1>12
  <2>2. 1 \in 1 .. Len(d) /\ Len(text) >= 1
    BY <1>4, <1>5, <1>6, <2>1
  <2>3. text[1] \in Ciphers
    BY <1>4, <1>5, <2>1, <2>2
  <2>. QED BY <2>2, <2>3, CiphersDiffer
<1>. QED BY <1>11, <1>12

\* A text with e, a space, from place l to place n and not after it.
Spaced(text, l, n, e) ==
  /\ l \in Nat /\ n \in Nat /\ l <= n /\ n < Len(text)
  /\ \A i \in l + 1 .. n : text[i] = e
  /\ text[n + 1] # e

\* What follows place l of a text.
After(text, l) == SubSeq(text, l + 1, Len(text))

\* After the sign and the spaces, the target is what is left.
LEMMA TargetIs ==
  ASSUME NEW C, NEW text \in Seq(C), NEW l, NEW n, NEW e, Spaced(text, l, n, e)
  PROVE  /\ FirstInk(After(text, l), e) = n - l + 1
         /\ SubSeq(After(text, l), n - l + 1, Len(After(text, l))) = After(text, n)
<1>. PICK rest : rest = After(text, l)
  OBVIOUS
<1>b. rest = SubSeq(text, l + 1, Len(text))
  BY DEF After
<1>. /\ l \in Nat /\ n \in Nat /\ l <= n /\ n < Len(text)
     /\ \A i \in l + 1 .. n : text[i] = e
     /\ text[n + 1] # e
  BY DEF Spaced
<1>1. PICK k \in Nat : k = Len(text)
  BY LenNat
<1>2. l + 1 \in 1 .. Len(text) /\ n + 1 \in 1 .. Len(text)
  BY <1>1
<1>3. PICK a \in 1 .. Len(text) : a = l + 1
  BY <1>2
<1>4. /\ rest \in Seq(C) /\ Len(rest) = k - a + 1
      /\ \A i \in 1 .. k - a + 1 : rest[i] = text[i + a - 1]
  BY <1>1, <1>3, <1>b, RestIs
<1>5. PICK b \in 1 .. Len(text) : b = n + 1
  BY <1>2
<1>6. PICK x : x = SubSeq(text, b, Len(text))
  OBVIOUS
<1>7. /\ x \in Seq(C) /\ Len(x) = k - b + 1
      /\ \A i \in 1 .. k - b + 1 : x[i] = text[i + b - 1]
  BY <1>1, <1>6, RestIs
<1>8. PICK m \in Nat : m = n - l + 1
  OBVIOUS
<1>. DEFINE I == { i \in 1 .. Len(rest) : rest[i] # e }
<1>a. rest \in Seq(C) /\ k \in Nat /\ l \in Nat /\ n \in Nat /\ l <= n /\ n < k
  BY <1>1, <1>4
<1>9. m \in I
  <2>1. m \in 1 .. k - a + 1 /\ m + a - 1 = n + 1
    BY <1>1, <1>3, <1>8
  <2>2. rest[m] = text[n + 1]
    BY <1>4, <2>1
  <2>. QED BY <1>4, <2>1, <2>2
<1>10. \A i \in I : m <= i
  <2>1. SUFFICES ASSUME NEW i \in 1 .. Len(rest), rest[i] # e, ~ (m <= i)
                 PROVE  FALSE
    OBVIOUS
  <2>2. i \in 1 .. k - a + 1 /\ i + a - 1 \in l + 1 .. n
    BY <1>1, <1>3, <1>4, <1>8, <2>1
  <2>3. rest[i] = text[i + a - 1]
    BY <1>4, <2>2
  <2>4. text[i + a - 1] = e
    BY <2>2
  <2>. QED BY <2>1, <2>3, <2>4, Zenon
<1>11. FirstInk(rest, e) = m
  <2>1. I \subseteq Nat
    BY <1>1, <1>4
  <2>2. First(I) = m
    <3>. HIDE DEF I
    <3>. QED BY <1>9, <1>10, <2>1, FirstIs
  <2>. QED BY <2>2 DEF FirstInk
<1>12. SubSeq(rest, m, Len(rest)) = x
  <2>1. ASSUME NEW i \in 1 .. Len(x)
        PROVE  x[i] = rest[i + m - 1]
    <3>1. i \in 1 .. k - b + 1
      BY <1>7
    <3>2. i + m - 1 \in 1 .. k - a + 1 /\ (i + m - 1) + a - 1 = i + b - 1
      BY <1>1, <1>3, <1>5, <1>8, <3>1
    <3>3. rest[i + m - 1] = text[(i + m - 1) + a - 1]
      BY <1>4, <3>2
    <3>. QED BY <1>7, <3>1, <3>2, <3>3
  <2>2. /\ Len(rest) \in Nat /\ 1 <= m /\ Len(rest) <= Len(rest)
        /\ Len(x) = Len(rest) - m + 1
    BY <1>1, <1>3, <1>4, <1>5, <1>7, <1>8
  <2>. QED BY <1>4, <1>7, <2>1, <2>2, SliceIs
<1>13. x = After(text, n)
  BY <1>5, <1>6, Zenon DEF After
<1>. QED BY <1>8, <1>11, <1>12, <1>13, Zenon

\* Signs are texts of one or two characters.
LEMMA SignShape ==
  ASSUME NEW C, Alphabet(C), NEW op \in SemverOps
  PROVE  Sign(op) \in Seq(C) /\ Len(Sign(op)) \in 1 .. 2
<1>1. PICK gt \in C : gt = ">"
  BY DEF Alphabet
<1>2. PICK lt \in C : lt = "<"
  BY DEF Alphabet
<1>3. PICK eq \in C : eq = "="
  BY DEF Alphabet
<1>4. \/ Sign(op) = << gt, eq >> \/ Sign(op) = << lt, eq >>
      \/ Sign(op) = << gt >> \/ Sign(op) = << lt >> \/ Sign(op) = << eq >>
  BY <1>1, <1>2, <1>3 DEF Sign, SemverOps
<1>5. \A x \in C : << x >> \in Seq(C) /\ Len(<< x >>) = 1
  OBVIOUS
<1>6. \A x, y \in C : << x, y >> \in Seq(C) /\ Len(<< x, y >>) = 2
  OBVIOUS
<1>7. ASSUME NEW s, s \in Seq(C) /\ (Len(s) = 1 \/ Len(s) = 2), Sign(op) = s
      PROVE  Sign(op) \in Seq(C) /\ Len(Sign(op)) \in 1 .. 2
  <2>1. s \in Seq(C) /\ Len(s) \in 1 .. 2
    BY <1>7
  <2>. QED BY <1>7, <2>1, Zenon
<1>8. ASSUME NEW x \in C, NEW y \in C, Sign(op) = << x, y >>
      PROVE  Sign(op) \in Seq(C) /\ Len(Sign(op)) \in 1 .. 2
  BY <1>6, <1>7, <1>8
<1>9. ASSUME NEW x \in C, Sign(op) = << x >>
      PROVE  Sign(op) \in Seq(C) /\ Len(Sign(op)) \in 1 .. 2
  BY <1>5, <1>7, <1>9
<1>. QED BY <1>4, <1>8, <1>9, Zenon

\* A constraint is read as its sign and the three numbers of its target.
LEMMA ConstraintRead ==
  ASSUME NEW C, Alphabet(C), NEW version, NEW text \in Seq(C),
         NEW w, IsVersion(w), NEW op \in SemverOps, SpellsConstraint(text, op, w)
  PROVE  SemverMatch(version, text)
           = Verdict(Sign(op), SemverParts(TrimPrefix(version, << "v" >>)),
                     NumbersOf(w))
<1>0. Dots \cup {"v"} \subseteq C
  BY DEF Alphabet
<1>1. CASE op = "=" /\ Spells(text, w)
  <2>1. Len(text) >= 1 /\ text[1] \notin {">", "<", "="}
    BY <1>1, SpelledFirst
  <2>2. \A i \in 1 .. 5 : i \notin SignsOf(text)
    <3>1. \A i \in 1 .. 5 : i = 1 \/ i = 2 \/ i = 3 \/ i = 4 \/ i = 5
      OBVIOUS
    <3>2. /\ 1 \notin SignsOf(text) /\ 2 \notin SignsOf(text) /\ 3 \notin SignsOf(text)
          /\ 4 \notin SignsOf(text) /\ 5 \notin SignsOf(text)
      BY <2>1, SignsAre
    <3>. QED BY <3>1, <3>2, Zenon
  <2>3. SignsOf(text) = {}
    BY <2>2 DEF SignsOf
  <2>4. First(SignsOf(text)) = 0
    BY <2>3, FirstNone
  <2>5. Sign(op) = << "=" >>
    BY <1>1 DEF Sign
  <2>6. SemverParts(TrimPrefix(text, << "v" >>)) = NumbersOf(w)
    BY <1>0, <1>1, SpelledParts
  <2>. QED BY <2>4, <2>5, <2>6, MatchWithoutSign, Zenon
<1>2. CASE \E n \in Len(Sign(op)) .. Len(text) :
             /\ IsPrefix(Sign(op), text)
             /\ \A i \in Len(Sign(op)) + 1 .. n : text[i] = " "
             /\ Spells(SubSeq(text, n + 1, Len(text)), w)
  <2>1. PICK e \in C : e = " "
    BY DEF Alphabet
  <2>2. Sign(op) \in Seq(C) /\ Len(Sign(op)) \in 1 .. 2
    BY SignShape
  <2>3. PICK l \in 1 .. 2 : l = Len(Sign(op))
    BY <2>2
  <2>4. PICK n \in l .. Len(text) :
          /\ IsPrefix(Sign(op), text)
          /\ \A i \in l + 1 .. n : text[i] = e
          /\ Spells(SubSeq(text, n + 1, Len(text)), w)
    BY <1>2, <2>1, <2>3
  <2>5. Len(text) \in Nat /\ n \in Nat /\ l <= n /\ n <= Len(text)
    BY LenNat
  <2>6. PICK x \in Seq(C) : x = SubSeq(text, n + 1, Len(text))
    <3>1. SubSeq(text, n + 1, Len(text)) \in Seq(C)
      BY <2>5
    <3>. QED BY <3>1, Zenon
  <2>7. Len(x) >= 1 /\ x[1] \notin {" ", ">", "<", "="}
    BY <2>4, <2>6, SpelledFirst
  <2>8. n < Len(text) /\ text[n + 1] = x[1]
    <3>1. PICK k \in Nat : k = Len(text)
      BY <2>5
    <3>2. CASE n = k
      <4>1. SubSeq(text, k + 1, k) = << >>
        BY <3>1
      <4>2. x = << >>
        BY <2>6, <3>1, <3>2, <4>1, Zenon
      <4>3. Len(x) = 0
        BY <4>2
      <4>4. Len(x) >= 1
        BY <2>7
      <4>. QED BY <4>3, <4>4
    <3>3. CASE n < k
      <4>1. PICK b \in 1 .. Len(text) : b = n + 1
        BY <2>5, <3>1, <3>3
      <4>2. \A i \in 1 .. Len(text) - b + 1 : x[i] = text[i + b - 1]
        BY <2>6, <4>1, RestIs
      <4>3. 1 \in 1 .. Len(text) - b + 1 /\ 1 + b - 1 = n + 1
        BY <2>5, <4>1
      <4>4. x[1] = text[1 + b - 1]
        BY <4>2, <4>3
      <4>5. text[n + 1] = x[1]
        BY <4>3, <4>4, Zenon
      <4>. QED BY <3>1, <3>3, <4>5
    <3>4. n = k \/ n < k
      BY <2>5, <3>1
    <3>. QED BY <3>2, <3>3, <3>4
  <2>9. text[l + 1] # "="
    <3>1. CASE l = n
      BY <2>7, <2>8, <3>1
    <3>2. CASE l < n
      <4>1. l + 1 \in l + 1 .. n
        BY <2>5, <3>2
      <4>2. text[l + 1] = e
        BY <2>4, <4>1
      <4>. QED BY <2>1, <4>2
    <3>. QED BY <2>5, <3>1, <3>2
  <2>10. PICK at : at = First(SignsOf(text))
    OBVIOUS
  <2>11. at \in 1 .. 5 /\ Prefixed[at] = Sign(op)
    <3>1. Len(text) > Len(Sign(op))
      BY <2>3, <2>5, <2>8
    <3>2. text[Len(Sign(op)) + 1] # "="
      BY <2>3, <2>9
    <3>3. First(SignsOf(text)) = PlaceOf(op) /\ PlaceOf(op) \in 1 .. 5
            /\ Prefixed[PlaceOf(op)] = Sign(op)
      BY <2>4, <3>1, <3>2, SignIs
    <3>. QED BY <2>10, <3>3
  <2>12. PICK rest : rest = After(text, l)
    OBVIOUS
  <2>13. TrimPrefix(text, Prefixed[at]) = rest
    BY <2>3, <2>4, <2>11, <2>12 DEF TrimPrefix, After
  <2>14. l \in Nat /\ text[n + 1] # e
    <3>1. x[1] # " "
      BY <2>7
    <3>2. text[n + 1] # e
      BY <2>1, <2>8, <3>1, Zenon
    <3>. QED BY <3>2
  <2>15. FirstInk(rest, e) = n - l + 1 /\ SubSeq(rest, FirstInk(rest, e), Len(rest)) = x
    <3>1. Spaced(text, l, n, e)
      BY <2>4, <2>5, <2>8, <2>14 DEF Spaced
    <3>2. /\ FirstInk(After(text, l), e) = n - l + 1
          /\ SubSeq(After(text, l), n - l + 1, Len(After(text, l))) = After(text, n)
      BY <3>1, TargetIs
    <3>3. x = After(text, n)
      BY <2>6 DEF After
    <3>. QED BY <2>12, <3>2, <3>3, Zenon
  <2>16. PICK ink : ink = FirstInk(rest, e)
    OBVIOUS
  <2>17. ink # 0 /\ at # 0
    BY <2>5, <2>11, <2>14, <2>15, <2>16
  <2>18. SubSeq(rest, ink, Len(rest)) = x
    BY <2>15, <2>16
  <2>19. SemverMatch(version, text)
           = Verdict(Prefixed[at], SemverParts(TrimPrefix(version, << "v" >>)),
                     SemverParts(TrimPrefix(x, << "v" >>)))
    <3>1. rest = TrimPrefix(text, Prefixed[at])
      BY <2>13
    <3>2. x = SubSeq(rest, ink, Len(rest))
      BY <2>18
    <3>3. ink # 0
      BY <2>17
    <3>4. at # 0
      BY <2>17
    <3>5. Signed(text, at, x)
      BY <2>1, <2>10, <2>16, <3>1, <3>2, <3>3, <3>4, Zenon DEF Signed
    <3>. QED BY <3>5, MatchWithSign, Zenon
  <2>20. SemverParts(TrimPrefix(x, << "v" >>)) = NumbersOf(w)
    BY <1>0, <2>4, <2>6, SpelledParts
  <2>. QED BY <2>11, <2>19, <2>20, Zenon
<1>. QED BY <1>1, <1>2 DEF SpellsConstraint

\* What an operator says of two versions.
Asked(op, v, w) ==
  CASE op = ">=" -> ~ Older(v, w)
    [] op = "<=" -> ~ Older(w, v)
    [] op = ">" -> Older(w, v)
    [] op = "<" -> Older(v, w)
    [] op = "=" -> ~ Older(v, w) /\ ~ Older(w, v)

\* A sign says of the numbers of two versions what its operator asks.
LEMMA VerdictIs ==
  ASSUME NEW v, NEW w, IsVersion(v), IsVersion(w), Ordinary(v), Ordinary(w),
         NEW op \in SemverOps
  PROVE  /\ Verdict(Sign(op), NumbersOf(v), NumbersOf(w)) <=> Asked(op, v, w)
         /\ Asked(op, v, w) \in BOOLEAN
<1>1. PICK x \in [1 .. 3 -> Int] : x = NumbersOf(v)
  BY OrdinaryOrder
<1>2. PICK y \in [1 .. 3 -> Int] : y = NumbersOf(w)
  BY OrdinaryOrder
<1>3. (Less(x, y) <=> Older(v, w)) /\ (Less(y, x) <=> Older(w, v))
  BY <1>1, <1>2, OrdinaryOrder
<1>4. x = y <=> ~ Less(x, y) /\ ~ Less(y, x)
  BY LessIsTotalOrder
<1>5. Older(v, w) \in BOOLEAN /\ Older(w, v) \in BOOLEAN
  BY DEF Older
<1>6. CASE op = ">="
  <2>1. Verdict(Sign(op), x, y) <=> ~ Less(x, y)
    BY <1>6 DEF Sign, Verdict
  <2>2. Asked(op, v, w) <=> ~ Older(v, w)
    BY <1>6 DEF Asked
  <2>3. Asked(op, v, w) \in BOOLEAN
    BY <1>6 DEF Asked
  <2>. QED BY <1>1, <1>2, <1>3, <2>1, <2>2, <2>3
<1>7. CASE op = "<="
  <2>1. Verdict(Sign(op), x, y) <=> ~ Less(y, x)
    BY <1>7 DEF Sign, Verdict
  <2>2. Asked(op, v, w) <=> ~ Older(w, v)
    BY <1>7 DEF Asked
  <2>3. Asked(op, v, w) \in BOOLEAN
    BY <1>7 DEF Asked
  <2>. QED BY <1>1, <1>2, <1>3, <2>1, <2>2, <2>3
<1>8. CASE op = ">"
  <2>1. Verdict(Sign(op), x, y) <=> Less(y, x)
    BY <1>8 DEF Sign, Verdict
  <2>2. Asked(op, v, w) <=> Older(w, v)
    BY <1>8 DEF Asked
  <2>3. Asked(op, v, w) \in BOOLEAN
    BY <1>5, <1>8 DEF Asked
  <2>. QED BY <1>1, <1>2, <1>3, <2>1, <2>2, <2>3
<1>9. CASE op = "<"
  <2>1. Verdict(Sign(op), x, y) <=> Less(x, y)
    BY <1>9 DEF Sign, Verdict
  <2>2. Asked(op, v, w) <=> Older(v, w)
    BY <1>9 DEF Asked
  <2>3. Asked(op, v, w) \in BOOLEAN
    BY <1>5, <1>9 DEF Asked
  <2>. QED BY <1>1, <1>2, <1>3, <2>1, <2>2, <2>3
<1>10. CASE op = "="
  <2>1. Verdict(Sign(op), x, y) <=> x = y
    BY <1>10 DEF Sign, Verdict
  <2>2. Asked(op, v, w) <=> ~ Older(v, w) /\ ~ Older(w, v)
    BY <1>10 DEF Asked
  <2>3. Asked(op, v, w) \in BOOLEAN
    BY <1>10 DEF Asked
  <2>. QED BY <1>1, <1>2, <1>3, <1>4, <2>1, <2>2, <2>3
<1>. QED BY <1>6, <1>7, <1>8, <1>9, <1>10 DEF SemverOps

\* A sequence over a set is one over a larger set.
LEMMA SeqGrows ==
  ASSUME NEW A, NEW B, A \subseteq B
  PROVE  Seq(A) \subseteq Seq(B)
OBVIOUS

\* What a condition says that asks whether a string is a version of a constraint.
LEMMA SemverCondition ==
  ASSUME NEW f, NEW context, NEW v, NEW w, Written(v), Written(w),
         v.type = "string", w.type = "string", f.operator = "semver_match",
         Resolve(f.attribute, context) = ReadAs("float", v),
         f.value = ReadAs("float", w)
  PROVE  EvaluateCondition(f, context) <=> SemverMatch(v.text, w.text)
<1>1. PICK x : x = ReadAs("float", v)
  OBVIOUS
<1>2. PICK y : y = ReadAs("float", w)
  OBVIOUS
<1>3. x # Absent
  <2>1. Absent.type # "string"
    BY DEF Absent
  <2>2. x.type = "string"
    BY <1>1, StringText
  <2>. QED BY <2>1, <2>2
<1>4. Text(x) = v.text /\ Text(y) = w.text
  BY <1>1, <1>2, StringText
<1>5. EvaluateCondition(f, context) <=> SemverMatch(Text(x), Text(y))
  BY <1>1, <1>2, <1>3 DEF EvaluateCondition
<1>. QED BY <1>4, <1>5

\* A constraint says of a version what its operator asks of their numbers.
LEMMA SemverAsked ==
  ASSUME NEW C, Alphabet(C), NEW text \in Seq(C), NEW constraint \in Seq(C),
         NEW v, NEW w, IsVersion(v), IsVersion(w), Ordinary(v), Ordinary(w),
         NEW op \in SemverOps, Spells(text, v), SpellsConstraint(constraint, op, w)
  PROVE  /\ SemverMatch(text, constraint) <=> Asked(op, v, w)
         /\ Asked(op, v, w) \in BOOLEAN
<1>1. SemverMatch(text, constraint)
        = Verdict(Sign(op), SemverParts(TrimPrefix(text, << "v" >>)), NumbersOf(w))
  BY ConstraintRead
<1>2. SemverParts(TrimPrefix(text, << "v" >>)) = NumbersOf(v)
  <2>1. Dots \cup {"v"} \subseteq C
    BY DEF Alphabet
  <2>. QED BY <2>1, SpelledParts
<1>3. /\ Verdict(Sign(op), NumbersOf(v), NumbersOf(w)) <=> Asked(op, v, w)
      /\ Asked(op, v, w) \in BOOLEAN
  BY VerdictIs
<1>. QED BY <1>1, <1>2, <1>3, Zenon

-----------------------------------------------------------------------------
(* The theorems *)

\* A rule means the same in a file and in a module, unless one of its
\* conditions compares the text of a number that a float prints in exponent
\* form: whatever the operators, attributes and values, and whatever the
\* regular expressions accept (persistence.go:126, rules.go:76).
THEOREM FilesAndStoresAgree == RulesSpec => []FileAndStoreAgree
<1>1. RulesInit => FileAndStoreAgree
  BY DEF RulesInit, FileAndStoreAgree
<1>2. FileAndStoreAgree /\ [EvaluateRule]_rulesVars => FileAndStoreAgree'
  <2>1. CASE UNCHANGED rulesVars
    BY <2>1 DEF rulesVars, FileAndStoreAgree
  <2>2. CASE EvaluateRule
    <3>1. PICK q \in Questions :
            /\ question' = q
            /\ answer' = AllConditionsMatch(Conditions(q, "float"), Context(q))
            /\ fromFile' = AllConditionsMatch(Conditions(q, "int"), Context(q))
      BY <2>2 DEF EvaluateRule
    <3>2. CASE \A i \in DOMAIN q.conditions :
                 \/ ComparesNumbers(q.conditions[i])
                 \/ Plainly(q.conditions[i].value)
      <4>1. answer' = fromFile'
        BY <3>1, <3>2, SameRule DEF AllConditionsMatch
      <4>. QED BY <4>1 DEF FileAndStoreAgree
    <3>3. ASSUME NEW i \in DOMAIN q.conditions,
                 ~ ComparesNumbers(q.conditions[i]),
                 ~ Plainly(q.conditions[i].value)
          PROVE  FileAndStoreAgree'
      <4>1. PICK n \in Numbers(q.conditions[i].value) : ~ (n < ExpFrom)
        BY <3>3 DEF Plainly
      <4>2. n \in Nat
        BY QuestionsAssumption
      <4>3. n >= ExpFrom
        BY <4>1, <4>2, NumbersAssumption
      <4>. QED BY <3>1, <3>3, <4>3 DEF FileAndStoreAgree
    <3>. QED BY <3>2, <3>3
  <2>. QED BY <2>1, <2>2
<1>. QED BY <1>1, <1>2, PTL DEF RulesSpec

\* Equals, not_equals, greater_than and less_than say of an attribute and of a
\* value, two strings or two numbers, what they say of the two as they were
\* written: printing tells all numbers apart, on either side of ExpFrom
\* (rules.go:75-77, 138-167).
THEOREM ComparisonsExact == RulesSpec => []ComparisonsAreExact
<1>1. RulesInit => ComparisonsAreExact
  BY DEF RulesInit, ComparisonsAreExact
<1>2. ComparisonsAreExact /\ [EvaluateRule]_rulesVars => ComparisonsAreExact'
  <2>1. CASE UNCHANGED rulesVars
    BY <2>1 DEF rulesVars, ComparisonsAreExact
  <2>2. CASE EvaluateRule
    <3>1. PICK q \in Questions :
            /\ question' = q
            /\ answer' = AllConditionsMatch(Conditions(q, "float"), Context(q))
      BY <2>2 DEF EvaluateRule
    <3>. DEFINE c == q.conditions[1]
                v == IF c.attribute.root = "attributes"
                     THEN q.context.attributes[c.attribute.name] ELSE Absent
                Compared == \/ c.operator \in {"equals", "not_equals"}
                                 /\ v.type = c.value.type
                                 /\ v.type \in {"string", "number"}
                            \/ /\ ComparesNumbers(c)
                               /\ v.type = "number" /\ c.value.type = "number"
    <3>2. SUFFICES ASSUME Len(q.conditions) = 1, Compared
                   PROVE  answer' = Comparison(c.operator, v, c.value)
      BY <3>1 DEF ComparisonsAreExact
    <3>3. c.attribute.root = "attributes"
      <4>1. Absent.type \notin {"string", "number"}
        BY DEF Absent
      <4>. QED BY <3>2, <4>1
    <3>4. v = q.context.attributes[c.attribute.name]
      BY <3>3
    <3>5. PICK f :
            /\ f.attribute = c.attribute /\ f.operator = c.operator
            /\ f.value = ReadAs("float", c.value) /\ Written(c.value)
            /\ Resolve(f.attribute, Context(q)) = ReadAs("float", v)
            /\ Written(v)
            /\ AllConditionsMatch(Conditions(q, "float"), Context(q))
                 <=> EvaluateCondition(f, Context(q))
      BY <3>2, <3>3, <3>4, OneCondition
    <3>6. /\ v.type = c.value.type /\ v.type \in {"string", "number"}
          /\ \/ f.operator \in {"equals", "not_equals"}
             \/ ComparesNumbers(f) /\ v.type = "number"
      BY <3>2, <3>5 DEF ComparesNumbers
    <3>7. EvaluateCondition(f, Context(q)) <=> Comparison(f.operator, v, c.value)
      <4>. HIDE DEF c, v
      <4>. QED BY <3>5, <3>6, ConditionAsWritten
    <3>8. answer' \in BOOLEAN
      BY <3>1 DEF AllConditionsMatch
    <3>9. Comparison(c.operator, v, c.value) \in BOOLEAN
      <4>1. CASE c.operator = "equals"
        BY <4>1 DEF Comparison
      <4>2. CASE c.operator = "not_equals"
        BY <4>2 DEF Comparison
      <4>3. CASE ComparesNumbers(c) /\ v.type = "number" /\ c.value.type = "number"
        <5>1. v.number \in Nat /\ c.value.number \in Nat
          BY <3>5, <4>3 DEF Written
        <5>2. c.operator \in {"greater_than", "less_than"}
          BY <4>3 DEF ComparesNumbers
        <5>. HIDE DEF c, v
        <5>3. CASE c.operator = "greater_than"
          BY <5>1, <5>3 DEF Comparison
        <5>4. CASE c.operator = "less_than"
          BY <5>1, <5>4 DEF Comparison
        <5>. QED BY <5>2, <5>3, <5>4
      <4>4. Compared
        BY <3>2
      <4>. HIDE DEF c, v
      <4>. QED BY <4>1, <4>2, <4>3, <4>4
    <3>. HIDE DEF c, v
    <3>. QED BY <3>1, <3>5, <3>7, <3>8, <3>9
  <2>. QED BY <2>1, <2>2
<1>. QED BY <1>1, <1>2, PTL DEF RulesSpec

\* An ordinary semver_match is met exactly if the version it is asked of stands
\* to its target, number by number, as the constraint's sign says: the longer
\* of two numerals is the larger once their zeros are left out, folding the
\* digits of one that an int holds never wraps around, and dots, a v, spaces
\* and a pre-release are where the parser looks for them (rules.go:193-260).
THEOREM SemverOrder == RulesSpec => []SemverIsNumericOrder
<1>1. RulesInit => SemverIsNumericOrder
  BY DEF RulesInit, SemverIsNumericOrder
<1>2. SemverIsNumericOrder /\ [EvaluateRule]_rulesVars => SemverIsNumericOrder'
  <2>1. CASE UNCHANGED rulesVars
    BY <2>1 DEF rulesVars, SemverIsNumericOrder
  <2>2. CASE EvaluateRule
    <3>1. PICK q \in Questions :
            /\ question' = q
            /\ answer' = AllConditionsMatch(Conditions(q, "float"), Context(q))
      BY <2>2 DEF EvaluateRule
    <3>2. SUFFICES ASSUME NEW s \in q.versions,
                          Ordinary(s.version), Ordinary(s.target)
                   PROVE  answer' = Asked(s.op, s.version, s.target)
      BY <3>1, Zenon DEF SemverIsNumericOrder, Asked
    <3>3. PICK c : c = q.conditions[1]
      OBVIOUS
    <3>4. PICK v : v = q.context.attributes[c.attribute.name]
      OBVIOUS
    <3>5. /\ IsVersion(s.version) /\ IsVersion(s.target) /\ s.op \in SemverOps
          /\ Len(q.conditions) = 1
          /\ c.attribute.root = "attributes" /\ c.operator = "semver_match"
          /\ v.type = "string" /\ v.text \in Seq(STRING)
          /\ c.value.type = "string" /\ c.value.text \in Seq(STRING)
          /\ Spells(v.text, s.version)
          /\ SpellsConstraint(c.value.text, s.op, s.target)
      BY <3>2, <3>3, <3>4, VersionsAssumption, Zenon DEF SemverOps
    <3>6. PICK f :
            /\ f.attribute = c.attribute /\ f.operator = c.operator
            /\ f.value = ReadAs("float", c.value) /\ Written(c.value)
            /\ Resolve(f.attribute, Context(q)) = ReadAs("float", v)
            /\ Written(v)
            /\ AllConditionsMatch(Conditions(q, "float"), Context(q))
                 <=> EvaluateCondition(f, Context(q))
      BY <3>3, <3>4, <3>5, OneCondition
    <3>7. EvaluateCondition(f, Context(q)) <=> SemverMatch(v.text, c.value.text)
      BY <3>5, <3>6, SemverCondition
    <3>8. PICK C : C = STRING \cup Dots \cup {"v", " ", ">", "<", "="}
      OBVIOUS
    <3>9. Alphabet(C) /\ v.text \in Seq(C) /\ c.value.text \in Seq(C)
      <4>1. Alphabet(C)
        BY <3>8, Zenon DEF Alphabet
      <4>2. STRING \subseteq C
        BY <3>8, Zenon
      <4>3. Seq(STRING) \subseteq Seq(C)
        BY <4>2, SeqGrows, Zenon
      <4>. QED BY <3>5, <4>1, <4>3, Zenon
    <3>10. /\ SemverMatch(v.text, c.value.text) <=> Asked(s.op, s.version, s.target)
           /\ Asked(s.op, s.version, s.target) \in BOOLEAN
      BY <3>2, <3>5, <3>9, SemverAsked
    <3>11. answer' \in BOOLEAN
      BY <3>1 DEF AllConditionsMatch
    <3>. QED BY <3>1, <3>6, <3>7, <3>10, <3>11
  <2>. QED BY <2>1, <2>2
<1>. QED BY <1>1, <1>2, PTL DEF RulesSpec

=============================================================================
