--------------------------- MODULE TargetingRules ---------------------------
(***************************************************************************)
(* The conditions of a rule (internal/engine/rules.go): whether the        *)
(* attributes of a request match them, for a flag read from a YAML file or *)
(* from a persistence module.                                              *)
(*                                                                         *)
(* Text is a sequence of characters.  Numbers are natural, and such as a   *)
(* float holds exactly (up to 2^53); one that is not below ExpFrom is      *)
(* printed by the verb %v in exponent form if it is a float (10^6 in Go).  *)
(* A number of a request or of a module arrives as JSON and is a float;    *)
(* one of a YAML file is an int, and printed in full.                      *)
(*                                                                         *)
(* The specification at the end asks for one rule at a time.               *)
(***************************************************************************)
EXTENDS Integers, SequencesExt

CONSTANTS ExpFrom,
          IntMax,            \* the largest int; arithmetic wraps around
          MaxPattern,        \* regex patterns longer than this never match
          Compiles(_),       \* whether a text is a regular expression
          Accepts(_, _),     \* whether an expression matches a text
          AttributeNames,
          Questions          \* records of a rule's conditions as its author
                             \* writes them, the context of a request, and
                             \* the versions a semver_match's texts stand for

ASSUME NumbersAssumption == ExpFrom \in Nat \ {0} /\ IntMax \in Nat

VARIABLES question, answer, fromFile

rulesVars == << question, answer, fromFile >>

-----------------------------------------------------------------------------
(* Values *)

Chars == << "0", "1", "2", "3", "4", "5", "6", "7", "8", "9" >>

Digit(ch) == CHOOSE d \in 0 .. 9 : Chars[d + 1] = ch

IsDigit(ch) == \E d \in 0 .. 9 : Chars[d + 1] = ch

\* A value: as it is written ("number"), or once it is read ("int", "float").
Str(text) == [type |-> "string", text |-> text, number |-> 0, items |-> << >>]
Num(type, n) == [type |-> type, text |-> << >>, number |-> n, items |-> << >>]
List(items) == [type |-> "list", text |-> << >>, number |-> 0, items |-> items]
Nil == [type |-> "nil", text |-> << >>, number |-> 0, items |-> << >>]
Absent == [type |-> "absent", text |-> << >>, number |-> 0, items |-> << >>]

\* The numbers written in a value.
Numbers(v) ==
  IF v.type = "list" THEN { v.items[i].number : i \in { j \in DOMAIN v.items :
                                                  v.items[j].type = "number" } }
  ELSE IF v.type = "number" THEN { v.number } ELSE {}

\* A string or a number is nothing else besides.
Written(v) ==
  /\ v.type = "string" => v = Str(v.text)
  /\ v.type = "number" => v = Num("number", v.number) /\ v.number \in Nat

ASSUME QuestionsAssumption ==
  \A q \in Questions :
    /\ Len(q.conditions) \in Nat
    /\ DOMAIN q.conditions = 1 .. Len(q.conditions)
    /\ \A i \in DOMAIN q.conditions :
         LET c == q.conditions[i]
         IN  /\ DOMAIN c = {"attribute", "operator", "value"}
             /\ c.attribute.root = "attributes" => c.attribute.name \in AttributeNames
             /\ Written(c.value) /\ Numbers(c.value) \subseteq Nat
    /\ "attributes" \in DOMAIN q.context
    /\ \A name \in AttributeNames : Written(q.context.attributes[name])

\* What YAML, or JSON and protoToFlag, make of a written value.
ReadAs(type, v) ==
  CASE v.type = "number" -> Num(type, v.number)
    [] v.type = "list" -> List([ i \in DOMAIN v.items |->
                                   IF v.items[i].type = "number"
                                   THEN Num(type, v.items[i].number)
                                   ELSE v.items[i] ])
    [] OTHER -> v

Decimal[n \in Nat] ==
  IF n < 10 THEN << Chars[n + 1] >>
            ELSE Append(Decimal[n \div 10], Chars[(n % 10) + 1])

\* Mutant: a float in exponent form keeps one digit.
Exponent_Rounded(n) ==
  << Decimal[n][1], "e", "+" >> \o Decimal[Len(Decimal[n]) - 1]

\* 1.2e+07: the digits without the zeros at their end, and the exponent.
Exponent(n) ==
  LET digits == Decimal[n]
      last == SelectLastInSeq(digits, LAMBDA ch : ch # "0")
      point == IF last > 1 THEN << "." >> ELSE << >>
  IN  << digits[1] >> \o point \o SubSeq(digits, 2, last) \o << "e", "+" >>
        \o (IF Len(digits) <= 10 THEN << "0" >> ELSE << >>)
        \o Decimal[Len(digits) - 1]

ScalarText(v) ==
  CASE v.type = "string" -> v.text
    [] v.type = "int" -> Decimal[v.number]
    [] v.type = "float" -> IF v.number < ExpFrom THEN Decimal[v.number]
                                                 ELSE Exponent(v.number)
    [] OTHER -> << "<", "n", "i", "l", ">" >>

\* fmt.Sprintf("%v", v), which is also toString.
Text(v) ==
  IF v.type # "list" THEN ScalarText(v)
  ELSE << "[" >>
       \o FlattenSeq([ i \in DOMAIN v.items |->
                         (IF i = 1 THEN << >> ELSE << " " >>)
                         \o ScalarText(v.items[i]) ])
       \o << "]" >>

\* Mutant: ints are not numbers.
IsNumber_Float(v) == v.type = "float"

\* toFloat64 succeeds.
IsNumber(v) == v.type \in {"int", "float"}

-----------------------------------------------------------------------------
(* Semantic versions *)

\* The range of an int is -IntMax - 1 .. IntMax.
Wrap(n) == ((n + IntMax + 1) % (2 * IntMax + 2)) - IntMax - 1

TrimPrefix(s, prefix) ==
  IF IsPrefix(prefix, s) THEN SubSeq(s, Len(prefix) + 1, Len(s)) ELSE s

\* Without what follows the first - or +.
Core(v) ==
  LET at == SelectInSeq(v, LAMBDA ch : ch \in {"-", "+"})
  IN  IF at = 0 THEN v ELSE SubSeq(v, 1, at - 1)

\* The parts of strings.SplitN(v, ".", 3): the third keeps its dots.
Parts(v) ==
  LET first == SelectInSeq(v, LAMBDA ch : ch = ".")
      second == SelectInSubSeq(v, first + 1, Len(v), LAMBDA ch : ch = ".")
  IN  IF first = 0 THEN << v >>
      ELSE IF second = 0
      THEN << SubSeq(v, 1, first - 1), SubSeq(v, first + 1, Len(v)) >>
      ELSE << SubSeq(v, 1, first - 1), SubSeq(v, first + 1, second - 1),
              SubSeq(v, second + 1, Len(v)) >>

\* The digits of a part, whatever stands between them, as an int.
Number(part) ==
  FoldLeft(LAMBDA n, ch : IF IsDigit(ch) THEN Wrap(10 * n + Digit(ch)) ELSE n,
           0, part)

\* parseSemverParts: what is not there is zero.
SemverParts(v) ==
  LET parts == Parts(Core(v))
  IN  [ i \in 1 .. 3 |-> IF i \in DOMAIN parts THEN Number(parts[i]) ELSE 0 ]

\* Mutant: any smaller part makes the version smaller.
Less_AnyPart(a, b) == \E i \in 1 .. 3 : a[i] < b[i]

\* compareSemver: the first part that differs decides.
Less(a, b) ==
  \E i \in 1 .. 3 : a[i] < b[i] /\ \A j \in 1 .. i - 1 : a[j] = b[j]

Prefixed == << << ">", "=" >>, << "<", "=" >>, << ">" >>, << "<" >>, << "=" >> >>

\* semverMatch: version and constraint are texts.
SemverMatch(version, constraint) ==
  LET at == SelectInSeq(Prefixed, LAMBDA p : IsPrefix(p, constraint))
      op == IF at = 0 THEN << "=" >> ELSE Prefixed[at]
      rest == IF at = 0 THEN constraint ELSE TrimPrefix(constraint, op)
      spaced == SelectInSeq(rest, LAMBDA ch : ch # " ")
      target == IF at = 0 \/ spaced = 0 THEN rest
                ELSE SubSeq(rest, spaced, Len(rest))
      have == SemverParts(TrimPrefix(version, << "v" >>))
      want == SemverParts(TrimPrefix(target, << "v" >>))
  IN  CASE op = << ">", "=" >> -> ~ Less(have, want)
        [] op = << "<", "=" >> -> ~ Less(want, have)
        [] op = << ">" >> -> Less(want, have)
        [] op = << "<" >> -> Less(have, want)
        [] op = << "=" >> -> have = want

-----------------------------------------------------------------------------
(* Conditions *)

Operators == {"equals", "not_equals", "in", "not_in", "contains", "starts_with",
              "ends_with", "greater_than", "less_than", "regex", "semver_match"}

\* resolveAttribute: an empty subject, environment or tenant is absent.
Resolve(attribute, context) ==
  CASE attribute.root \in {"subjectId", "environment", "tenantId"} ->
         IF context[attribute.root] = << >> THEN Absent
                                            ELSE Str(context[attribute.root])
    [] attribute.root = "attributes" -> context.attributes[attribute.name]
    [] OTHER -> Absent

Equals(v, w) == Text(v) = Text(w)

In(v, list) ==
  list.type = "list" /\ \E i \in DOMAIN list.items : Equals(v, list.items[i])

HasInside(a, b) == \E i \in 1 .. Len(a) + 1 : IsPrefix(b, SubSeq(a, i, Len(a)))

RegexMatch(a, pattern) ==
  Len(pattern) <= MaxPattern /\ Compiles(pattern) /\ Accepts(pattern, a)

\* A condition of an attribute that is not there never matches; an operator
\* of no such name neither.
EvaluateCondition(condition, context) ==
  LET v == Resolve(condition.attribute, context)
      w == condition.value
      op == condition.operator
  IN  /\ v # Absent
      /\ \/ op = "equals" /\ Equals(v, w)
         \/ op = "not_equals" /\ ~ Equals(v, w)
         \/ op = "in" /\ In(v, w)
         \/ op = "not_in" /\ ~ In(v, w)
         \/ op = "contains" /\ HasInside(Text(v), Text(w))
         \/ op = "starts_with" /\ IsPrefix(Text(w), Text(v))
         \/ op = "ends_with" /\ IsSuffix(Text(w), Text(v))
         \/ op = "greater_than" /\ IsNumber(v) /\ IsNumber(w) /\ v.number > w.number
         \/ op = "less_than" /\ IsNumber(v) /\ IsNumber(w) /\ v.number < w.number
         \/ op = "regex" /\ RegexMatch(Text(v), Text(w))
         \/ op = "semver_match" /\ SemverMatch(Text(v), Text(w))

AllConditionsMatch(conditions, context) ==
  \A i \in DOMAIN conditions : EvaluateCondition(conditions[i], context)

-----------------------------------------------------------------------------
(* The rules asked about *)

NoQuestion == << >>

\* The conditions of the question with their values read as type.
Conditions(q, type) ==
  [ i \in DOMAIN q.conditions |->
      [q.conditions[i] EXCEPT !.value = ReadAs(type, @)] ]

\* The request arrives as JSON.
Context(q) ==
  [q.context EXCEPT !.attributes =
     [ name \in AttributeNames |-> ReadAs("float", @[name]) ]]

RulesInit == question = NoQuestion /\ answer = FALSE /\ fromFile = FALSE

\* The rule is evaluated for a flag of a persistence module and for the same
\* flag of a file.
EvaluateRule ==
  /\ question = NoQuestion
  /\ \E q \in Questions :
       /\ question' = q
       /\ answer' = AllConditionsMatch(Conditions(q, "float"), Context(q))
       /\ fromFile' = AllConditionsMatch(Conditions(q, "int"), Context(q))

RulesSpec == RulesInit /\ [][EvaluateRule]_rulesVars

-----------------------------------------------------------------------------
(* Properties *)

ComparesNumbers(c) == c.operator \in {"greater_than", "less_than"}

\* A rule means the same in a file and in a module, except that numbers of a
\* million and more (ExpFrom) are printed differently there: the two agree
\* unless a condition compares the text of such a number (protoToFlag,
\* persistence.go:126; equals, rules.go:76).
FileAndStoreAgree ==
  question # NoQuestion =>
    \/ answer = fromFile
    \/ \E i \in DOMAIN question.conditions :
         /\ ~ ComparesNumbers(question.conditions[i])
         /\ \E n \in Numbers(question.conditions[i].value) : n >= ExpFrom

\* What a comparison of two written values of one type, a string or a number,
\* should say.
Comparison(op, v, w) ==
  CASE op = "equals" -> v = w
    [] op = "not_equals" -> v # w
    [] op = "greater_than" -> v.number > w.number
    [] op = "less_than" -> v.number < w.number

\* A comparison of numbers, or of strings, from a module is exact: equals,
\* not_equals, greater_than and less_than say of the attribute and the value
\* what they say of the two as they were written, however each was converted,
\* printed and compared (rules.go:75-77, 138-167).
ComparisonsAreExact ==
  question # NoQuestion /\ Len(question.conditions) = 1 =>
    LET c == question.conditions[1]
        v == IF c.attribute.root = "attributes"
             THEN question.context.attributes[c.attribute.name] ELSE Absent
    IN  \/ c.operator \in {"equals", "not_equals"}
             /\ v.type = c.value.type /\ v.type \in {"string", "number"}
        \/ ComparesNumbers(c) /\ v.type = "number" /\ c.value.type = "number"
        => answer = Comparison(c.operator, v, c.value)

\* The order of two numerals, however long.
Stripped(s) ==
  LET at == SelectInSeq(s, LAMBDA ch : ch # "0")
  IN  IF at = 0 THEN << >> ELSE SubSeq(s, at, Len(s))

Smaller(s, t) ==
  LET m == Stripped(s)
      n == Stripped(t)
  IN  \/ Len(m) < Len(n)
      \/ /\ Len(m) = Len(n)
         /\ \E i \in DOMAIN m : /\ Digit(m[i]) < Digit(n[i])
                                 /\ \A j \in 1 .. i - 1 : m[j] = n[j]

PartOf(v, i) == IF i \in DOMAIN v THEN v[i] ELSE << >>

Older(v, w) ==
  \E i \in 1 .. 3 :
    /\ Smaller(PartOf(v, i), PartOf(w, i))
    /\ \A j \in 1 .. i - 1 : Stripped(PartOf(v, j)) = Stripped(PartOf(w, j))

\* A numeral of an int.
FitsInt(s) == ~ Smaller(Decimal[IntMax], s)

Ordinary(v) == Len(v) <= 3 /\ \A i \in DOMAIN v : FitsInt(v[i])

\* A version of one to three numerals, and how it is written: with dots, a v
\* before it or not, and a pre-release or a build after it or not.
Ciphers == { Chars[d + 1] : d \in 0 .. 9 }

IsVersion(v) ==
  /\ Len(v) \in 1 .. 3 /\ DOMAIN v = 1 .. Len(v)
  /\ \A i \in DOMAIN v : v[i] \in Seq(Ciphers) /\ v[i] # << >>

Dotted(v) ==
  CASE Len(v) = 1 -> v[1]
    [] Len(v) = 2 -> v[1] \o (<< "." >> \o v[2])
    [] Len(v) = 3 -> v[1] \o (<< "." >> \o (v[2] \o (<< "." >> \o v[3])))

Spells(text, v) ==
  \E lead \in { << >>, << "v" >> } :
    LET body == lead \o Dotted(v)
    IN  /\ IsPrefix(body, text)
        /\ Len(body) < Len(text) => text[Len(body) + 1] \in {"-", "+"}

Sign(op) ==
  CASE op = ">=" -> << ">", "=" >>
    [] op = "<=" -> << "<", "=" >>
    [] op = ">" -> << ">" >>
    [] op = "<" -> << "<" >>
    [] op = "=" -> << "=" >>

\* How a constraint is written: spaces may follow its sign, and = may be left
\* out.
SpellsConstraint(text, op, v) ==
  \/ op = "=" /\ Spells(text, v)
  \/ \E n \in Len(Sign(op)) .. Len(text) :
       /\ IsPrefix(Sign(op), text)
       /\ \A i \in Len(Sign(op)) + 1 .. n : text[i] = " "
       /\ Spells(SubSeq(text, n + 1, Len(text)), v)

ASSUME VersionsAssumption ==
  \A q \in Questions : \A s \in q.versions :
    Ordinary(s.version) /\ Ordinary(s.target) =>
      /\ IsVersion(s.version) /\ IsVersion(s.target)
      /\ s.op \in {">=", "<=", ">", "<", "="}
      /\ Len(q.conditions) = 1
      /\ LET c == q.conditions[1]
             v == q.context.attributes[c.attribute.name]
         IN  /\ c.attribute.root = "attributes" /\ c.operator = "semver_match"
             /\ v.type = "string" /\ v.text \in Seq(STRING)
             /\ c.value.type = "string" /\ c.value.text \in Seq(STRING)
             /\ Spells(v.text, s.version)
             /\ SpellsConstraint(c.value.text, s.op, s.target)

\* Versions of up to three numbers are ordered by their numbers: a constraint
\* is met exactly if it is met part by part, the first part that differs
\* deciding, a missing part being zero, and whatever pre-release or build
\* follows (semverMatch, rules.go:193-244).  It says nothing of a fourth part,
\* whose digits are joined to the third, nor of a number beyond an int.
SemverIsNumericOrder ==
  question # NoQuestion =>
    \A s \in question.versions :
      Ordinary(s.version) /\ Ordinary(s.target) =>
        answer = CASE s.op = ">=" -> ~ Older(s.version, s.target)
                   [] s.op = "<=" -> ~ Older(s.target, s.version)
                   [] s.op = ">" -> Older(s.target, s.version)
                   [] s.op = "<" -> Older(s.version, s.target)
                   [] s.op = "=" -> ~ Older(s.version, s.target)
                                      /\ ~ Older(s.target, s.version)

=============================================================================
