------------------------------ MODULE MCRules ------------------------------
(***************************************************************************)
(* TargetingRules over every operator and small values, for TLC.           *)
(***************************************************************************)
EXTENDS TargetingRules

MCAccepts(pattern, text) == HasInside(text, pattern)
MCCompiles(pattern) == ~ HasInside(pattern, << "(" >>)

MCNames == {"plan"}

\* ExpFrom is 10, so that 12 and 20 are printed in exponent form.
Literals ==
  { Str(<< >>), Str(<< "5" >>), Str(<< "1", "2" >>), Str(<< "1", "(" >>),
    Str(<< "b", "a", "c" >>), Str(<< "a", "c" >>), Str(<< "b", "a" >>),
    Num("number", 0), Num("number", 5), Num("number", 9), Num("number", 10),
    Num("number", 12), Num("number", 20), Nil,
    List(<< >>), List(<< Str(<< "b", "a" >>), Num("number", 5) >>),
    List(<< Str(<< "a", "c" >>), Num("number", 12) >>) }

Plan == [root |-> "attributes", name |-> "plan"]

ContextOf(v) ==
  [subjectId |-> << "b", "a" >>, environment |-> << >>, tenantId |-> << "5" >>,
   attributes |-> [name \in MCNames |-> v]]

Cond(attribute, op, w) == [attribute |-> attribute, operator |-> op, value |-> w]

Question(conditions, v, versions) ==
  [conditions |-> conditions, context |-> ContextOf(v), versions |-> versions]

\* Every operator, and one of no such name, on an attribute, present or not.
OneCondition ==
  { Question(<< Cond(Plan, op, w) >>, v, {}) :
      op \in Operators \cup {"like"}, v \in Literals \cup {Absent},
      w \in Literals }

\* The fields of the request, and rules of two conditions.
Fields ==
  { Question(<< Cond([root |-> root, name |-> "plan"], op, w),
            Cond(Plan, "greater_than", Num("number", n)) >>,
         Num("number", 10), {}) :
      root \in {"subjectId", "environment", "tenantId", "attributes", "device"},
      op \in {"equals", "not_in", "ends_with"}, n \in {9, 12},
      w \in { Str(<< "b", "a" >>), Num("number", 5),
              List(<< Str(<< "b", "a" >>), Num("number", 10) >>) } }

\* IntMax is 31: a part of 40 wraps around.
Numerals == { << "0" >>, << "2" >>, << "0", "9" >>, << "1", "0" >>, << "4", "0" >> }

Versions ==
  { << a >> : a \in Numerals }
  \cup { << << "2" >>, a >> : a \in Numerals }
  \cup { << << "2" >>, << "0" >>, a >> : a \in Numerals }
  \cup { << << "2" >>, << "0" >>, << "1" >>, << "2" >> >> }

Spelt(version) ==
  FlattenSeq([ i \in DOMAIN version |->
                 (IF i = 1 THEN << >> ELSE << "." >>) \o version[i] ])

OpTexts == [ op \in {">=", "<=", ">", "<", "="} |->
  CASE op = ">=" -> << ">", "=", " ", "v" >>
    [] op = "<=" -> << "<", "=" >>
    [] op = ">" -> << ">" >>
    [] op = "<" -> << "<", " " >>
    [] op = "=" -> << >> ]

SemverQuestions ==
  { Question(<< Cond(Plan, "semver_match", Str(OpTexts[op] \o Spelt(t) \o tail)) >>,
         Str(<< "v" >> \o Spelt(v) \o << "+", "3" >>),
         { [op |-> op, version |-> v, target |-> t] }) :
      op \in DOMAIN OpTexts, v \in Versions, t \in Versions,
      tail \in { << >>, << "-", "1", ".", "7" >> } }

MCQuestions == OneCondition \cup Fields \cup SemverQuestions

=============================================================================
