------------------------- MODULE PersistenceProofs -------------------------
(***************************************************************************)
(* Proofs about the persistence modules and their callers, for any set of  *)
(* clients, any tenants, flags and pages, any number of calls and any      *)
(* script of them; and about the pages of their lists, for integers of any *)
(* width and pages of any size.                                            *)
(***************************************************************************)
EXTENDS PersistenceClients, FiniteSetTheorems, SequenceTheorems, TLAPS

-----------------------------------------------------------------------------
(* Division *)

\* Division by a positive number.
LEMMA DivMod ==
  ASSUME NEW a \in Int, NEW b \in Nat \ {0}
  PROVE  /\ a \div b \in Int /\ a % b \in 0 .. b - 1
         /\ a = b * (a \div b) + (a % b)
OBVIOUS

\* They have names of their own here, for leaves that must not see the division.
LEMMA Quotient ==
  ASSUME NEW a \in Int, NEW b \in Nat \ {0}
  PROVE  \E q \in Int, r \in 0 .. b - 1 :
           q = a \div b /\ r = a % b /\ a = b * q + r
BY DivMod

\* Quotient and remainder are the only ones.
LEMMA Unique ==
  ASSUME NEW b \in Nat \ {0}, NEW q \in Int, NEW r \in 0 .. b - 1,
         NEW p \in Int, NEW s \in 0 .. b - 1, b * q + r = b * p + s
  PROVE  q = p /\ r = s
<1>1. b * (q - p) = s - r
  OBVIOUS
<1>2. ASSUME q - p >= 1
      PROVE  FALSE
  <2>1. b * (q - p) >= b
    BY <1>2
  <2> QED
    BY <1>1, <2>1
<1>3. ASSUME p - q >= 1
      PROVE  FALSE
  <2>1. b * (p - q) >= b
    BY <1>3
  <2> QED
    BY <1>1, <2>1
<1> QED
  BY <1>2, <1>3

\* An integer of the module is itself.
LEMMA Fixed ==
  ASSUME NEW n \in Int, -Half <= n, n < Half
  PROVE  Int32(n) = n
<1>1. Half \in Nat \ {0}
  BY PagingAssumption
<1>2. PICK w \in Nat \ {0} : w = 2 * Half
  BY <1>1
<1>3. PICK m \in 0 .. w - 1 : m = n + Half
  BY <1>1, <1>2
<1>4. m % w \in 0 .. w - 1 /\ m \div w \in Int /\ m = w * (m \div w) + (m % w)
  BY DivMod
<1>5. m % w = m
  BY <1>4, Unique, w * 0 = 0
<1> QED
  BY <1>1, <1>2, <1>3, <1>5 DEF Int32

-----------------------------------------------------------------------------
(* The pages of a list *)

\* What a page holds never exceeds the bound of the module.
LEMMA PerPageType == \A n \in Int : PerPage(n) \in 1 .. MaxPerPage
BY PagingAssumption DEF PerPage

\* A page that fits begins where it should.
LEMMA OffsetFits ==
  ASSUME NEW page \in Nat \ {0}, NEW per \in 1 .. MaxPerPage, Fits(page, per)
  PROVE  Offset(page, per) = per * (page - 1)
<1>1. (page - 1) * per = page * per - per /\ (page - 1) * per = per * (page - 1)
  BY PagingAssumption
<1>2. (page - 1) * per \in Nat
  BY PagingAssumption
<1>3. (page - 1) * per < Half
  BY <1>1, PagingAssumption DEF Fits
<1> QED
  BY <1>1, <1>2, <1>3, Fixed, PagingAssumption DEF Offset

\* The count of pages a module answers is the one the handlers compute, for a
\* list of any length (pagination.Info, writePaginatedResponse).
THEOREM CountsAgree ==
  ASSUME NEW per \in Nat \ {0}, NEW count \in Nat
  PROVE  TotalPages(per, count) = HandlerPages(per, count)
<1>1. PICK T \in Int, R \in 0 .. per - 1 :
        T = count \div per /\ R = count % per /\ count = per * T + R
  BY Quotient
<1>2. PICK n \in Int : n = count + per - 1
  OBVIOUS
<1>3. n \div per \in Int /\ n % per \in 0 .. per - 1
      /\ n = per * (n \div per) + (n % per)
  BY DivMod
<1>4. CASE R = 0
  <2>1. per * (n \div per) + (n % per) = per * T + (per - 1)
    BY <1>1, <1>2, <1>3, <1>4
  <2>2. n \div per = T
    BY <1>3, <2>1, Unique
  <2> QED
    BY <1>1, <1>2, <1>4, <2>2 DEF TotalPages, HandlerPages
<1>5. CASE R > 0
  <2>1. per * (T + 1) = per * T + per
    OBVIOUS
  <2>2. per * (n \div per) + (n % per) = per * (T + 1) + (R - 1)
    BY <1>1, <1>2, <1>3, <2>1
  <2>3. n \div per = T + 1
    BY <1>3, <1>5, <2>2, Unique
  <2> QED
    BY <1>1, <1>2, <1>5, <2>3 DEF TotalPages, HandlerPages
<1> QED
  BY <1>1, <1>4, <1>5

\* Whoever reads the pages of a list one after the other sees every item once:
\* each item is on one of the pages counted, and on no other page whose
\* arithmetic fits, if the list itself does.
THEOREM EveryItemOnOnePage ==
  ASSUME NEW per \in 1 .. MaxPerPage, NEW count \in Nat, count + per <= Half,
         NEW i \in 1 .. count
  PROVE  \E page \in 1 .. TotalPages(per, count) :
           /\ Fits(page, per)
           /\ \A p \in Nat \ {0} : Fits(p, per) =>
                (i \in Shown(p, per, count) <=> p = page)
<1>1. per \in Nat \ {0} /\ Half \in Nat
  BY PagingAssumption
<1>2. PICK q \in Int, r \in 0 .. per - 1 : i - 1 = per * q + r
  <2>1. i - 1 \in Int
    OBVIOUS
  <2>2. PICK n \in Int : n = i - 1
    BY <2>1
  <2>3. PICK q \in Int, r \in 0 .. per - 1 : n = per * q + r
    BY <1>1, Quotient
  <2> QED
    BY <2>2, <2>3
<1>3. PICK T \in Int, R \in 0 .. per - 1 :
        T = count \div per /\ R = count % per /\ count = per * T + R
  BY <1>1, Quotient
<1>4. q >= 0
  <2> SUFFICES ASSUME q <= -1
               PROVE  FALSE
    BY <1>2
  <2>1. per * q <= -per
    BY <1>1, <1>2
  <2> QED
    BY <1>1, <1>2, <2>1
<1>5. q + 1 <= TotalPages(per, count)
  <2>1. per * q < per * T + R
    BY <1>1, <1>2, <1>3
  <2>2. CASE R = 0
    <3>1. per * (T - q) > 0
      BY <1>1, <1>2, <1>3, <2>1, <2>2
    <3>2. T - q > 0
      BY <1>1, <1>2, <1>3, <3>1
    <3> QED
      BY <1>1, <1>2, <1>3, <2>2, <3>2 DEF TotalPages
  <2>3. CASE R > 0
    <3>1. per * (T + 1 - q) > 0
      BY <1>1, <1>2, <1>3, <2>1
    <3>2. T + 1 - q > 0
      BY <1>1, <1>2, <1>3, <3>1
    <3> QED
      BY <1>1, <1>2, <1>3, <2>3, <3>2 DEF TotalPages
  <2> QED
    BY <1>3, <2>2, <2>3
<1>6. Fits(q + 1, per)
  <2>1. (q + 1) * per = per * q + per
    BY <1>1, <1>2
  <2> QED
    BY <1>1, <1>2, <2>1 DEF Fits
<1>7. ASSUME NEW p \in Nat \ {0}, Fits(p, per)
      PROVE  i \in Shown(p, per, count) <=> p = q + 1
  <2>1. PICK o \in Int : o = per * (p - 1) /\ Offset(p, per) = o
    BY <1>1, <1>7, OffsetFits
  <2>2. i \in Shown(p, per, count) <=> i - 1 - o \in 0 .. per - 1
    BY <1>1, <2>1 DEF Shown
  <2>3. ASSUME i - 1 - o \in 0 .. per - 1
        PROVE  p = q + 1
    <3>1. PICK s \in 0 .. per - 1 : s = i - 1 - o
      BY <2>3
    <3>2. per * q + r = per * (p - 1) + s
      BY <1>1, <1>2, <2>1, <3>1
    <3> QED
      BY <1>1, <3>2, Unique
  <2>4. ASSUME p = q + 1
        PROVE  i - 1 - o \in 0 .. per - 1
    BY <1>1, <1>2, <2>1, <2>4
  <2> QED
    BY <2>2, <2>3, <2>4
<1>8. q + 1 \in 1 .. TotalPages(per, count)
  <2>1. TotalPages(per, count) \in Int
    BY <1>3 DEF TotalPages
  <2> QED
    BY <1>4, <1>5, <2>1
<1> QED
  BY <1>6, <1>7, <1>8

-----------------------------------------------------------------------------
(* Sequences *)

\* Sequences of one and of two.
LEMMA Single ==
  ASSUME NEW S, NEW s \in Seq(S), Len(s) = 1
  PROVE  s = << s[1] >> /\ s[1] \in S
<1>1. s[1] \in S
  BY ElementOfSeq
<1>2. << s[1] >> \in Seq(S) /\ Len(<< s[1] >>) = 1
  BY <1>1
<1>3. \A i \in 1 .. Len(s) : s[i] = << s[1] >>[i]
  OBVIOUS
<1>4. s = << s[1] >>
  BY <1>2, <1>3, SeqEqual
<1> QED
  BY <1>1, <1>4

\* The same of two elements.
LEMMA Double ==
  ASSUME NEW S, NEW s \in Seq(S), Len(s) = 2
  PROVE  s = << s[1], s[2] >> /\ s[1] \in S /\ s[2] \in S
<1>1. s[1] \in S /\ s[2] \in S
  BY ElementOfSeq
<1>2. << s[1], s[2] >> \in Seq(S) /\ Len(<< s[1], s[2] >>) = 2
  BY <1>1
<1>3. \A i \in 1 .. Len(s) : s[i] = << s[1], s[2] >>[i]
  OBVIOUS
<1>4. s = << s[1], s[2] >>
  BY <1>2, <1>3, SeqEqual
<1> QED
  BY <1>1, <1>4

\* A join is known by its parts.
LEMMA Joined ==
  ASSUME NEW S, NEW s \in Seq(S), NEW t \in Seq(S), NEW u \in Seq(S),
         Len(u) = Len(s) + Len(t),
         \A i \in 1 .. Len(s) : u[i] = s[i],
         \A i \in 1 .. Len(t) : u[Len(s) + i] = t[i]
  PROVE  s \o t = u
<1>1. /\ s \o t \in Seq(S) /\ Len(s \o t) = Len(s) + Len(t)
      /\ \A i \in 1 .. Len(s) + Len(t) :
           (s \o t)[i] = IF i <= Len(s) THEN s[i] ELSE t[i - Len(s)]
  BY ConcatProperties
<1>2. ASSUME NEW i \in 1 .. Len(s \o t)
      PROVE  (s \o t)[i] = u[i]
  <2>1. CASE i <= Len(s)
    BY <1>1, <2>1
  <2>2. CASE i > Len(s)
    <3>1. i - Len(s) \in 1 .. Len(t) /\ Len(s) + (i - Len(s)) = i
      BY <1>1, <2>2
    <3> QED
      BY <3>1, <1>1, <2>2
  <2> QED
    BY <2>1, <2>2, <1>1
<1> QED
  BY <1>1, <1>2, SeqEqual

\* A reference: the tenant, and the id.
LEMMA HeadAndTail ==
  ASSUME NEW a, NEW b
  PROVE  Head(<<a, b>>) = a /\ Tail(<<a, b>>) = <<b>>
OBVIOUS

\* The joins the names of documents are made of.
LEMMA Join11 ==
  ASSUME NEW a, NEW x
  PROVE  <<a>> \o <<x>> = <<a, x>>
<1> DEFINE T == {a, x}  s == <<a>>  t == <<x>>  u == <<a, x>>
<1>1. s \in Seq(T) /\ t \in Seq(T) /\ u \in Seq(T)
  OBVIOUS
<1>2. Len(s) = 1 /\ Len(t) = 1 /\ Len(u) = 2
  OBVIOUS
<1>3. u[1] = s[1] /\ u[2] = t[1]
  OBVIOUS
<1> HIDE DEF T, s, t, u
<1>4. /\ \A i \in 1 .. Len(s) : u[i] = s[i]
      /\ \A i \in 1 .. Len(t) : u[Len(s) + i] = t[i]
      /\ Len(u) = Len(s) + Len(t)
  BY <1>2, <1>3
<1>5. s \o t = u
  BY <1>1, <1>4, Joined
<1> QED
  BY <1>5 DEF s, t, u

\* One element before two,
LEMMA Join12 ==
  ASSUME NEW a, NEW x, NEW y
  PROVE  <<a>> \o <<x, y>> = <<a, x, y>>
<1> DEFINE T == {a, x, y}  s == <<a>>  t == <<x, y>>  u == <<a, x, y>>
<1>1. s \in Seq(T) /\ t \in Seq(T) /\ u \in Seq(T)
  OBVIOUS
<1>2. Len(s) = 1 /\ Len(t) = 2 /\ Len(u) = 3
  OBVIOUS
<1>3. u[1] = s[1] /\ u[2] = t[1] /\ u[3] = t[2]
  OBVIOUS
<1> HIDE DEF T, s, t, u
<1>4. /\ \A i \in 1 .. Len(s) : u[i] = s[i]
      /\ \A i \in 1 .. Len(t) : u[Len(s) + i] = t[i]
      /\ Len(u) = Len(s) + Len(t)
  BY <1>2, <1>3
<1>5. s \o t = u
  BY <1>1, <1>4, Joined
<1> QED
  BY <1>5 DEF s, t, u

\* one after two,
LEMMA Join21 ==
  ASSUME NEW a, NEW b, NEW x
  PROVE  <<a, b>> \o <<x>> = <<a, b, x>>
<1> DEFINE T == {a, b, x}  s == <<a, b>>  t == <<x>>  u == <<a, b, x>>
<1>1. s \in Seq(T) /\ t \in Seq(T) /\ u \in Seq(T)
  OBVIOUS
<1>2. Len(s) = 2 /\ Len(t) = 1 /\ Len(u) = 3
  OBVIOUS
<1>3. u[1] = s[1] /\ u[2] = s[2] /\ u[3] = t[1]
  OBVIOUS
<1> HIDE DEF T, s, t, u
<1>4. /\ \A i \in 1 .. Len(s) : u[i] = s[i]
      /\ \A i \in 1 .. Len(t) : u[Len(s) + i] = t[i]
      /\ Len(u) = Len(s) + Len(t)
  BY <1>2, <1>3
<1>5. s \o t = u
  BY <1>1, <1>4, Joined
<1> QED
  BY <1>5 DEF s, t, u

\* and two before two.
LEMMA Join22 ==
  ASSUME NEW a, NEW b, NEW x, NEW y
  PROVE  <<a, b>> \o <<x, y>> = <<a, b, x, y>>
<1> DEFINE T == {a, b, x, y}  s == <<a, b>>  t == <<x, y>>  u == <<a, b, x, y>>
<1>1. s \in Seq(T) /\ t \in Seq(T) /\ u \in Seq(T)
  OBVIOUS
<1>2. Len(s) = 2 /\ Len(t) = 2 /\ Len(u) = 4
  OBVIOUS
<1>3. u[1] = s[1] /\ u[2] = s[2] /\ u[3] = t[1] /\ u[4] = t[2]
  OBVIOUS
<1> HIDE DEF T, s, t, u
<1>4. /\ \A i \in 1 .. Len(s) : u[i] = s[i]
      /\ \A i \in 1 .. Len(t) : u[Len(s) + i] = t[i]
      /\ Len(u) = Len(s) + Len(t)
  BY <1>2, <1>3
<1>5. s \o t = u
  BY <1>1, <1>4, Joined
<1> QED
  BY <1>5 DEF s, t, u

-----------------------------------------------------------------------------
(* Names *)

\* What the names are made of.
LEMMA OnePiece ==
  ASSUME NEW kind, NEW name, Named(kind, name), kind # "assignments"
  PROVE  \E n \in Texts : name = << <<n>> >>
<1>1. name \in Seq(Seq(Texts)) /\ Len(name) = 1 /\ Len(name[1]) = 1
  BY DEF Named
<1>2. name[1] \in Seq(Texts) /\ name = << name[1] >>
  BY <1>1, Single
<1>3. name[1][1] \in Texts /\ name[1] = << name[1][1] >>
  BY <1>1, <1>2, Single
<1> QED
  BY <1>2, <1>3

\* An assignment is named by a subject and a flag.
LEMMA TwoPieces ==
  ASSUME NEW kind, NEW name, Named(kind, name), kind = "assignments"
  PROVE  \E s, f \in Texts : name = << <<s>>, <<f>> >>
<1>1. /\ name \in Seq(Seq(Texts)) /\ Len(name) = 2
      /\ Len(name[1]) = 1 /\ Len(name[2]) = 1
  BY DEF Named
<1>2. /\ name[1] \in Seq(Texts) /\ name[2] \in Seq(Texts)
      /\ name = << name[1], name[2] >>
  BY <1>1, Double
<1>3. /\ name[1][1] \in Texts /\ name[1] = << name[1][1] >>
      /\ name[2][1] \in Texts /\ name[2] = << name[2][1] >>
  BY <1>1, <1>2, Single
<1> QED
  BY <1>2, <1>3

\* What a name of one part, and of two, becomes.
LEMMA KeyOfOne ==
  ASSUME NEW kind, NEW t, NEW n
  PROVE  /\ Pieces(<< <<n>> >>) = <<n>>
         /\ backend = "postgres" => Key(kind, t, << <<n>> >>) =
              IF kind = "apikeys" THEN << <<kind>>, <<n>> >>
                                  ELSE << <<kind>>, <<t>>, <<n>> >>
         /\ backend = "mongodb" =>
              Key(kind, t, << <<n>> >>) = << <<kind>>, <<t, n>> >>
         /\ backend = "redis" =>
              Key(kind, t, << <<n>> >>) = << <<t, kind, n>> >>
<1>1. Pieces(<< <<n>> >>) = <<n>>
  BY DEF Pieces
<1>2. ASSUME backend = "postgres"
      PROVE  Key(kind, t, << <<n>> >>) =
               IF kind = "apikeys" THEN << <<kind>>, <<n>> >>
                                   ELSE << <<kind>>, <<t>>, <<n>> >>
  <2>1. Key(kind, t, << <<n>> >>) =
          IF kind = "apikeys" THEN << <<kind>> >> \o << <<n>> >>
                              ELSE << <<kind>>, <<t>> >> \o << <<n>> >>
    BY <1>2 DEF Key
  <2>2. << <<kind>> >> \o << <<n>> >> = << <<kind>>, <<n>> >>
    BY Join11
  <2>3. << <<kind>>, <<t>> >> \o << <<n>> >> = << <<kind>>, <<t>>, <<n>> >>
    BY Join21
  <2> QED
    BY <2>1, <2>2, <2>3
<1>3. ASSUME backend = "mongodb"
      PROVE  Key(kind, t, << <<n>> >>) = << <<kind>>, <<t, n>> >>
  <2>1. Key(kind, t, << <<n>> >>) = << <<kind>>, <<t>> \o <<n>> >>
    BY <1>1, <1>3 DEF Key
  <2>2. <<t>> \o <<n>> = <<t, n>>
    BY Join11
  <2> QED
    BY <2>1, <2>2
<1>4. ASSUME backend = "redis"
      PROVE  Key(kind, t, << <<n>> >>) = << <<t, kind, n>> >>
  <2>1. Key(kind, t, << <<n>> >>) = << <<t, kind>> \o <<n>> >>
    BY <1>1, <1>4 DEF Key
  <2>2. <<t, kind>> \o <<n>> = <<t, kind, n>>
    BY Join21
  <2> QED
    BY <2>1, <2>2
<1> QED
  BY <1>1, <1>2, <1>3, <1>4

\* The key of an assignment, in each store.
LEMMA KeyOfTwo ==
  ASSUME NEW t, NEW s, NEW f
  PROVE  LET k == Key("assignments", t, << <<s>>, <<f>> >>)
         IN  /\ backend = "postgres" =>
                  k = << <<"assignments">>, <<t>>, <<s>>, <<f>> >>
             /\ backend = "mongodb" => k = << <<"assignments">>, <<t, s, f>> >>
             /\ backend = "redis" => k = << <<t, "assignments", s, f>> >>
<1> DEFINE k == Key("assignments", t, << <<s>>, <<f>> >>)
<1>1. Pieces(<< <<s>>, <<f>> >>) = <<s, f>>
  <2>1. Pieces(<< <<s>>, <<f>> >>) = <<s>> \o <<f>>
    BY DEF Pieces
  <2> QED
    BY <2>1, Join11
<1>2. ASSUME backend = "postgres"
      PROVE  k = << <<"assignments">>, <<t>>, <<s>>, <<f>> >>
  <2>1. k = << <<"assignments">>, <<t>> >> \o << <<s>>, <<f>> >>
    BY <1>2 DEF Key
  <2> QED
    BY <2>1, Join22
<1>3. ASSUME backend = "mongodb"
      PROVE  k = << <<"assignments">>, <<t, s, f>> >>
  <2>1. k = << <<"assignments">>, <<t>> \o <<s, f>> >>
    BY <1>1, <1>3 DEF Key
  <2> QED
    BY <2>1, Join12
<1>4. ASSUME backend = "redis"
      PROVE  k = << <<t, "assignments", s, f>> >>
  <2>1. k = << <<t, "assignments">> \o <<s, f>> >>
    BY <1>1, <1>4 DEF Key
  <2> QED
    BY <2>1, Join22
<1> QED
  BY <1>2, <1>3, <1>4

\* No two documents have one name, except API keys of Postgres.
LEMMA KeyInjective ==
  ASSUME backend \in Backends,
         NEW j \in Kinds, NEW t, NEW m, Named(j, m),
         NEW k \in Kinds, NEW u, NEW n, Named(k, n),
         Key(j, t, m) = Key(k, u, n)
  PROVE  j = k /\ m = n /\ ((backend = "postgres" /\ k = "apikeys") \/ t = u)
<1>1. \/ backend = "postgres" \/ backend = "mongodb" \/ backend = "redis"
  BY BackendsAssumption
<1>2. CASE j # "assignments" /\ k # "assignments"
  <2>1. PICK p, q : m = << <<p>> >> /\ n = << <<q>> >>
    BY <1>2, OnePiece
  <2>2. CASE backend = "postgres"
    <3>1. Key(j, t, m) = IF j = "apikeys" THEN << <<j>>, <<p>> >>
                                          ELSE << <<j>>, <<t>>, <<p>> >>
      BY <2>1, <2>2, KeyOfOne
    <3>2. Key(k, u, n) = IF k = "apikeys" THEN << <<k>>, <<q>> >>
                                          ELSE << <<k>>, <<u>>, <<q>> >>
      BY <2>1, <2>2, KeyOfOne
    <3> QED
      BY <2>1, <2>2, <3>1, <3>2
  <2>3. CASE backend = "mongodb"
    BY <2>1, <2>3, KeyOfOne
  <2>4. CASE backend = "redis"
    BY <2>1, <2>4, KeyOfOne
  <2> QED
    BY <1>1, <2>2, <2>3, <2>4
<1>3. CASE j = "assignments" /\ k = "assignments"
  <2>1. PICK p, q, r, s : m = << <<p>>, <<q>> >> /\ n = << <<r>>, <<s>> >>
    BY <1>3, TwoPieces
  <2>2. CASE backend = "postgres"
    BY <1>3, <2>1, <2>2, KeyOfTwo
  <2>3. CASE backend = "mongodb"
    BY <1>3, <2>1, <2>3, KeyOfTwo
  <2>4. CASE backend = "redis"
    BY <1>3, <2>1, <2>4, KeyOfTwo
  <2> QED
    BY <1>1, <2>2, <2>3, <2>4
<1>4. CASE j = "assignments" /\ k # "assignments"
  <2>1. PICK p, q, r : m = << <<p>>, <<q>> >> /\ n = << <<r>> >>
    BY <1>4, OnePiece, TwoPieces
  <2>2. CASE backend = "postgres"
    <3>1. Key(j, t, m) = << <<"assignments">>, <<t>>, <<p>>, <<q>> >>
      BY <1>4, <2>1, <2>2, KeyOfTwo
    <3>2. Key(k, u, n) = IF k = "apikeys" THEN << <<k>>, <<r>> >>
                                          ELSE << <<k>>, <<u>>, <<r>> >>
      BY <2>1, <2>2, KeyOfOne
    <3>3. CASE k = "apikeys"
      <4>1. << <<k>>, <<r>> >> # << <<"assignments">>, <<t>>, <<p>>, <<q>> >>
        BY <1>4
      <4> QED
        BY <3>1, <3>2, <3>3, <4>1
    <3>4. CASE k # "apikeys"
      <4>1. << <<k>>, <<u>>, <<r>> >>
              # << <<"assignments">>, <<t>>, <<p>>, <<q>> >>
        BY <1>4
      <4> QED
        BY <3>1, <3>2, <3>4, <4>1
    <3> QED
      BY <3>3, <3>4
  <2>3. CASE backend = "mongodb"
    BY <1>4, <2>1, <2>3, KeyOfOne, KeyOfTwo
  <2>4. CASE backend = "redis"
    BY <1>4, <2>1, <2>4, KeyOfOne, KeyOfTwo
  <2> QED
    BY <1>1, <2>2, <2>3, <2>4
<1>5. CASE j # "assignments" /\ k = "assignments"
  <2>1. PICK p, q, r : n = << <<p>>, <<q>> >> /\ m = << <<r>> >>
    BY <1>5, OnePiece, TwoPieces
  <2>2. CASE backend = "postgres"
    <3>1. Key(k, u, n) = << <<"assignments">>, <<u>>, <<p>>, <<q>> >>
      BY <1>5, <2>1, <2>2, KeyOfTwo
    <3>2. Key(j, t, m) = IF j = "apikeys" THEN << <<j>>, <<r>> >>
                                          ELSE << <<j>>, <<t>>, <<r>> >>
      BY <2>1, <2>2, KeyOfOne
    <3>3. CASE j = "apikeys"
      <4>1. << <<j>>, <<r>> >> # << <<"assignments">>, <<u>>, <<p>>, <<q>> >>
        BY <1>5
      <4> QED
        BY <3>1, <3>2, <3>3, <4>1
    <3>4. CASE j # "apikeys"
      <4>1. << <<j>>, <<t>>, <<r>> >>
              # << <<"assignments">>, <<u>>, <<p>>, <<q>> >>
        BY <1>5
      <4> QED
        BY <3>1, <3>2, <3>4, <4>1
    <3> QED
      BY <3>3, <3>4
  <2>3. CASE backend = "mongodb"
    BY <1>5, <2>1, <2>3, KeyOfOne, KeyOfTwo
  <2>4. CASE backend = "redis"
    BY <1>5, <2>1, <2>4, KeyOfOne, KeyOfTwo
  <2> QED
    BY <1>1, <2>2, <2>3, <2>4
<1> QED
  BY <1>2, <1>3, <1>4, <1>5

-----------------------------------------------------------------------------
(* Lists *)

\* A function from 1 .. n is a sequence.
LEMMA IsSequence ==
  ASSUME NEW S, NEW n \in Nat, NEW s \in [1 .. n -> S]
  PROVE  s \in Seq(S) /\ Len(s) = n
<1>1. s \in Seq(S)
  OBVIOUS
<1>2. DOMAIN s = 1 .. n
  OBVIOUS
<1>3. DOMAIN s = 1 .. Len(s) /\ Len(s) \in Nat
  BY <1>1
<1>4. Len(s) = n
  BY <1>2, <1>3
<1> QED
  BY <1>1, <1>4

\* An image of a finite set is finite.
LEMMA Image ==
  ASSUME NEW S, IsFiniteSet(S), NEW f, NEW T, T = { f[x] : x \in S }
  PROVE  IsFiniteSet(T) /\ Cardinality(T) \in Nat
<1> DEFINE g == [x \in S |-> f[x]]
<1>1. g \in Surjection(S, T)
  BY DEF Surjection
<1> QED
  BY <1>1, FS_Surjection, FS_CardinalityType

\* A finite set has as many elements as an injective image of it.
LEMMA SameCount ==
  ASSUME NEW S, IsFiniteSet(S), NEW f, NEW T, T = { f[x] : x \in S },
         \A x, y \in S : f[x] = f[y] => x = y
  PROVE  IsFiniteSet(T) /\ Cardinality(T) = Cardinality(S)
<1> DEFINE g == [x \in S |-> f[x]]
<1>1. g \in Surjection(S, T)
  BY DEF Surjection
<1>2. g \in Injection(S, T)
  BY DEF Injection, IsInjective
<1>3. g \in Bijection(S, T)
  BY <1>1, <1>2 DEF Bijection
<1> HIDE DEF g
<1>4. ExistsBijection(S, T)
  BY <1>3 DEF ExistsBijection
<1> QED
  BY <1>4, FS_Bijection

\* The elements of S before x, and all of them in order, by rank f.
Before(S, f, x) == { y \in S : f[y] < f[x] }

Ranked(S, f) ==
  [i \in 1 .. Cardinality(S) |->
     CHOOSE x \in S : Cardinality(Before(S, f, x)) = i - 1]

\* In a finite set ordered by an injective rank there is one element for every
\* count of those before it.
LEMMA Counted ==
  ASSUME NEW S, IsFiniteSet(S), NEW f \in [S -> Int],
         \A x, y \in S : f[x] = f[y] => x = y
  PROVE  /\ Cardinality(S) \in Nat
         /\ \A x \in S :
              Cardinality(Before(S, f, x)) \in 0 .. Cardinality(S) - 1
         /\ \A x, y \in S :
              Cardinality(Before(S, f, x)) = Cardinality(Before(S, f, y))
                => x = y
         /\ \A i \in 0 .. Cardinality(S) - 1 :
              \E x \in S : Cardinality(Before(S, f, x)) = i
<1> DEFINE n == Cardinality(S)
           before == [x \in S |-> Before(S, f, x)]
           count == [x \in S |-> Cardinality(before[x])]
<1>0. /\ \A x \in S : before[x] = Before(S, f, x)
      /\ \A x \in S : count[x] = Cardinality(before[x])
      /\ DOMAIN count = S /\ count = [x \in S |-> count[x]]
  OBVIOUS
<1> HIDE DEF before, count
<1>1. n \in Nat
  BY FS_CardinalityType
<1>2. ASSUME NEW x \in S
      PROVE  /\ IsFiniteSet(before[x]) /\ count[x] = Cardinality(before[x])
             /\ count[x] \in 0 .. n - 1 /\ count[x] \in Int
             /\ Cardinality(before[x] \cup {x}) = count[x] + 1
  <2>1. before[x] \in SUBSET (S \ {x})
    BY <1>0 DEF Before
  <2>2. IsFiniteSet(S \ {x}) /\ Cardinality(S \ {x}) = n - 1
    BY FS_RemoveElement
  <2>3. count[x] = Cardinality(before[x])
    BY <1>0
  <2>4. IsFiniteSet(before[x]) /\ Cardinality(before[x]) <= n - 1
    BY <2>1, <2>2, FS_Subset
  <2>5. Cardinality(before[x]) \in Nat
    BY <2>4, FS_CardinalityType
  <2>6. Cardinality(before[x] \cup {x}) = Cardinality(before[x]) + 1
    BY <2>1, <2>4, FS_AddElement
  <2> HIDE DEF n
  <2> QED
    BY <1>1, <2>3, <2>4, <2>5, <2>6
<1>3. ASSUME NEW x \in S, NEW y \in S, f[x] < f[y]
      PROVE  count[x] < count[y]
  <2>1. before[x] \cup {x} \in SUBSET before[y]
    BY <1>0, <1>3 DEF Before
  <2>2. IsFiniteSet(before[y]) /\ count[y] = Cardinality(before[y])
    BY <1>2
  <2>3. Cardinality(before[x] \cup {x}) = count[x] + 1
    BY <1>2
  <2>4. count[x] + 1 <= count[y]
    BY <2>1, <2>2, <2>3, FS_Subset
  <2>5. count[x] \in Int /\ count[y] \in Int
    BY <1>2
  <2> QED
    BY <2>4, <2>5
<1> HIDE DEF n
<1>4. count \in [S -> 0 .. n - 1]
  BY <1>0, <1>2
<1>5. ASSUME NEW x \in S, NEW y \in S, count[x] = count[y], x # y
      PROVE  FALSE
  <2>1. f[x] < f[y] \/ f[y] < f[x]
    BY <1>5
  <2>2. count[x] \in Int /\ count[y] \in Int
    BY <1>2
  <2> QED
    BY <1>3, <1>5, <2>1, <2>2
<1>6. IsFiniteSet(0 .. n - 1) /\ Cardinality(0 .. n - 1) = n
  BY <1>1, FS_Interval
<1>7. count \in Injection(S, 0 .. n - 1)
  BY <1>4, <1>5 DEF Injection, IsInjective
<1>8. count \in Surjection(S, 0 .. n - 1)
  BY <1>6, <1>7, FS_Injection DEF n
<1> QED
  BY <1>0, <1>1, <1>4, <1>5, <1>8 DEF n, Surjection

\* The list that takes them in turn has every element once, in order.
LEMMA Sorted ==
  ASSUME NEW S, IsFiniteSet(S), NEW f \in [S -> Int],
         \A x, y \in S : f[x] = f[y] => x = y
  PROVE  /\ Cardinality(S) \in Nat
         /\ Ranked(S, f) \in Seq(S) /\ Len(Ranked(S, f)) = Cardinality(S)
         /\ \A i \in 1 .. Cardinality(S) :
              /\ Ranked(S, f)[i] \in S
              /\ \A x \in S : x = Ranked(S, f)[i] <=>
                   Cardinality(Before(S, f, x)) = i - 1
         /\ \A x \in S : \E i \in 1 .. Cardinality(S) : Ranked(S, f)[i] = x
<1> DEFINE s == Ranked(S, f)
           n == Cardinality(S)
           count(x) == Cardinality(Before(S, f, x))
<1>1. /\ n \in Nat
      /\ \A x \in S : count(x) \in 0 .. n - 1
      /\ \A x, y \in S : count(x) = count(y) => x = y
      /\ \A i \in 0 .. n - 1 : \E x \in S : count(x) = i
  BY Counted
<1> HIDE DEF count, n
<1>2. ASSUME NEW i \in 1 .. n
      PROVE  s[i] \in S /\ count(s[i]) = i - 1
  <2>1. i - 1 \in 0 .. n - 1
    BY <1>1
  <2>2. \E x \in S : count(x) = i - 1
    BY <1>1, <2>1
  <2>3. s[i] = CHOOSE x \in S : count(x) = i - 1
    BY DEF Ranked, count, n
  <2> QED
    BY <2>2, <2>3
<1>3. s \in Seq(S) /\ Len(s) = n
  <2>1. s \in [1 .. n -> S]
    BY <1>2 DEF Ranked, n
  <2> QED
    BY <1>1, <2>1, IsSequence
<1> HIDE DEF s
<1>4. ASSUME NEW i \in 1 .. n, NEW x \in S
      PROVE  x = s[i] <=> count(x) = i - 1
  <2>1. s[i] \in S /\ count(s[i]) = i - 1
    BY <1>2
  <2> QED
    BY <1>1, <2>1
<1>5. ASSUME NEW x \in S
      PROVE  \E i \in 1 .. n : s[i] = x
  <2>1. count(x) \in 0 .. n - 1
    BY <1>1
  <2>2. count(x) + 1 \in 1 .. n /\ count(x) = (count(x) + 1) - 1
    BY <1>1, <2>1
  <2> QED
    BY <1>4, <2>2
<1> QED
  BY <1>1, <1>2, <1>3, <1>4, <1>5 DEF count, n, s

\* An offset is an integer, if perhaps a negative one.
LEMMA OffsetType ==
  ASSUME NEW page \in Int, NEW per \in Int
  PROVE  Offset(page, per) \in Int
<1>1. PICK w \in Nat \ {0} : w = 2 * Half
  BY PagingAssumption
<1>2. PICK n \in Int : n = (page - 1) * per + Half
  BY PagingAssumption
<1>3. n % w \in Int
  BY DivMod
<1> QED
  BY <1>1, <1>2, <1>3, PagingAssumption DEF Offset, Int32

\* The places a page shows are places of the list.
LEMMA PlaceShown ==
  ASSUME NEW from \in Nat, NEW to \in Int, NEW len \in Nat, to <= len,
         NEW shown, shown = 0 \/ (from < to /\ shown = to - from),
         NEW i \in Int, 1 <= i, i <= shown
  PROVE  from + i \in 1 .. to /\ from + i \in 1 .. len
<1>1. from < to /\ shown = to - from
  OBVIOUS
<1>2. 1 <= from + i /\ from + i <= to
  BY <1>1
<1> QED
  BY <1>2

\* The part of a list that a page shows, if it starts within the list.
LEMMA CutIs ==
  ASSUME NEW c, req[c].page \in Int, req[c].per \in Int,
         NEW S, NEW items \in Seq(S),
         NEW from, from = Offset(Page(req[c].page), PerPage(req[c].per)),
         NEW per, per = PerPage(req[c].per),
         from >= 0
  PROVE  LET to == IF from + per < Len(items) THEN from + per ELSE Len(items)
         IN  /\ from \in Nat /\ per \in 1 .. MaxPerPage
             /\ Cut(c, items) \in Seq(S)
             /\ Len(Cut(c, items)) = IF from < to THEN to - from ELSE 0
             /\ \A i \in 1 .. Len(Cut(c, items)) :
                  from + i \in 1 .. to /\ Cut(c, items)[i] = items[from + i]
<1> DEFINE page == Page(req[c].page)
           len == Len(items)
           to == IF from + per < len THEN from + per ELSE len
           shown == IF from < to THEN to - from ELSE 0
<1>1. per \in 1 .. MaxPerPage /\ page \in Int /\ len \in Nat
  <2>1. PerPage(req[c].per) \in 1 .. MaxPerPage
    BY PerPageType
  <2>2. page \in Int
    BY DEF Page
  <2> QED
    BY <2>1, <2>2
<1>2. from \in Nat /\ MaxPerPage \in Nat
  BY <1>1, OffsetType, PagingAssumption
<1>3. Shown(page, per, len) = (from + 1) .. to
  BY <1>1, <1>2 DEF Shown
<1>4. Cardinality((from + 1) .. to) = shown /\ to \in Int /\ shown \in Nat
  <2>1. to \in Int /\ from + 1 \in Int /\ shown \in Nat
    BY <1>1, <1>2
  <2> HIDE DEF to
  <2>2. Cardinality((from + 1) .. to) =
          IF from + 1 > to THEN 0 ELSE to - (from + 1) + 1
    BY <2>1, FS_Interval
  <2> QED
    BY <1>2, <2>1, <2>2
<1>5. Cut(c, items) = [i \in 1 .. shown |-> items[from + i]]
  BY <1>3, <1>4 DEF Cut
<1>6. \A i \in 1 .. shown : from + i \in 1 .. to /\ from + i \in 1 .. len
  <2> SUFFICES ASSUME NEW i \in 1 .. shown
               PROVE  from + i \in 1 .. to /\ from + i \in 1 .. len
    OBVIOUS
  <2>1. to \in Int /\ to <= len
    BY <1>1, <1>2
  <2> HIDE DEF to, len
  <2>2. shown = 0 \/ (from < to /\ shown = to - from)
    OBVIOUS
  <2> HIDE DEF shown
  <2>3. i \in Int /\ 1 <= i /\ i <= shown
    BY <1>4
  <2>4. len \in Nat /\ from \in Nat
    BY <1>1, <1>2
  <2> QED
    BY ONLY <2>1, <2>2, <2>3, <2>4, PlaceShown
<1>7. \A i \in 1 .. shown : items[from + i] \in S
  BY <1>6, ElementOfSeq
<1> HIDE DEF shown
<1>8. Cut(c, items) \in [1 .. shown -> S]
  BY <1>5, <1>7
<1>9. Cut(c, items) \in Seq(S) /\ Len(Cut(c, items)) = shown
  BY <1>4, <1>8, IsSequence
<1> QED
  BY <1>1, <1>2, <1>5, <1>6, <1>9 DEF shown

-----------------------------------------------------------------------------
(* The types, as an inductive invariant *)

\* A document as the callers make it, before some time.
DocOK(d, time) ==
  /\ d \in DocumentType
  /\ Named(d.kind, d.name)
  /\ d.kind # "assignments" => Known(d.name) /\ d.expires = 0
  /\ d.kind = "apikeys" => d.hash[1] = d.tenant
  /\ d.createdAt < time

\* No two of Postgres' API keys were created at once.
KeysDated ==
  backend = "postgres" =>
    \A j, k \in DOMAIN rows :
      /\ rows[j].kind = "apikeys" /\ rows[k].kind = "apikeys"
      /\ rows[j].createdAt = rows[k].createdAt
      => j = k

\* A name in a set of Redis.
MemberOK(m) ==
  /\ m \in Texts \X (Kinds \ {"assignments"}) \X Seq(Seq(Texts))
  /\ Named(m[2], m[3]) /\ Known(m[3])

\* A reference is to a key of the tenant the hash was made for.
RefOK(r, h) == r \in Seq(Texts) /\ Len(r) = 2 /\ r[1] = h[1]

\* The documents are under their names, and Redis alone has sets and references.
StoreOK ==
  /\ backend \in Backends /\ now \in Nat
  /\ IsFiniteSet(DOMAIN rows)
  /\ \A k \in DOMAIN rows :
       DocOK(rows[k], now) /\ k = Key(rows[k].kind, rows[k].tenant, rows[k].name)
  /\ KeysDated
  /\ IsFiniteSet(members)
  /\ \A m \in members : backend = "redis" /\ MemberOK(m)
  /\ \A h \in DOMAIN refs :
       backend = "redis" /\ h \in Texts \X Nat /\ RefOK(refs[h], h)

\* A call that has read or made its document has it in hand.
Holds(c) ==
  /\ held[c] = << held[c][1] >>
  /\ DocOK(held[c][1], now)
  /\ held[c][1].kind = req[c].kind
  /\ held[c][1].tenant = req[c].tenant
  /\ held[c][1].name = req[c].name

\* Where a call can be, and what it has there.
PlaceOK(c) ==
  \/ pc[c] = "idle" /\ req[c] = NoRequest
  \/ pc[c] = "run"
  \/ /\ pc[c] = "member" /\ backend = "redis"
     /\ req[c].op = "delete" \/ (req[c].op = "create" /\ Holds(c))
  \/ /\ pc[c] = "ref" /\ backend = "redis" /\ Holds(c)
     /\ req[c].op = "create" /\ req[c].kind = "apikeys"
  \/ /\ pc[c] = "follow" /\ backend = "redis" /\ req[c].op = "findByHash"
     /\ todo[c] = << todo[c][1] >> /\ RefOK(todo[c][1], req[c].hash)
  \/ pc[c] = "fetch" /\ backend # "redis" /\ req[c].op = "list"
  \/ /\ pc[c] = "items" /\ backend = "redis" /\ req[c].op = "list"
     /\ todo[c] \in Seq(Seq(Seq(Texts))) /\ held[c] \in Seq(DocumentType)
  \/ /\ pc[c] = "write" /\ backend # "postgres" /\ Holds(c)
     /\ req[c].op \in {"update", "revoke"}
  \/ pc[c] = "done"

\* A lookup that found a key found one of the tenant of the hash.
OwnTenant(c, r) ==
  req[c].op = "findByHash" /\ r.found => r.items[1].tenant = req[c].hash[1]

\* A call is where it can be, and has asked what the callers ask.
CallOK(c) ==
  /\ PlaceOK(c)
  /\ pc[c] # "idle" => Proper(req[c])
  /\ pc[c] \in {"idle", "run", "done"} => held[c] = << >>
  /\ total[c] \in Nat
  /\ IF pc[c] = "done" THEN reply[c] \in ReplyType /\ OwnTenant(c, reply[c])
                       ELSE reply[c] = NoReply

CallsOK ==
  /\ DOMAIN pc = Clients /\ DOMAIN req = Clients /\ DOMAIN held = Clients
  /\ DOMAIN todo = Clients /\ DOMAIN total = Clients
  /\ DOMAIN reply = Clients
  /\ \A c \in Clients : CallOK(c)

\* The inductive invariant of the types: what a reference leads to and what a
\* call has in hand are part of it, since both outlive the step that read them.
TypeInv ==
  /\ driver \in {"suite", "handlers"} /\ next \in Nat \ {0}
  /\ StoreOK
  /\ CallsOK

\* What was made by some time was made by any later one.
LEMMA DocLasts ==
  ASSUME NEW d, NEW m \in Nat, NEW n \in Nat, m <= n, DocOK(d, m)
  PROVE  DocOK(d, n)
BY DEF DocOK, DocumentType

-----------------------------------------------------------------------------
(* Steps of the store *)

\* The store stays as it is,
LEMMA StoreStays ==
  ASSUME StoreOK, UNCHANGED << backend, storeVars >>
  PROVE  StoreOK'
BY DEF StoreOK, KeysDated, Key, storeVars

\* or gets a document under its name,
LEMMA StorePut ==
  ASSUME StoreOK, NEW k, NEW d, Put(k, d),
         now' \in Nat, now <= now', UNCHANGED << backend, members, refs >>,
         DocOK(d, now'), k = Key(d.kind, d.tenant, d.name),
         backend = "postgres" /\ d.kind = "apikeys" =>
           \/ d.createdAt = now
           \/ /\ k \in DOMAIN rows /\ rows[k].kind = d.kind
              /\ rows[k].createdAt = d.createdAt
  PROVE  StoreOK'
<1>1. /\ DOMAIN rows' = DOMAIN rows \cup {k}
      /\ \A x \in DOMAIN rows' : rows'[x] = IF x = k THEN d ELSE rows[x]
  BY DEF Put
<1>2. IsFiniteSet(DOMAIN rows')
  BY <1>1, FS_AddElement DEF StoreOK
<1>3. ASSUME NEW x \in DOMAIN rows'
      PROVE  /\ DocOK(rows'[x], now')
             /\ x = Key(rows'[x].kind, rows'[x].tenant, rows'[x].name)
  BY <1>1, DocLasts DEF StoreOK
<1>4. \A x \in DOMAIN rows' :
         x = Key(rows[x].kind, rows[x].tenant, rows[x].name)'
  BY <1>3 DEF Key
<1>5. KeysDated'
  <2> SUFFICES ASSUME backend = "postgres",
                      NEW i \in DOMAIN rows', NEW j \in DOMAIN rows',
                      rows'[i].kind = "apikeys", rows'[j].kind = "apikeys",
                      rows'[i].createdAt = rows'[j].createdAt
               PROVE  i = j
    BY DEF KeysDated
  <2>1. \A x \in DOMAIN rows : rows[x].createdAt # now
    BY DEF StoreOK, DocOK, DocumentType
  <2>2. CASE i # k /\ j # k
    BY <1>1, <2>2 DEF StoreOK, KeysDated
  <2>3. CASE i # k /\ j = k
    BY <1>1, <2>1, <2>3 DEF StoreOK, KeysDated
  <2>4. CASE i = k /\ j # k
    BY <1>1, <2>1, <2>4 DEF StoreOK, KeysDated
  <2> QED
    BY <2>2, <2>3, <2>4
<1> QED
  BY <1>2, <1>3, <1>4, <1>5 DEF StoreOK

\* or loses some.
LEMMA StoreRemove ==
  ASSUME StoreOK, UNCHANGED << backend, members, refs, now >>,
         DOMAIN rows' \subseteq DOMAIN rows,
         \A x \in DOMAIN rows' : rows'[x] = rows[x]
  PROVE  StoreOK'
<1>1. IsFiniteSet(DOMAIN rows')
  BY FS_Subset DEF StoreOK
<1>2. KeysDated'
  BY DEF StoreOK, KeysDated
<1> QED
  BY <1>1, <1>2 DEF StoreOK, Key

-----------------------------------------------------------------------------
(* Steps of the calls *)

\* A call that is not touched.
Same(c) ==
  /\ pc'[c] = pc[c] /\ req'[c] = req[c] /\ held'[c] = held[c]
  /\ todo'[c] = todo[c] /\ total'[c] = total[c] /\ reply'[c] = reply[c]

\* What every step does to the clock.
Time == backend' = backend /\ now \in Nat /\ now' \in Nat /\ now <= now'

\* A call that is not touched is as it was,
LEMMA CallStays ==
  ASSUME NEW c \in Clients, CallOK(c), Same(c), Time
  PROVE  CallOK(c)'
<1> USE DEF Same, Time
<1>1. Holds(c) => Holds(c)'
  BY DocLasts DEF Holds
<1>2. PlaceOK(c)'
  BY <1>1 DEF CallOK, PlaceOK
<1> QED
  BY <1>2 DEF CallOK, OwnTenant

\* so that a step is about its own call,
LEMMA OthersStay ==
  ASSUME CallsOK, Time, NEW c \in Clients, CallOK(c)',
         \A d \in Clients \ {c} : Same(d),
         DOMAIN pc' = Clients, DOMAIN req' = Clients, DOMAIN held' = Clients,
         DOMAIN todo' = Clients, DOMAIN total' = Clients,
         DOMAIN reply' = Clients
  PROVE  CallsOK'
<1>1. ASSUME NEW d \in Clients
      PROVE  CallOK(d)'
  <2>1. CASE d = c
    BY <2>1
  <2>2. CASE d # c
    BY <2>2, CallStays DEF CallsOK
  <2> QED
    BY <2>1, <2>2
<1> QED
  BY <1>1 DEF CallsOK

\* which is answered,
LEMMA AnswerOK ==
  ASSUME CallsOK, Time, NEW c \in Clients, pc[c] # "idle",
         NEW r \in ReplyType, OwnTenant(c, r), Answer(c, r)
  PROVE  CallsOK'
<1>1. /\ pc'[c] = "done" /\ reply'[c] = r /\ held'[c] = << >>
      /\ total'[c] = 0 /\ req' = req
      /\ DOMAIN pc' = Clients /\ DOMAIN req' = Clients
      /\ DOMAIN held' = Clients /\ DOMAIN todo' = Clients
      /\ DOMAIN total' = Clients /\ DOMAIN reply' = Clients
  BY DEF Answer, CallsOK
<1>2. \A d \in Clients \ {c} : Same(d)
  BY DEF Answer, CallsOK, Same
<1>3. CallOK(c)'
  BY <1>1 DEF CallsOK, CallOK, PlaceOK, OwnTenant
<1> QED
  BY <1>1, <1>2, <1>3, OthersStay

\* or begins.
LEMMA BeginOK ==
  ASSUME CallsOK, Time, NEW c \in Clients, NEW r, Proper(r), Begin(c, r)
  PROVE  CallsOK'
<1>1. /\ pc'[c] = "run" /\ reply'[c] = NoReply /\ req'[c] = r
      /\ held' = held /\ total' = total /\ todo' = todo
      /\ pc[c] \in {"idle", "done"}
      /\ DOMAIN pc' = Clients /\ DOMAIN req' = Clients
      /\ DOMAIN held' = Clients /\ DOMAIN todo' = Clients
      /\ DOMAIN total' = Clients /\ DOMAIN reply' = Clients
  BY DEF Begin, CallsOK
<1>2. \A d \in Clients \ {c} : Same(d)
  BY DEF Begin, CallsOK, Same
<1>3. CallOK(c)'
  BY <1>1 DEF CallsOK, CallOK, PlaceOK
<1> QED
  BY <1>1, <1>2, <1>3, OthersStay

\* The answers there are.
LEMMA Refusals ==
  /\ Missing \in ReplyType /\ Missing.found = FALSE /\ Missing.ok = TRUE
  /\ Failed \in ReplyType /\ Failed.found = FALSE /\ Failed.ok = FALSE
<1>1. << >> \in Seq(DocumentType)
  OBVIOUS
<1> QED
  BY <1>1 DEF Missing, Failed, ReplyType

\* What a call that finds a document answers.
LEMMA Finds ==
  ASSUME NEW d \in DocumentType
  PROVE  /\ Found(d) \in ReplyType /\ Found(d).items = <<d>>
         /\ Found(d).found = TRUE /\ Found(d).ok = TRUE
<1>1. <<d>> \in Seq(DocumentType)
  OBVIOUS
<1> QED
  BY <1>1 DEF Found, ReplyType

-----------------------------------------------------------------------------
(* The order of lists *)

\* The place of a name in the order.
LEMMA RankIs ==
  ASSUME NEW n, Known(n)
  PROVE  Rank(n) \in Nat /\ Names[Rank(n)] = n
<1>1. DOMAIN Names = 1 .. Len(Names) /\ Len(Names) \in Nat
  BY NamesAssumption, LenProperties
<1>2. \E i \in DOMAIN Names : Names[i] = n
  BY DEF Known
<1>3. Rank(n) \in DOMAIN Names /\ Names[Rank(n)] = n
  BY <1>2 DEF Rank
<1> QED
  BY <1>1, <1>3

\* The documents of a kind and tenant, and their rank.
KeysOf(kind, tenant) ==
  { x \in DOMAIN rows : rows[x].kind = kind /\ rows[x].tenant = tenant }

DocsOf(kind, tenant) == { rows[k] : k \in KeysOf(kind, tenant) }

DocRank(kind, tenant) ==
  [d \in DocsOf(kind, tenant) |->
     IF backend = "postgres" /\ kind = "apikeys" THEN - d.createdAt
                                                ELSE Rank(d.name)]

\* A document is its tenant's and kind's only one with that name.
LEMMA OneName ==
  ASSUME StoreOK, NEW kind, NEW tenant,
         NEW j \in KeysOf(kind, tenant), NEW k \in KeysOf(kind, tenant),
         rows[j].name = rows[k].name
  PROVE  j = k
BY DEF StoreOK, KeysOf

\* Precedes orders the documents of a kind and tenant.
LEMMA DocsRanked ==
  ASSUME StoreOK, NEW kind, kind # "assignments", NEW tenant
  PROVE  LET S == DocsOf(kind, tenant)  f == DocRank(kind, tenant)
         IN  /\ IsFiniteSet(S) /\ S \subseteq DocumentType
             /\ f \in [S -> Int]
             /\ \A d, e \in S : f[d] = f[e] => d = e
             /\ \A d, e \in S : Precedes(d, e) <=> f[d] < f[e]
             /\ Documents(kind, tenant) = Ranked(S, f)
<1> DEFINE S == DocsOf(kind, tenant)
           f == DocRank(kind, tenant)
<1>1. IsFiniteSet(S)
  <2>1. IsFiniteSet(KeysOf(kind, tenant))
    BY FS_Subset DEF StoreOK, KeysOf
  <2> QED
    BY <2>1, Image DEF DocsOf
<1>2. ASSUME NEW d \in S
      PROVE  /\ d \in DocumentType /\ d.kind = kind
             /\ d.createdAt \in Nat
             /\ Rank(d.name) \in Nat /\ Names[Rank(d.name)] = d.name
             /\ f[d] = IF backend = "postgres" /\ kind = "apikeys"
                      THEN - d.createdAt ELSE Rank(d.name)
  <2>1. PICK k \in KeysOf(kind, tenant) : d = rows[k]
    BY DEF DocsOf
  <2>2. d \in DocumentType /\ d.kind = kind /\ Known(d.name)
    BY <2>1 DEF KeysOf, StoreOK, DocOK
  <2>3. d.createdAt \in Nat
    BY <2>2 DEF DocumentType
  <2> QED
    BY <2>2, <2>3, RankIs DEF DocRank
<1>3. f \in [S -> Int]
  BY <1>2 DEF DocRank
<1>4. ASSUME NEW d \in S, NEW e \in S, f[d] = f[e]
      PROVE  d = e
  <2>1. PICK j \in KeysOf(kind, tenant) : d = rows[j]
    BY DEF DocsOf
  <2>2. PICK k \in KeysOf(kind, tenant) : e = rows[k]
    BY DEF DocsOf
  <2>3. CASE backend = "postgres" /\ kind = "apikeys"
    <3>1. d.createdAt = e.createdAt
      BY <1>2, <1>4, <2>3
    <3> QED
      BY <2>1, <2>2, <2>3, <3>1 DEF KeysOf, StoreOK, KeysDated
  <2>4. CASE ~ (backend = "postgres" /\ kind = "apikeys")
    <3>1. d.name = e.name
      BY <1>2, <1>4, <2>4
    <3> QED
      BY <2>1, <2>2, <3>1, OneName
  <2> QED
    BY <2>3, <2>4
<1>5. ASSUME NEW d \in S, NEW e \in S
      PROVE  Precedes(d, e) <=> f[d] < f[e]
  BY <1>2 DEF Precedes
<1>6. Documents(kind, tenant) = InOrder(S, Precedes)
  BY DEF Documents, DocsOf, KeysOf
<1> HIDE DEF S, f
<1>7. \A x \in S : { y \in S : Precedes(y, x) } = Before(S, f, x)
  BY <1>5 DEF Before
<1> DEFINE n == Cardinality(S)
           g(i) == CHOOSE x \in S :
                     Cardinality({ y \in S : Precedes(y, x) }) = i - 1
           h(i) == CHOOSE x \in S : Cardinality(Before(S, f, x)) = i - 1
<1>8. InOrder(S, Precedes) = [i \in 1 .. n |-> g(i)]
  BY DEF InOrder
<1>9. Ranked(S, f) = [i \in 1 .. n |-> h(i)]
  BY DEF Ranked
<1>10. ASSUME NEW i \in 1 .. n
       PROVE  g(i) = h(i)
  <2>1. \A x \in S : Cardinality({ y \in S : Precedes(y, x) }) = i - 1
                     <=> Cardinality(Before(S, f, x)) = i - 1
    BY <1>7
  <2> QED
    BY <2>1
<1> HIDE DEF n, g, h
<1>11. InOrder(S, Precedes) = Ranked(S, f)
  BY <1>8, <1>9, <1>10
<1> QED
  BY <1>1, <1>2, <1>3, <1>4, <1>5, <1>6, <1>11 DEF S, f

\* Their list has each of them once, in order.
LEMMA DocsInOrder ==
  ASSUME StoreOK, NEW kind, kind # "assignments", NEW tenant
  PROVE  LET S == DocsOf(kind, tenant)  all == Documents(kind, tenant)
         IN  /\ S \subseteq DocumentType /\ Cardinality(S) \in Nat
             /\ all \in Seq(S) /\ Len(all) = Cardinality(S)
             /\ \A i \in 1 .. Cardinality(S) :
                  /\ all[i] \in S
                  /\ \A d \in S : d = all[i] <=>
                       Cardinality({ e \in S : Precedes(e, d) }) = i - 1
<1> DEFINE S == DocsOf(kind, tenant)
           f == DocRank(kind, tenant)
           all == Documents(kind, tenant)
<1>1. /\ IsFiniteSet(S) /\ S \subseteq DocumentType
      /\ f \in [S -> Int]
      /\ \A d, e \in S : f[d] = f[e] => d = e
      /\ \A d, e \in S : Precedes(d, e) <=> f[d] < f[e]
      /\ all = Ranked(S, f)
  BY DocsRanked
<1> HIDE DEF S, f, all
<1> DEFINE ranked == Ranked(S, f)
<1>2. /\ Cardinality(S) \in Nat
      /\ ranked \in Seq(S) /\ Len(ranked) = Cardinality(S)
      /\ \A i \in 1 .. Cardinality(S) :
           /\ ranked[i] \in S
           /\ \A d \in S : d = ranked[i] <=> Cardinality(Before(S, f, d)) = i - 1
  <2>1. /\ IsFiniteSet(S) /\ f \in [S -> Int]
        /\ \A d, e \in S : f[d] = f[e] => d = e
    BY <1>1
  <2> QED
    BY ONLY <2>1, Sorted
<1> HIDE DEF ranked
<1>5. ranked = all
  BY <1>1 DEF ranked
<1>3. \A d \in S : { e \in S : Precedes(e, d) } = Before(S, f, d)
  BY <1>1 DEF Before
<1>4. \A i \in 1 .. Cardinality(S) : \A d \in S :
        d = all[i] <=> Cardinality({ e \in S : Precedes(e, d) }) = i - 1
  BY <1>2, <1>3, <1>5
<1> QED
  BY <1>1, <1>2, <1>4, <1>5 DEF S, all

\* What Postgres and MongoDB select is that, too.
LEMMA ListedIs ==
  ASSUME StoreOK, backend # "redis",
         NEW kind \in Kinds, kind # "assignments", NEW tenant
  PROVE  Listed(kind, tenant) = DocsOf(kind, tenant)
<1>1. ASSUME NEW x \in DOMAIN rows
      PROVE  /\ x[1] = <<kind>> <=> rows[x].kind = kind
             /\ rows[x].kind = kind /\ backend # "postgres" =>
                  x[2][1] = rows[x].tenant
  <2> DEFINE d == rows[x]
  <2>1. /\ x = Key(d.kind, d.tenant, d.name) /\ Named(d.kind, d.name)
        /\ backend = "postgres" \/ backend = "mongodb"
    BY BackendsAssumption DEF StoreOK, DocOK
  <2> HIDE DEF d
  <2>2. CASE d.kind = "assignments"
    <3>1. PICK s, f : d.name = << <<s>>, <<f>> >>
      BY <2>1, <2>2, TwoPieces
    <3>2. x[1] = << d.kind >>
      BY <2>1, <2>2, <3>1, KeyOfTwo
    <3> QED
      BY <2>2, <3>2 DEF d
  <2>3. CASE d.kind # "assignments"
    <3>1. PICK n : d.name = << <<n>> >>
      BY <2>1, <2>3, OnePiece
    <3>2. CASE backend = "postgres"
      <4>1. x = IF d.kind = "apikeys" THEN << <<d.kind>>, <<n>> >>
                                      ELSE << <<d.kind>>, <<d.tenant>>, <<n>> >>
        BY <2>1, <3>1, <3>2, KeyOfOne
      <4>2. x[1] = << d.kind >>
        BY <4>1
      <4> QED
        BY <3>2, <4>2 DEF d
    <3>3. CASE backend = "mongodb"
      <4>1. x = << <<d.kind>>, <<d.tenant, n>> >>
        BY <2>1, <3>1, <3>3, KeyOfOne
      <4>2. x[1] = << d.kind >> /\ x[2][1] = d.tenant
        BY <4>1
      <4> QED
        BY <4>2 DEF d
    <3> QED
      BY <2>1, <3>2, <3>3
  <2> QED
    BY <2>2, <2>3
<1>2. { x \in DOMAIN rows :
          /\ x[1] = <<kind>>
          /\ IF backend = "postgres" THEN rows[x].tenant = tenant
                                     ELSE x[2][1] = tenant }
        = KeysOf(kind, tenant)
  BY <1>1 DEF KeysOf
<1> QED
  BY <1>2 DEF Listed, DocsOf

\* The rank of the names in Redis' set.
NameRank(c) == [n \in MembersOf(c) |-> Rank(n)]

\* They can be counted.
LEMMA ListedCount ==
  ASSUME StoreOK, backend # "redis",
         NEW kind \in Kinds, kind # "assignments", NEW tenant
  PROVE  Cardinality(Listed(kind, tenant)) \in Nat
<1>1. Listed(kind, tenant) = DocsOf(kind, tenant)
  BY ListedIs
<1>2. IsFiniteSet(DocsOf(kind, tenant))
  BY DocsRanked
<1> QED
  BY <1>1, <1>2, FS_CardinalityType

\* So can all documents of a kind.
LEMMA KindCount ==
  ASSUME StoreOK, NEW kind
  PROVE  OfKind(kind) \subseteq DocumentType /\ Cardinality(OfKind(kind)) \in Nat
<1> DEFINE K == { x \in DOMAIN rows : rows[x].kind = kind }
<1>1. IsFiniteSet(K)
  BY FS_Subset DEF StoreOK
<1>2. OfKind(kind) = { rows[k] : k \in K }
  BY DEF OfKind
<1>3. \A k \in K : rows[k] \in DocumentType
  BY DEF StoreOK, DocOK
<1> HIDE DEF K
<1>4. IsFiniteSet(OfKind(kind))
  BY <1>1, <1>2, Image
<1> QED
  BY <1>2, <1>3, <1>4, FS_CardinalityType

\* ByRank orders the names of Redis' set.
LEMMA MembersRanked ==
  ASSUME StoreOK, NEW c
  PROVE  LET S == MembersOf(c)  f == NameRank(c)
         IN  /\ IsFiniteSet(S) /\ S \subseteq Seq(Seq(Texts))
             /\ f \in [S -> Int]
             /\ \A m, n \in S : f[m] = f[n] => m = n
             /\ InOrder(S, ByRank) = Ranked(S, f)
<1> DEFINE S == MembersOf(c)
           f == NameRank(c)
           own == { x \in members : x[1] = req[c].tenant /\ x[2] = req[c].kind }
           third == [x \in own |-> x[3]]
<1>1. IsFiniteSet(S)
  <2>1. IsFiniteSet(own)
    BY FS_Subset DEF StoreOK
  <2>2. S = { third[x] : x \in own }
    BY DEF MembersOf
  <2> HIDE DEF own, third
  <2> QED
    BY <2>1, <2>2, Image
<1>2. ASSUME NEW n \in S
      PROVE  /\ n \in Seq(Seq(Texts)) /\ f[n] = Rank(n)
             /\ Rank(n) \in Nat /\ Names[Rank(n)] = n
  <2>1. PICK m \in members : n = m[3]
    BY DEF MembersOf
  <2>2. n \in Seq(Seq(Texts)) /\ Known(n)
    BY <2>1 DEF StoreOK, MemberOK
  <2> QED
    BY <2>2, RankIs DEF NameRank
<1>3. f \in [S -> Int]
  BY <1>2 DEF NameRank
<1>4. \A m, n \in S : f[m] = f[n] => m = n
  BY <1>2
<1> HIDE DEF S, f
<1>5. \A x \in S : { y \in S : ByRank(y, x) } = Before(S, f, x)
  BY <1>2 DEF Before, ByRank
<1> DEFINE n == Cardinality(S)
           g(i) == CHOOSE x \in S :
                     Cardinality({ y \in S : ByRank(y, x) }) = i - 1
           h(i) == CHOOSE x \in S : Cardinality(Before(S, f, x)) = i - 1
<1>6. InOrder(S, ByRank) = [i \in 1 .. n |-> g(i)]
  BY DEF InOrder
<1>7. Ranked(S, f) = [i \in 1 .. n |-> h(i)]
  BY DEF Ranked
<1>8. ASSUME NEW i \in 1 .. n
      PROVE  g(i) = h(i)
  <2>1. \A x \in S : Cardinality({ y \in S : ByRank(y, x) }) = i - 1
                     <=> Cardinality(Before(S, f, x)) = i - 1
    BY <1>5
  <2> QED
    BY <2>1
<1> HIDE DEF n, g, h
<1>9. InOrder(S, ByRank) = Ranked(S, f)
  BY <1>6, <1>7, <1>8
<1> QED
  BY <1>1, <1>2, <1>3, <1>4, <1>9 DEF S, f

\* What is fetched is a list of documents.
LEMMA Fetched ==
  ASSUME StoreOK, backend # "redis", NEW c,
         Proper(req[c]), req[c].op = "list",
         Offset(Page(req[c].page), PerPage(req[c].per)) >= 0
  PROVE  Cut(c, InOrder(Listed(req[c].kind, req[c].tenant), Precedes))
           \in Seq(DocumentType)
<1> DEFINE all == Documents(req[c].kind, req[c].tenant)
           S == DocsOf(req[c].kind, req[c].tenant)
<1>1. /\ req[c].kind \in Kinds /\ req[c].kind # "assignments"
      /\ req[c].page \in Int /\ req[c].per \in Int
  BY DEF Proper, Methods, RequestType, Kinds
<1>2. InOrder(Listed(req[c].kind, req[c].tenant), Precedes) = all
  BY <1>1, ListedIs DEF Documents, DocsOf, KeysOf
<1>3. all \in Seq(S) /\ S \subseteq DocumentType
  BY <1>1, DocsInOrder
<1>4. all \in Seq(DocumentType)
  BY <1>3, SeqMonotonic
<1> HIDE DEF all
<1>5. Cut(c, all) \in Seq(DocumentType)
  BY <1>1, <1>4, CutIs
<1> QED
  BY <1>2, <1>5

-----------------------------------------------------------------------------
(* Every step keeps the types *)

\* What a call that has been made asks.
LEMMA Asked ==
  ASSUME NEW r, Proper(r)
  PROVE  /\ r.op \in Operations /\ r.kind \in Kinds
         /\ r.tenant \in Texts /\ r.name \in Seq(Seq(Texts))
         /\ r.data \in Texts /\ r.hash \in Texts \X Nat
         /\ r.expires \in Nat /\ r.page \in Int /\ r.per \in Int
         /\ r.asked \in Nat
         /\ Named(r.kind, r.name)
         /\ r.op \notin {"get", "save"} => r.kind # "assignments"
         /\ r.op = "save" => r.kind = "assignments"
         /\ r.op = "create" => Known(r.name)
         /\ r.op \in {"findByHash", "revoke"} => r.kind = "apikeys"
         /\ r.op = "update" => r.kind \in {"flags", "experiments"}
         /\ r.op = "delete" => r.kind = "flags"
         /\ r.op = "create" /\ r.kind = "apikeys" => r.hash[1] = r.tenant
<1>1. r \in RequestType /\ r.op \in Methods(r.kind)
  BY DEF Proper
<1>2. r.kind \in {"flags", "experiments", "assignments", "apikeys"}
  BY <1>1 DEF RequestType, Kinds
<1>3. /\ r.op \notin {"get", "save"} => r.kind # "assignments"
      /\ r.op = "save" => r.kind = "assignments"
      /\ r.op \in {"findByHash", "revoke"} => r.kind = "apikeys"
      /\ r.op = "update" => r.kind \in {"flags", "experiments"}
      /\ r.op = "delete" => r.kind = "flags"
  BY <1>1, <1>2 DEF Methods
<1> QED
  BY <1>1, <1>3 DEF Proper, RequestType

\* What is known of a call.
LEMMA CallFacts ==
  ASSUME TypeInv, NEW c \in Clients
  PROVE  /\ CallOK(c) /\ PlaceOK(c) /\ StoreOK /\ CallsOK /\ now \in Nat
         /\ pc[c] # "idle" => Proper(req[c])
         /\ backend \in {"postgres", "mongodb", "redis"}
BY BackendsAssumption DEF TypeInv, CallsOK, CallOK, StoreOK

\* The document at the key of a call.
LEMMA StoredDoc ==
  ASSUME TypeInv, NEW c \in Clients, pc[c] # "idle", Stored(c)
  PROVE  LET d == rows[KeyOf(c)]
         IN  /\ DocOK(d, now) /\ d \in DocumentType
             /\ KeyOf(c) = Key(d.kind, d.tenant, d.name)
             /\ d.kind = req[c].kind /\ d.name = req[c].name
             /\ backend # "postgres" \/ d.kind # "apikeys" =>
                  d.tenant = req[c].tenant
<1> DEFINE d == rows[KeyOf(c)]
<1>1. /\ DocOK(d, now) /\ KeyOf(c) = Key(d.kind, d.tenant, d.name)
      /\ backend \in Backends
  BY DEF TypeInv, StoreOK, Stored
<1>2. d \in DocumentType /\ Named(d.kind, d.name) /\ d.kind \in Kinds
  BY <1>1 DEF DocOK, DocumentType
<1>3. Named(req[c].kind, req[c].name) /\ req[c].kind \in Kinds
  BY CallFacts, Asked
<1>4. Key(d.kind, d.tenant, d.name)
        = Key(req[c].kind, req[c].tenant, req[c].name)
  BY <1>1 DEF KeyOf
<1> HIDE DEF d
<1>5. /\ d.kind = req[c].kind /\ d.name = req[c].name
      /\ \/ backend = "postgres" /\ req[c].kind = "apikeys"
         \/ d.tenant = req[c].tenant
  BY <1>1, <1>2, <1>3, <1>4, KeyInjective
<1> QED
  BY <1>1, <1>2, <1>5 DEF d

\* The document a create makes,
LEMMA NewDoc ==
  ASSUME TypeInv, NEW c \in Clients, pc[c] # "idle", req[c].op = "create"
  PROVE  LET d == Document(c)
         IN  /\ d \in DocumentType /\ DocOK(d, now + 1)
             /\ KeyOf(c) = Key(d.kind, d.tenant, d.name)
             /\ d.createdAt = now /\ d.kind = req[c].kind
             /\ d.tenant = req[c].tenant /\ d.name = req[c].name
             /\ d.hash = req[c].hash /\ d.revoked = FALSE
<1> DEFINE r == req[c]
<1>1. Proper(r) /\ now \in Nat
  BY CallFacts
<1> HIDE DEF r
<1>2. /\ r.kind \in Kinds /\ r.tenant \in Texts
      /\ r.name \in Seq(Seq(Texts)) /\ r.data \in Texts
      /\ r.hash \in Texts \X Nat /\ Named(r.kind, r.name)
  BY <1>1, Asked
<1>3. Known(r.name) /\ (r.kind = "apikeys" => r.hash[1] = r.tenant)
  BY <1>1, Asked DEF r
<1> QED
  BY <1>1, <1>2, <1>3 DEF r, Document, DocumentType, DocOK, KeyOf

\* the one a save makes,
LEMMA NewAssignment ==
  ASSUME TypeInv, NEW c \in Clients, pc[c] # "idle", req[c].op = "save"
  PROVE  LET d == Assignment(c)
         IN  /\ d \in DocumentType /\ DocOK(d, now + 1)
             /\ KeyOf(c) = Key(d.kind, d.tenant, d.name)
             /\ d.createdAt = now /\ d.kind = "assignments"
<1> DEFINE r == req[c]
<1>1. Proper(r) /\ now \in Nat
  BY CallFacts
<1> HIDE DEF r
<1>2. /\ r.kind \in Kinds /\ r.tenant \in Texts
      /\ r.name \in Seq(Seq(Texts)) /\ r.data \in Texts
      /\ r.hash \in Texts \X Nat /\ Named(r.kind, r.name)
      /\ r.expires \in Nat
  BY <1>1, Asked
<1>3. r.kind = "assignments"
  BY <1>1, Asked DEF r
<1> DEFINE b == Document(c)
           d == [b EXCEPT !.expires = r.expires]
<1>4. /\ b \in DocumentType /\ b.kind = r.kind /\ b.tenant = r.tenant
      /\ b.name = r.name /\ b.createdAt = now /\ b.hash = r.hash
  BY <1>1, <1>2 DEF r, Document, DocumentType
<1> HIDE DEF b
<1>5. /\ d \in DocumentType /\ d.kind = r.kind /\ d.tenant = r.tenant
      /\ d.name = r.name /\ d.createdAt = now /\ d.hash = r.hash
  BY <1>2, <1>4 DEF DocumentType
<1>6. Assignment(c) = d
  BY DEF Assignment, b, r
<1> HIDE DEF d
<1>7. DocOK(d, now + 1) /\ KeyOf(c) = Key(d.kind, d.tenant, d.name)
  BY <1>1, <1>2, <1>3, <1>5 DEF DocOK, KeyOf, r
<1> QED
  BY <1>3, <1>5, <1>6, <1>7

\* and the one an update or a revocation makes of another.
LEMMA ChangedDoc ==
  ASSUME NEW c, Proper(req[c]), NEW d, NEW time, DocOK(d, time)
  PROVE  LET e == Changed(c, d)
         IN  /\ e \in DocumentType /\ DocOK(e, time)
             /\ e.kind = d.kind /\ e.tenant = d.tenant /\ e.name = d.name
             /\ e.createdAt = d.createdAt /\ e.hash = d.hash
             /\ req[c].op # "revoke" => e.revoked = d.revoked
<1>1. d \in DocumentType /\ req[c].data \in Texts
  BY Asked DEF DocOK
<1> QED
  BY <1>1 DEF Changed, DocumentType, DocOK

\* Postgres' writes, and MongoDB's creates;
LEMMA WritesAtOnce ==
  ASSUME TypeInv, NEW c \in Clients,
         RefuseCreate(c) \/ Create(c) \/ Save(c)
         \/ UpdateAtOnce(c) \/ RevokeAtOnce(c)
  PROVE  StoreOK' /\ CallsOK'
<1>1. pc[c] = "run" /\ pc[c] # "idle"
  BY DEF RefuseCreate, Create, Save, UpdateAtOnce, RevokeAtOnce, At
<1>2. /\ CallOK(c) /\ StoreOK /\ CallsOK /\ now \in Nat /\ Proper(req[c])
      /\ now + 1 \in Nat /\ now <= now + 1 /\ now <= now
  BY <1>1, CallFacts
<1>3. OwnTenant(c, Failed) /\ OwnTenant(c, Missing)
  BY Refusals DEF OwnTenant
<1>4. CASE RefuseCreate(c)
  <2>1. Answer(c, Failed) /\ Time /\ UNCHANGED << backend, storeVars >>
    BY <1>2, <1>4 DEF RefuseCreate, Time, storeVars
  <2> QED
    BY <1>1, <1>2, <1>3, <2>1, StoreStays, AnswerOK, Refusals
<1>5. CASE Create(c)
  <2> DEFINE d == Document(c)
  <2>1. /\ req[c].op = "create" /\ Put(KeyOf(c), d) /\ now' = now + 1
        /\ Answer(c, Found(d)) /\ UNCHANGED << backend, members, refs >>
    BY <1>5 DEF Create, At
  <2>2. /\ d \in DocumentType /\ DocOK(d, now + 1)
        /\ KeyOf(c) = Key(d.kind, d.tenant, d.name) /\ d.createdAt = now
    BY <1>1, <2>1, NewDoc
  <2>3. Time /\ OwnTenant(c, Found(d))
    BY <1>2, <2>1 DEF Time, OwnTenant
  <2> HIDE DEF d
  <2> QED
    BY <1>1, <1>2, <2>1, <2>2, <2>3, StorePut, AnswerOK, Finds
<1>6. CASE Save(c)
  <2> DEFINE d == Assignment(c)
  <2>1. /\ req[c].op = "save" /\ Put(KeyOf(c), d) /\ now' = now + 1
        /\ Answer(c, Found(d)) /\ UNCHANGED << backend, members, refs >>
    BY <1>6 DEF Save, At
  <2>2. /\ d \in DocumentType /\ DocOK(d, now + 1)
        /\ KeyOf(c) = Key(d.kind, d.tenant, d.name) /\ d.createdAt = now
    BY <1>1, <2>1, NewAssignment
  <2>3. Time /\ OwnTenant(c, Found(d))
    BY <1>2, <2>1 DEF Time, OwnTenant
  <2> HIDE DEF d
  <2> QED
    BY <1>1, <1>2, <2>1, <2>2, <2>3, StorePut, AnswerOK, Finds
<1>7. CASE UpdateAtOnce(c) /\ Stored(c)
  <2> DEFINE b == rows[KeyOf(c)]
             d == Changed(c, b)
  <2>1. /\ req[c].op = "update" /\ Put(KeyOf(c), d) /\ now' = now
        /\ Answer(c, Found(d)) /\ UNCHANGED << backend, members, refs >>
    BY <1>7 DEF UpdateAtOnce, At
  <2>2. DocOK(b, now) /\ KeyOf(c) = Key(b.kind, b.tenant, b.name)
    BY <1>1, <1>7, StoredDoc
  <2>3. /\ d \in DocumentType /\ DocOK(d, now)
        /\ d.kind = b.kind /\ d.tenant = b.tenant /\ d.name = b.name
        /\ d.createdAt = b.createdAt
    BY <1>2, <2>2, ChangedDoc
  <2>4. Time /\ OwnTenant(c, Found(d)) /\ KeyOf(c) \in DOMAIN rows
    BY <1>2, <1>7, <2>1 DEF Time, OwnTenant, Stored
  <2> HIDE DEF d
  <2>5. StoreOK'
    BY <1>2, <2>1, <2>2, <2>3, <2>4, StorePut
  <2> QED
    BY <1>1, <1>2, <2>1, <2>3, <2>4, <2>5, AnswerOK, Finds
<1>8. CASE UpdateAtOnce(c) /\ ~ Stored(c)
  <2>1. Answer(c, Failed) /\ Time /\ UNCHANGED << backend, storeVars >>
    BY <1>2, <1>8 DEF UpdateAtOnce, Time, storeVars
  <2> QED
    BY <1>1, <1>2, <1>3, <2>1, StoreStays, AnswerOK, Refusals
<1>9. CASE RevokeAtOnce(c)
  <2>1. Answer(c, Missing) /\ Time /\ UNCHANGED << backend, members, refs, now >>
    BY <1>2, <1>9 DEF RevokeAtOnce, Time
  <2>2. CallsOK'
    BY <1>1, <1>2, <1>3, <2>1, AnswerOK, Refusals
  <2>3. CASE UNCHANGED rows
    BY <1>2, <2>1, <2>2, <2>3, StoreStays DEF storeVars
  <2>4. CASE Stored(c) /\ Put(KeyOf(c), Changed(c, rows[KeyOf(c)]))
    <3> DEFINE b == rows[KeyOf(c)]
               d == Changed(c, b)
    <3>1. /\ DocOK(b, now) /\ KeyOf(c) = Key(b.kind, b.tenant, b.name)
          /\ KeyOf(c) \in DOMAIN rows
      BY <1>1, <2>4, StoredDoc DEF Stored
    <3>2. /\ DocOK(d, now) /\ d.createdAt = b.createdAt
          /\ d.kind = b.kind /\ d.tenant = b.tenant /\ d.name = b.name
      BY <1>2, <3>1, ChangedDoc
    <3> HIDE DEF d
    <3>3. Put(KeyOf(c), d)
      BY <2>4 DEF d
    <3>4. StoreOK'
      BY <1>2, <2>1, <3>1, <3>2, <3>3, StorePut
    <3> QED
      BY <2>2, <3>4
  <2> QED
    BY <1>9, <2>3, <2>4 DEF RevokeAtOnce
<1> QED
  BY <1>4, <1>5, <1>6, <1>7, <1>8, <1>9

\* what a call has in hand;
LEMMA HoldsFacts ==
  ASSUME TypeInv, NEW c \in Clients, Holds(c)
  PROVE  LET d == held[c][1]
         IN  /\ held[c] = << d >> /\ d \in DocumentType /\ DocOK(d, now)
             /\ d.kind = req[c].kind /\ d.tenant = req[c].tenant
             /\ d.name = req[c].name
             /\ KeyOf(c) = Key(d.kind, d.tenant, d.name)
BY DEF Holds, DocOK, KeyOf

\* Redis' creates,
LEMMA CreatesInRedis ==
  ASSUME TypeInv, NEW c \in Clients,
         SetDocument(c) \/ AddMember(c) \/ SetRef(c)
  PROVE  StoreOK' /\ CallsOK'
<1>1. pc[c] \in {"run", "member", "ref"} /\ req[c].op = "create"
  BY DEF SetDocument, AddMember, SetRef, At
<1>2. /\ CallOK(c) /\ PlaceOK(c) /\ StoreOK /\ CallsOK /\ now \in Nat
      /\ Proper(req[c]) /\ now + 1 \in Nat /\ now <= now + 1 /\ now <= now
  BY <1>1, CallFacts
<1>3. CASE SetDocument(c)
  <2> DEFINE d == Document(c)
  <2>1. /\ pc[c] = "run" /\ backend = "redis"
        /\ Put(KeyOf(c), d) /\ now' = now + 1
        /\ held' = [held EXCEPT ![c] = << d >>]
        /\ pc' = [pc EXCEPT ![c] = "member"]
        /\ UNCHANGED << backend, members, refs, todo, total, req, reply >>
    BY <1>3 DEF SetDocument, At, Goto
  <2>2. /\ d \in DocumentType /\ DocOK(d, now + 1)
        /\ KeyOf(c) = Key(d.kind, d.tenant, d.name) /\ d.createdAt = now
        /\ d.kind = req[c].kind /\ d.tenant = req[c].tenant
        /\ d.name = req[c].name
    BY <1>1, <2>1, NewDoc
  <2> HIDE DEF d
  <2>3. Time /\ (\A e \in Clients \ {c} : Same(e))
    BY <1>2, <2>1 DEF Time, Same, CallsOK
  <2>4. StoreOK'
    BY <1>2, <2>1, <2>2, StorePut
  <2>5. /\ pc'[c] = "member" /\ held'[c] = << d >>
        /\ DOMAIN pc' = Clients /\ DOMAIN held' = Clients
    BY <2>1 DEF CallsOK, TypeInv
  <2>6. Holds(c)'
    BY <2>1, <2>2, <2>5 DEF Holds
  <2>7. CallOK(c)'
    BY <1>1, <1>2, <2>1, <2>5, <2>6 DEF CallOK, PlaceOK
  <2> QED
    BY <1>2, <2>1, <2>3, <2>4, <2>5, <2>7, OthersStay DEF CallsOK
<1>4. CASE AddMember(c)
  <2> DEFINE m == << req[c].tenant, req[c].kind, req[c].name >>
             d == held[c][1]
  <2>1. /\ pc[c] = "member" /\ members' = members \cup {m}
        /\ UNCHANGED << backend, rows, refs, now >>
    BY <1>4 DEF AddMember, At
  <2>2. backend = "redis" /\ Holds(c)
    BY <1>1, <1>2, <2>1 DEF PlaceOK
  <2>3. MemberOK(m)
    BY <1>1, <1>2, Asked DEF MemberOK
  <2>4. IsFiniteSet(members')
    BY <1>2, <2>1, FS_AddElement DEF StoreOK
  <2>5. Time
    BY <1>2, <2>1 DEF Time
  <2> HIDE DEF m
  <2>6. StoreOK'
    BY <1>2, <2>1, <2>2, <2>3, <2>4 DEF StoreOK, KeysDated, Key
  <2>7. CASE req[c].kind = "apikeys"
    <3>1. /\ pc' = [pc EXCEPT ![c] = "ref"]
          /\ UNCHANGED << req, reply, held, todo, total >>
      BY <1>4, <2>7 DEF AddMember, Goto
    <3>2. \A e \in Clients \ {c} : Same(e)
      BY <1>2, <3>1 DEF Same, CallsOK
    <3>3. pc'[c] = "ref" /\ DOMAIN pc' = Clients
      BY <3>1 DEF CallsOK, TypeInv
    <3>4. Holds(c)'
      BY <2>1, <2>2, <3>1 DEF Holds
    <3>5. CallOK(c)'
      BY <1>1, <1>2, <2>1, <2>2, <2>7, <3>1, <3>3, <3>4 DEF CallOK, PlaceOK
    <3> QED
      BY <1>2, <2>5, <2>6, <3>1, <3>2, <3>3, <3>5, OthersStay DEF CallsOK
  <2>8. CASE req[c].kind # "apikeys"
    <3>1. Answer(c, Found(d)) /\ d \in DocumentType
      BY <1>4, <2>2, <2>8, HoldsFacts DEF AddMember
    <3>2. OwnTenant(c, Found(d))
      BY <1>1 DEF OwnTenant
    <3> HIDE DEF d
    <3> QED
      BY <1>2, <2>1, <2>5, <2>6, <3>1, <3>2, AnswerOK, Finds
  <2> QED
    BY <2>7, <2>8
<1>5. CASE SetRef(c)
  <2> DEFINE d == held[c][1]
             r == <<req[c].tenant>> \o Pieces(req[c].name)
  <2>1. /\ pc[c] = "ref"
        /\ DOMAIN refs' = DOMAIN refs \cup {req[c].hash}
        /\ \A h \in DOMAIN refs' :
             refs'[h] = IF h = req[c].hash THEN r ELSE refs[h]
        /\ Answer(c, Found(d)) /\ UNCHANGED << backend, rows, members, now >>
    BY <1>5 DEF SetRef, At
  <2>2. backend = "redis" /\ Holds(c) /\ req[c].kind = "apikeys"
    BY <1>1, <1>2, <2>1 DEF PlaceOK
  <2>3. RefOK(r, req[c].hash)
    <3>1. PICK n \in Texts : req[c].name = << <<n>> >>
      BY <1>2, <2>2, Asked, OnePiece
    <3>2. r = << req[c].tenant, n >>
      <4>1. Pieces(req[c].name) = << n >>
        BY <3>1, KeyOfOne
      <4> QED
        BY <4>1, Join11
    <3>3. req[c].tenant \in Texts /\ req[c].tenant = req[c].hash[1]
      BY <1>1, <1>2, <2>2, Asked
    <3> HIDE DEF r
    <3> QED
      BY <3>2, <3>3 DEF RefOK
  <2>4. req[c].hash \in Texts \X Nat
    BY <1>2, Asked
  <2> HIDE DEF r
  <2>5. StoreOK'
    BY <1>2, <2>1, <2>2, <2>3, <2>4 DEF StoreOK, KeysDated, Key
  <2>6. Time /\ OwnTenant(c, Found(d)) /\ d \in DocumentType
    BY <1>1, <1>2, <2>1, <2>2, HoldsFacts DEF Time, OwnTenant
  <2> HIDE DEF d
  <2> QED
    BY <1>2, <2>1, <2>5, <2>6, AnswerOK, Finds
<1> QED
  BY <1>3, <1>4, <1>5

\* deletes,
LEMMA Deletes ==
  ASSUME TypeInv, NEW c \in Clients, Delete(c) \/ RemoveMember(c)
  PROVE  StoreOK' /\ CallsOK'
<1>1. pc[c] \in {"run", "member"} /\ req[c].op = "delete"
  BY DEF Delete, RemoveMember, At
<1>2. /\ CallOK(c) /\ PlaceOK(c) /\ StoreOK /\ CallsOK /\ now \in Nat
      /\ Proper(req[c]) /\ now <= now
  BY <1>1, CallFacts
<1>3. OwnTenant(c, Missing)
  BY Refusals DEF OwnTenant
<1>4. Time
  BY <1>2 DEF Time, Delete, RemoveMember
<1>5. CASE Delete(c)
  <2>1. /\ DOMAIN rows' \subseteq DOMAIN rows
        /\ \A x \in DOMAIN rows' : rows'[x] = rows[x]
        /\ UNCHANGED << backend, members, refs, now >>
    BY <1>5 DEF Delete
  <2>2. StoreOK'
    BY <1>2, <2>1, StoreRemove
  <2>3. CASE backend = "redis"
    <3>1. /\ pc' = [pc EXCEPT ![c] = "member"]
          /\ UNCHANGED << req, reply, held, todo, total >>
      BY <1>5, <2>3 DEF Delete, Goto
    <3>2. \A e \in Clients \ {c} : Same(e)
      BY <1>2, <3>1 DEF Same, CallsOK
    <3>3. pc'[c] = "member" /\ DOMAIN pc' = Clients
      BY <3>1 DEF CallsOK, TypeInv
    <3>4. pc[c] = "run"
      BY <1>5 DEF Delete, At
    <3>5. CallOK(c)'
      BY <1>1, <1>2, <2>1, <2>3, <3>1, <3>3, <3>4 DEF CallOK, PlaceOK
    <3> QED
      BY <1>2, <1>4, <2>2, <3>1, <3>2, <3>3, <3>5, OthersStay DEF CallsOK
  <2>4. CASE backend # "redis"
    <3>1. Answer(c, Missing)
      BY <1>5, <2>4 DEF Delete
    <3> QED
      BY <1>1, <1>2, <1>3, <1>4, <2>2, <3>1, AnswerOK, Refusals
  <2> QED
    BY <2>3, <2>4
<1>6. CASE RemoveMember(c)
  <2>1. /\ members' \subseteq members /\ Answer(c, Missing)
        /\ UNCHANGED << backend, rows, refs, now >>
    BY <1>6 DEF RemoveMember
  <2>2. IsFiniteSet(members')
    BY <1>2, <2>1, FS_Subset DEF StoreOK
  <2>3. StoreOK'
    BY <1>2, <2>1, <2>2 DEF StoreOK, KeysDated, Key
  <2> QED
    BY <1>1, <1>2, <1>3, <1>4, <2>1, <2>3, AnswerOK, Refusals
<1> QED
  BY <1>5, <1>6

\* updates that read first,
LEMMA UpdatesInSteps ==
  ASSUME TypeInv, NEW c \in Clients,
         ReadFirst(c) \/ Replace(c) \/ SetBack(c)
  PROVE  StoreOK' /\ CallsOK'
<1>1. /\ pc[c] \in {"run", "write"} /\ req[c].op \in {"update", "revoke"}
      /\ backend # "postgres"
  BY DEF ReadFirst, Replace, SetBack, At
<1>2. /\ CallOK(c) /\ PlaceOK(c) /\ StoreOK /\ CallsOK /\ now \in Nat
      /\ Proper(req[c]) /\ now <= now
  BY <1>1, CallFacts
<1>3. CASE ReadFirst(c) /\ Stored(c)
  <2> DEFINE d == rows[KeyOf(c)]
  <2>1. /\ pc' = [pc EXCEPT ![c] = "write"]
        /\ held' = [held EXCEPT ![c] = << d >>]
        /\ UNCHANGED << req, reply, todo, total, backend, storeVars >>
    BY <1>3 DEF ReadFirst, Goto
  <2>2. Time /\ \A e \in Clients \ {c} : Same(e)
    BY <1>2, <2>1 DEF Same, CallsOK, Time, storeVars
  <2>3. /\ pc'[c] = "write" /\ held'[c] = << d >>
        /\ DOMAIN pc' = Clients /\ DOMAIN held' = Clients
    BY <2>1 DEF CallsOK, TypeInv
  <2>4. /\ DocOK(d, now) /\ d.kind = req[c].kind /\ d.name = req[c].name
        /\ d.tenant = req[c].tenant
    BY <1>1, <1>3, StoredDoc
  <2> HIDE DEF d
  <2>5. Holds(c)'
    BY <2>1, <2>3, <2>4 DEF Holds, storeVars
  <2>6. pc[c] = "run"
    BY <1>3 DEF ReadFirst, At
  <2>7. CallOK(c)'
    BY <1>1, <1>2, <2>1, <2>3, <2>5, <2>6 DEF CallOK, PlaceOK
  <2> QED
    BY <1>2, <2>1, <2>2, <2>3, <2>7, StoreStays, OthersStay DEF CallsOK
<1>4. CASE ReadFirst(c) /\ ~ Stored(c)
  <2>1. Answer(c, Failed) /\ Time /\ UNCHANGED << backend, storeVars >>
    BY <1>2, <1>4 DEF ReadFirst, Time, storeVars
  <2>2. OwnTenant(c, Failed)
    BY Refusals DEF OwnTenant
  <2> QED
    BY <1>1, <1>2, <2>1, <2>2, StoreStays, AnswerOK, Refusals
<1>5. CASE Replace(c) \/ SetBack(c)
  <2> DEFINE b == held[c][1]
             d == Changed(c, b)
  <2>1. /\ pc[c] = "write"
        /\ Put(KeyOf(c), d) \/ UNCHANGED rows
        /\ Answer(c, Found(d)) /\ UNCHANGED << backend, members, refs, now >>
    BY <1>5 DEF Replace, SetBack, At
  <2>2. Holds(c)
    BY <1>2, <2>1 DEF PlaceOK
  <2>3. DocOK(b, now) /\ KeyOf(c) = Key(b.kind, b.tenant, b.name)
    BY <2>2, HoldsFacts
  <2>4. /\ d \in DocumentType /\ DocOK(d, now)
        /\ d.kind = b.kind /\ d.tenant = b.tenant /\ d.name = b.name
    BY <1>2, <2>3, ChangedDoc
  <2>5. Time /\ OwnTenant(c, Found(d))
    BY <1>1, <1>2, <2>1 DEF Time, OwnTenant
  <2> HIDE DEF d
  <2>6. ASSUME Put(KeyOf(c), d)
        PROVE  StoreOK'
    <3>1. KeyOf(c) = Key(d.kind, d.tenant, d.name)
      BY <2>3, <2>4
    <3>2. now' = now /\ now' \in Nat /\ now <= now' /\ DocOK(d, now')
      BY <1>2, <2>1, <2>4
    <3> QED
      BY <1>1, <1>2, <2>1, <2>6, <3>1, <3>2, StorePut
  <2>7. ASSUME UNCHANGED rows
        PROVE  StoreOK'
    BY <1>2, <2>1, <2>7, StoreStays DEF storeVars
  <2>8. CallsOK'
    <3>1. pc[c] # "idle"
      BY <2>1
    <3> QED
      BY <1>2, <2>1, <2>4, <2>5, <3>1, AnswerOK, Finds
  <2> QED
    BY <2>1, <2>6, <2>7, <2>8
<1> QED
  BY <1>1, <1>3, <1>4, <1>5

\* reads,
LEMMA Reads ==
  ASSUME TypeInv, NEW c \in Clients,
         Get(c) \/ GetAssignment(c) \/ FindByHash(c) \/ ReadRef(c)
         \/ FollowRef(c)
  PROVE  StoreOK' /\ CallsOK'
<1>1. /\ pc[c] \in {"run", "follow"} /\ UNCHANGED << backend, storeVars >>
  BY DEF Get, GetAssignment, FindByHash, ReadRef, FollowRef, At
<1>2. /\ CallOK(c) /\ PlaceOK(c) /\ StoreOK /\ CallsOK /\ now \in Nat
      /\ Proper(req[c]) /\ backend \in Backends
  BY <1>1, CallFacts DEF StoreOK
<1>3. Time
  BY <1>1, <1>2 DEF Time, storeVars
<1>4. StoreOK'
  BY <1>1, <1>2, StoreStays
<1>5. ASSUME Answer(c, Missing)
      PROVE  CallsOK'
  <2>1. OwnTenant(c, Missing)
    BY Refusals DEF OwnTenant
  <2> QED
    BY <1>1, <1>2, <1>3, <1>5, <2>1, AnswerOK, Refusals
<1>6. ASSUME NEW d \in DocumentType, Answer(c, Found(d)),
             req[c].op = "findByHash" => d.tenant = req[c].hash[1]
      PROVE  CallsOK'
  <2>1. Found(d) \in ReplyType /\ Found(d).items = << d >>
    BY Finds
  <2>2. Found(d).items[1] = d
    BY <2>1
  <2>3. OwnTenant(c, Found(d))
    BY <1>6, <2>2 DEF OwnTenant
  <2> QED
    BY <1>1, <1>2, <1>3, <1>6, <2>1, <2>3, AnswerOK
<1>7. CASE Get(c) \/ GetAssignment(c)
  <2>1. req[c].op = "get"
    BY <1>7 DEF Get, GetAssignment, At
  <2>2. Answer(c, Missing) \/ (Stored(c) /\ Answer(c, Found(rows[KeyOf(c)])))
    BY <1>7 DEF Get, GetAssignment
  <2>3. Stored(c) => rows[KeyOf(c)] \in DocumentType
    BY <1>1, StoredDoc
  <2> QED
    BY <1>4, <1>5, <1>6, <2>1, <2>2, <2>3
<1>8. CASE FindByHash(c)
  <2>1. Answer(c, Missing)
        \/ \E k \in HashOf(req[c].hash) : Answer(c, Found(rows[k]))
    BY <1>8 DEF FindByHash
  <2>2. ASSUME NEW k \in HashOf(req[c].hash)
        PROVE  rows[k] \in DocumentType /\ rows[k].tenant = req[c].hash[1]
    BY <1>2 DEF HashOf, StoreOK, DocOK
  <2> QED
    BY <1>4, <1>5, <1>6, <2>1, <2>2
<1>9. CASE ReadRef(c) /\ req[c].hash \in DOMAIN refs
  <2> DEFINE r == refs[req[c].hash]
  <2>1. /\ pc[c] = "run" /\ req[c].op = "findByHash" /\ backend = "redis"
        /\ pc' = [pc EXCEPT ![c] = "follow"]
        /\ todo' = [todo EXCEPT ![c] = << r >>]
        /\ UNCHANGED << req, reply, held, total >>
    BY <1>9 DEF ReadRef, At, Goto
  <2>2. \A e \in Clients \ {c} : Same(e)
    BY <1>2, <2>1 DEF Same, CallsOK
  <2>3. /\ pc'[c] = "follow" /\ todo'[c] = << r >>
        /\ DOMAIN pc' = Clients /\ DOMAIN todo' = Clients
    BY <2>1 DEF CallsOK, TypeInv
  <2>4. RefOK(r, req[c].hash)
    BY <1>2, <1>9 DEF StoreOK
  <2> HIDE DEF r
  <2>5. CallOK(c)'
    BY <1>1, <1>2, <2>1, <2>3, <2>4 DEF CallOK, PlaceOK
  <2> QED
    BY <1>2, <1>3, <1>4, <2>1, <2>2, <2>3, <2>5, OthersStay DEF CallsOK
<1>10. CASE ReadRef(c) /\ req[c].hash \notin DOMAIN refs
  BY <1>4, <1>5, <1>10 DEF ReadRef
<1>11. CASE FollowRef(c)
  <2> DEFINE r == todo[c][1]
             k == Key("apikeys", Head(r), << Tail(r) >>)
  <2>1. pc[c] = "follow" /\ backend = "redis" /\ RefOK(r, req[c].hash)
    BY <1>2, <1>11 DEF FollowRef, PlaceOK
  <2>2. Answer(c, Missing)
        \/ (k \in DOMAIN rows /\ Answer(c, Found(rows[k])))
    BY <1>11 DEF FollowRef
  <2>3. ASSUME k \in DOMAIN rows
        PROVE  rows[k] \in DocumentType /\ rows[k].tenant = req[c].hash[1]
    <3> DEFINE d == rows[k]
    <3>1. /\ DocOK(d, now) /\ k = Key(d.kind, d.tenant, d.name)
      BY <1>2, <2>3 DEF StoreOK
    <3>2. d \in DocumentType /\ d.kind \in Kinds /\ Named(d.kind, d.name)
      BY <3>1 DEF DocOK, DocumentType
    <3>3. /\ r = << r[1], r[2] >> /\ r[1] \in Texts /\ r[2] \in Texts
          /\ r[1] = req[c].hash[1]
      BY <2>1, Double DEF RefOK
    <3> HIDE DEF d, r
    <3>4. Head(r) = r[1] /\ Tail(r) = << r[2] >>
      BY <3>3, HeadAndTail
    <3>5. Named("apikeys", << << r[2] >> >>)
      BY <3>3 DEF Named
    <3>6. Key(d.kind, d.tenant, d.name) = Key("apikeys", r[1], << << r[2] >> >>)
      BY <3>1, <3>4
    <3>7. "apikeys" \in Kinds
      BY DEF Kinds
    <3>8. d.tenant = r[1]
      BY <1>2, <2>1, <3>2, <3>5, <3>6, <3>7, KeyInjective
    <3> QED
      BY <3>2, <3>3, <3>8 DEF d
  <2> QED
    BY <1>4, <1>5, <1>6, <2>2, <2>3
<1> QED
  BY <1>7, <1>8, <1>9, <1>10, <1>11

\* lists,
LEMMA Lists ==
  ASSUME TypeInv, NEW c \in Clients,
         \/ Count(c) \/ Fetch(c) \/ CountMatches(c) \/ FetchMatches(c)
         \/ ReadMembers(c) \/ ReadItem(c) \/ EndList(c)
  PROVE  StoreOK' /\ CallsOK'
<1>1. /\ pc[c] \in {"run", "fetch", "items"}
      /\ UNCHANGED << backend, storeVars >>
  BY DEF Count, Fetch, CountMatches, FetchMatches, ReadMembers, ReadItem,
     EndList, At
<1>2. /\ CallOK(c) /\ PlaceOK(c) /\ StoreOK /\ CallsOK /\ now \in Nat
      /\ Proper(req[c]) /\ backend \in Backends
      /\ DOMAIN pc = Clients /\ DOMAIN held = Clients
      /\ DOMAIN todo = Clients /\ DOMAIN total = Clients
  BY <1>1, CallFacts DEF StoreOK, CallsOK
<1>3. Time
  BY <1>1, <1>2 DEF Time, storeVars
<1>4. StoreOK'
  BY <1>1, <1>2, StoreStays
<1>5. req[c].op = "list"
  BY <1>2 DEF Count, Fetch, CountMatches, FetchMatches, ReadMembers, ReadItem,
     EndList, At, PlaceOK
<1>6. /\ req[c].kind \in Kinds /\ req[c].kind # "assignments"
      /\ req[c].page \in Int /\ req[c].per \in Int
  BY <1>2, <1>5, Asked
<1>7. CASE Count(c)
  <2> DEFINE n == Cardinality(Listed(req[c].kind, req[c].tenant))
  <2>1. /\ pc[c] = "run" /\ backend # "redis"
        /\ pc' = [pc EXCEPT ![c] = "fetch"]
        /\ total' = [total EXCEPT ![c] = n]
        /\ UNCHANGED << req, reply, held, todo >>
    BY <1>7 DEF Count, At, Goto
  <2>2. n \in Nat
    BY <1>2, <1>6, <2>1, ListedCount
  <2> HIDE DEF n
  <2>3. \A e \in Clients \ {c} : Same(e)
    BY <1>2, <2>1 DEF Same
  <2>4. CallOK(c)'
    BY <1>1, <1>2, <1>5, <2>1, <2>2 DEF CallOK, PlaceOK
  <2> QED
    BY <1>2, <1>3, <1>4, <2>1, <2>3, <2>4, OthersStay DEF CallsOK
<1>8. CASE Fetch(c)
  <2> DEFINE items == Cut(c, InOrder(Listed(req[c].kind, req[c].tenant),
                                     Precedes))
             r == [ok |-> TRUE, found |-> FALSE, items |-> items,
                   total |-> total[c]]
             from == Offset(Page(req[c].page), PerPage(req[c].per))
  <2>1. /\ pc[c] = "fetch" /\ backend # "redis"
        /\ Answer(c, IF from < 0 THEN Failed ELSE r)
    BY <1>2, <1>8 DEF Fetch, PlaceOK
  <2>2. from \in Int
    <3>1. PerPage(req[c].per) \in Int /\ Page(req[c].page) \in Int
      BY <1>6, PerPageType DEF Page
    <3> QED
      BY <3>1, OffsetType
  <2>3. ~ (from < 0) => r \in ReplyType
    <3>1. ~ (from < 0) => items \in Seq(DocumentType)
      BY <1>2, <1>5, <2>1, <2>2, Fetched
    <3>2. total[c] \in Nat
      BY <1>2 DEF CallOK
    <3> HIDE DEF items
    <3> QED
      BY <3>1, <3>2 DEF ReplyType
  <2> HIDE DEF r, from
  <2>4. PICK a \in ReplyType : Answer(c, a)
    BY <2>1, <2>3, Refusals
  <2>5. OwnTenant(c, a)
    BY <1>5 DEF OwnTenant
  <2> QED
    BY <1>1, <1>2, <1>3, <1>4, <2>4, <2>5, AnswerOK
<1>9. CASE ReadMembers(c)
  <2> DEFINE all == InOrder(MembersOf(c), ByRank)
  <2>1. /\ pc[c] = "run" /\ backend = "redis" /\ Sliceable(c)
        /\ pc' = [pc EXCEPT ![c] = "items"]
        /\ total' = [total EXCEPT ![c] = Len(all)]
        /\ todo' = [todo EXCEPT ![c] = Cut(c, all)]
        /\ UNCHANGED << req, reply, held >>
    BY <1>9 DEF ReadMembers, At, Goto
  <2>2. all \in Seq(Seq(Seq(Texts)))
    <3> DEFINE S == MembersOf(c)
               f == NameRank(c)
    <3>1. /\ IsFiniteSet(S) /\ S \subseteq Seq(Seq(Texts))
          /\ f \in [S -> Int]
          /\ \A m, n \in S : f[m] = f[n] => m = n
          /\ all = Ranked(S, f)
      BY <1>2, MembersRanked
    <3> HIDE DEF S, f
    <3>2. all \in Seq(S)
      BY <3>1, Sorted
    <3> QED
      BY <3>1, <3>2, SeqMonotonic
  <2> HIDE DEF all
  <2>3. Cut(c, all) \in Seq(Seq(Seq(Texts)))
    BY <1>6, <2>1, <2>2, CutIs DEF Sliceable
  <2>4. held[c] = << >> /\ << >> \in Seq(DocumentType)
    BY <1>2, <2>1 DEF CallOK
  <2>5. Len(all) \in Nat
    BY <2>2
  <2>6. \A e \in Clients \ {c} : Same(e)
    BY <1>2, <2>1 DEF Same
  <2>7. /\ pc'[c] = "items" /\ todo'[c] = Cut(c, all) /\ total'[c] = Len(all)
        /\ reply'[c] = NoReply /\ req'[c] = req[c] /\ held'[c] = << >>
        /\ DOMAIN pc' = Clients /\ DOMAIN todo' = Clients
        /\ DOMAIN total' = Clients
    BY <1>2, <2>1, <2>4 DEF CallOK
  <2>8. CallOK(c)'
    BY <1>1, <1>2, <1>5, <2>1, <2>3, <2>4, <2>5, <2>7 DEF CallOK, PlaceOK
  <2> QED
    BY <1>2, <1>3, <1>4, <2>1, <2>6, <2>7, <2>8, OthersStay DEF CallsOK
<1>10. CASE ReadItem(c)
  <2> DEFINE k == Key(req[c].kind, req[c].tenant, Head(todo[c]))
  <2>1. /\ pc[c] = "items" /\ todo[c] # << >>
        /\ held' = [held EXCEPT ![c] =
                      IF k \in DOMAIN rows THEN Append(held[c], rows[k])
                                           ELSE held[c]]
        /\ todo' = [todo EXCEPT ![c] = Tail(todo[c])]
        /\ UNCHANGED << pc, req, total, reply >>
    BY <1>10 DEF ReadItem
  <2>2. /\ held[c] \in Seq(DocumentType) /\ todo[c] \in Seq(Seq(Seq(Texts)))
        /\ backend = "redis"
    BY <1>2, <2>1 DEF PlaceOK
  <2>3. k \in DOMAIN rows => rows[k] \in DocumentType
    BY <1>2 DEF StoreOK, DocOK
  <2> HIDE DEF k
  <2>4. held'[c] \in Seq(DocumentType)
    <3>1. CASE k \in DOMAIN rows
      <4>1. Append(held[c], rows[k]) \in Seq(DocumentType)
        BY <2>2, <2>3, <3>1, AppendProperties
      <4> QED
        BY <1>2, <2>1, <3>1, <4>1
    <3>2. CASE k \notin DOMAIN rows
      BY <1>2, <2>1, <2>2, <3>2
    <3> QED
      BY <3>1, <3>2
  <2>5. todo'[c] \in Seq(Seq(Seq(Texts)))
    <3>1. Tail(todo[c]) \in Seq(Seq(Seq(Texts)))
      BY <2>1, <2>2, HeadTailProperties
    <3> QED
      BY <1>2, <2>1, <3>1
  <2>6. \A e \in Clients \ {c} : Same(e)
    BY <1>2, <2>1 DEF Same
  <2>7. CallOK(c)'
    BY <1>1, <1>2, <1>5, <2>1, <2>2, <2>4, <2>5 DEF CallOK, PlaceOK
  <2> QED
    BY <1>2, <1>3, <1>4, <2>1, <2>6, <2>7, OthersStay DEF CallsOK
<1>11. CASE EndList(c)
  <2> DEFINE r == [ok |-> TRUE, found |-> FALSE, items |-> held[c],
                   total |-> total[c]]
  <2>1. pc[c] = "items" /\ Answer(c, r)
    BY <1>11 DEF EndList
  <2>2. held[c] \in Seq(DocumentType) /\ total[c] \in Nat
    BY <1>2, <2>1 DEF PlaceOK, CallOK
  <2>3. r \in ReplyType /\ OwnTenant(c, r)
    BY <1>5, <2>2 DEF ReplyType, OwnTenant
  <2> HIDE DEF r
  <2> QED
    BY <1>1, <1>2, <1>3, <1>4, <2>1, <2>3, AnswerOK
<1>12. OfKind(req[c].kind) \subseteq DocumentType
       /\ Cardinality(OfKind(req[c].kind)) \in Nat
  BY <1>2, KindCount
<1>13. CASE CountMatches(c)
  <2> DEFINE most == Cardinality(OfKind(req[c].kind))
  <2>4. PICK n \in 0 .. most : total' = [total EXCEPT ![c] = n]
    BY <1>13 DEF CountMatches
  <2>5. n \in Nat
    BY <1>12, <2>4
  <2>1. /\ pc[c] = "run" /\ backend # "redis"
        /\ pc' = [pc EXCEPT ![c] = "fetch"]
        /\ total' = [total EXCEPT ![c] = n]
        /\ UNCHANGED << req, reply, held, todo >>
    BY <1>13, <2>4 DEF CountMatches, At, Goto
  <2>2. \A e \in Clients \ {c} : Same(e)
    BY <1>2, <2>1 DEF Same
  <2>3. CallOK(c)'
    BY <1>1, <1>2, <1>5, <2>1, <2>5 DEF CallOK, PlaceOK
  <2> QED
    BY <1>2, <1>3, <1>4, <2>1, <2>2, <2>3, OthersStay DEF CallsOK
<1>14. CASE FetchMatches(c)
  <2>1. total[c] \in Nat /\ pc[c] # "idle"
    BY <1>2, <1>14 DEF FetchMatches, CallOK
  <2>2. PerPage(req[c].per) \in Nat
    BY <1>6, PerPageType, PagingAssumption
  <2>3. ASSUME NEW n \in 0 .. PerPage(req[c].per),
               NEW items \in [1 .. n -> OfKind(req[c].kind)]
        PROVE  [ok |-> TRUE, found |-> FALSE, items |-> items,
                total |-> total[c]] \in ReplyType
    <3>1. n \in Nat /\ items \in [1 .. n -> DocumentType]
      BY <1>12, <2>2
    <3>2. items \in Seq(DocumentType)
      BY <3>1, IsSequence
    <3> QED
      BY <2>1, <3>2 DEF ReplyType
  <2>4. PICK a \in ReplyType : Answer(c, a)
    BY <1>14, <2>3, Refusals DEF FetchMatches
  <2>5. OwnTenant(c, a)
    BY <1>5 DEF OwnTenant
  <2> QED
    BY <1>1, <1>2, <1>3, <1>4, <2>1, <2>4, <2>5, AnswerOK
<1> QED
  BY <1>7, <1>8, <1>9, <1>10, <1>11, <1>13, <1>14

\* failures and panics,
LEMMA Refusing ==
  ASSUME TypeInv, NEW c \in Clients, Panic(c) \/ Fail(c) \/ SkipItem(c)
  PROVE  StoreOK' /\ CallsOK'
<1>1. UNCHANGED << backend, storeVars >>
  BY DEF Panic, Fail, SkipItem
<1>2. /\ CallOK(c) /\ StoreOK /\ CallsOK /\ now \in Nat /\ Time
  BY <1>1, CallFacts DEF Time, storeVars
<1>3. StoreOK'
  BY <1>1, <1>2, StoreStays
<1>4. CASE Fail(c)
  <2>1. Answer(c, Failed) /\ pc[c] # "idle" /\ OwnTenant(c, Failed)
    BY <1>4, Refusals DEF Fail, InFlight, OwnTenant
  <2> QED
    BY <1>2, <1>3, <2>1, AnswerOK, Refusals
<1>5. CASE Panic(c)
  <2>1. ASSUME NEW d \in Clients
        PROVE  CallOK(d)'
    <3>1. /\ pc'[d] = IF InFlight(d) THEN "done" ELSE pc[d]
          /\ reply'[d] = IF InFlight(d) THEN Failed ELSE reply[d]
          /\ held'[d] = << >> /\ todo'[d] = << >> /\ total'[d] = 0
          /\ req' = req
      BY <1>5 DEF Panic
    <3>2. CallOK(d)
      BY <1>2 DEF CallsOK
    <3>3. CASE InFlight(d)
      BY <3>1, <3>2, <3>3, Refusals DEF InFlight, CallOK, PlaceOK, OwnTenant
    <3>4. CASE ~ InFlight(d)
      BY <3>1, <3>2, <3>4 DEF InFlight, CallOK, PlaceOK, OwnTenant
    <3> QED
      BY <3>3, <3>4
  <2> QED
    BY <1>2, <1>3, <1>5, <2>1 DEF CallsOK, Panic
<1>6. CASE SkipItem(c)
  <2>1. /\ pc[c] = "items" /\ todo[c] # << >>
        /\ todo' = [todo EXCEPT ![c] = Tail(todo[c])]
        /\ UNCHANGED << pc, req, held, total, reply >>
    BY <1>6 DEF SkipItem
  <2>2. todo[c] \in Seq(Seq(Seq(Texts)))
    BY <1>2, <2>1 DEF PlaceOK, CallOK
  <2>3. Tail(todo[c]) \in Seq(Seq(Seq(Texts)))
    BY <2>1, <2>2, HeadTailProperties
  <2>4. todo'[c] \in Seq(Seq(Seq(Texts)))
    BY <1>2, <2>1, <2>3 DEF CallsOK
  <2>5. \A e \in Clients \ {c} : Same(e)
    BY <1>2, <2>1 DEF Same, CallsOK
  <2>6. CallOK(c)'
    BY <1>1, <1>2, <2>1, <2>4 DEF CallOK, PlaceOK, OwnTenant
  <2> QED
    BY <1>2, <1>3, <2>1, <2>5, <2>6, OthersStay DEF CallsOK
<1> QED
  BY <1>4, <1>5, <1>6

\* that is every step of a call,
LEMMA ServeTypes ==
  ASSUME TypeInv, NEW c \in Clients, Serve(c)
  PROVE  StoreOK' /\ CallsOK'
BY WritesAtOnce, CreatesInRedis, Deletes, UpdatesInSteps, Reads, Lists,
   Refusing DEF Serve

\* and the end of an assignment.
LEMMA ExpireTypes ==
  ASSUME TypeInv, Expire
  PROVE  StoreOK' /\ CallsOK'
<1>1. /\ UNCHANGED << backend, members, refs, now, callVars >>
      /\ DOMAIN rows' \subseteq DOMAIN rows
      /\ \A x \in DOMAIN rows' : rows'[x] = rows[x]
  BY DEF Expire
<1>2. StoreOK /\ CallsOK /\ now \in Nat
  BY DEF TypeInv, StoreOK
<1>3. \A c \in Clients : Same(c) /\ Time
  BY <1>1, <1>2 DEF Same, Time, callVars
<1>4. \A c \in Clients : CallOK(c)'
  BY <1>2, <1>3, CallStays DEF CallsOK
<1>5. CallsOK'
  BY <1>1, <1>2, <1>4 DEF CallsOK, callVars
<1> QED
  BY <1>1, <1>2, <1>5, StoreRemove

\* Names and numbers of the requests.
LEMMA NameOf ==
  ASSUME NEW n \in Texts
  PROVE  Name(n) \in Seq(Seq(Texts))
         /\ \A kind : kind # "assignments" => Named(kind, Name(n))
<1>1. <<n>> \in Seq(Texts) /\ << <<n>> >> \in Seq(Seq(Texts))
  OBVIOUS
<1> QED
  BY <1>1 DEF Name, Named

\* Facts about small numbers, for leaves that must not see more.
LEMMA Counts == 0 \in Nat /\ 0 \in Int /\ 1 \in Nat /\ 1 < 2
OBVIOUS

\* The page asked for, as the handlers clamp it.
LEMMA PageNumber == ASSUME NEW n \in Int PROVE Page(n) \in Nat
BY DEF Page

\* A place before the end is a natural number.
LEMMA Earlier == ASSUME NEW n \in Nat, NEW i \in 1 .. n - 1 PROVE i \in Nat
OBVIOUS

\* A request is of its type.
LEMMA AskIs ==
  ASSUME NEW op \in Operations, NEW kind \in Kinds, NEW tenant \in Texts,
         NEW name \in Seq(Seq(Texts)), NEW data \in Texts, "" \in Texts
  PROVE  Ask(op, kind, tenant, name, data) \in RequestType
<1>1. NoHash \in Texts \X Nat
  BY DEF NoHash
<1> QED
  BY <1>1, Counts, Zenon DEF Ask, RequestType

\* A request for the first page is always for the first page.
LEMMA FirstPage ==
  ASSUME NEW r \in RequestType, r.page = 0, r.per = 0, r.asked = 1
  PROVE  r.asked > 0 /\ (Fits(r.asked, PerPage(r.per)) => Page(r.page) = r.asked)
BY DEF Page

\* What HTTP asks, in 32 bits.
LEMMA AskedFits ==
  ASSUME NEW n \in Int, NEW m \in Int
  PROVE  LET asked == AskedPage(n)
             page == Int32(AskedPage(n))
             per == Int32(AskedPerPage(m))
         IN  /\ asked \in Nat /\ asked > 0 /\ page \in Int /\ per \in Int
             /\ Fits(asked, PerPage(per)) => Page(page) = asked
<1> DEFINE asked == AskedPage(n)
           page == Int32(AskedPage(n))
           per == Int32(AskedPerPage(m))
<1>1. asked \in Nat /\ asked > 0 /\ AskedPerPage(m) \in Int
  BY PagingAssumption DEF AskedPage, AskedPerPage
<1>2. \A i \in Int : Int32(i) \in Int
  <2> TAKE i \in Int
  <2>1. PICK w \in Nat \ {0} : w = 2 * Half
    BY PagingAssumption
  <2>2. PICK j \in Int : j = i + Half
    BY PagingAssumption
  <2>3. j % w \in Int
    BY DivMod
  <2> QED
    BY <2>1, <2>2, <2>3, PagingAssumption DEF Int32
<1>3. page \in Int /\ per \in Int
  BY <1>1, <1>2
<1>4. ASSUME Fits(asked, PerPage(per))
      PROVE  Page(page) = asked
  <2> DEFINE q == PerPage(per)
  <2>1. q \in 1 .. MaxPerPage /\ MaxPerPage \in Nat /\ Half \in Nat
    BY <1>3, PerPageType, PagingAssumption
  <2>2. asked * q < Half
    BY <1>4 DEF Fits
  <2> HIDE DEF q, asked
  <2>3. asked <= asked * q
    BY <1>1, <2>1
  <2>4. asked < Half
    BY <1>1, <2>1, <2>2, <2>3
  <2>5. Int32(asked) = asked
    BY <1>1, <2>1, <2>4, Fixed
  <2> QED
    BY <1>1, <2>5 DEF Page, asked
<1> QED
  BY <1>1, <1>3, <1>4

\* The handlers' requests are proper: what they do to a flag,
LEMMA AskProper ==
  ASSUME NEW op \in Operations, NEW kind \in Kinds, NEW tenant \in Texts,
         NEW name \in Seq(Seq(Texts)), NEW data \in Texts, "" \in Texts,
         op \in Methods(kind), kind # "apikeys" \/ op # "create",
         Named(kind, name), op = "create" => Known(name)
  PROVE  Proper(Ask(op, kind, tenant, name, data))
<1> DEFINE r == Ask(op, kind, tenant, name, data)
<1>1. r \in RequestType
  BY AskIs
<1>2. /\ r.op = op /\ r.kind = kind /\ r.tenant = tenant /\ r.name = name
      /\ r.page = 0 /\ r.per = 0 /\ r.asked = 1
  BY DEF Ask
<1> HIDE DEF r
<1>3. Proper(r)
  BY <1>1, <1>2, FirstPage DEF Proper
<1> QED
  BY <1>3 DEF r

\* a key that is made,
LEMMA CreateKeyProper ==
  ASSUME NEW tenant \in Texts, NEW id \in Texts, NEW hash \in Texts \X Nat,
         "" \in Texts, "active" \in Texts, hash[1] = tenant, Known(Name(id))
  PROVE  Proper(CreateKey(tenant, id, hash))
<1> DEFINE b == Ask("create", "apikeys", tenant, Name(id), "active")
           r == [b EXCEPT !.hash = hash]
<1>1. /\ "create" \in Operations /\ "apikeys" \in Kinds
      /\ "create" \in Methods("apikeys")
  BY DEF Operations, Kinds, Methods
<1>2. Name(id) \in Seq(Seq(Texts)) /\ Named("apikeys", Name(id))
  BY NameOf
<1>3. b \in RequestType
  BY <1>1, <1>2, AskIs
<1>4. /\ b.op = "create" /\ b.kind = "apikeys" /\ b.tenant = tenant
      /\ b.name = Name(id) /\ b.page = 0 /\ b.per = 0 /\ b.asked = 1
  BY DEF Ask
<1> HIDE DEF b
<1>5. /\ r \in RequestType /\ r.op = b.op /\ r.kind = b.kind
      /\ r.tenant = b.tenant /\ r.name = b.name /\ r.hash = hash
      /\ r.page = b.page /\ r.per = b.per /\ r.asked = b.asked
  BY <1>3 DEF RequestType
<1>6. CreateKey(tenant, id, hash) = r
  BY DEF CreateKey, b
<1> HIDE DEF r
<1>7. Proper(r)
  BY <1>1, <1>2, <1>4, <1>5, FirstPage DEF Proper
<1> QED
  BY <1>6, <1>7

\* or looked up,
LEMMA FindKeyProper ==
  ASSUME NEW hash \in Texts \X Nat, "" \in Texts
  PROVE  Proper(FindKey(hash))
<1> DEFINE b == Ask("findByHash", "apikeys", "", Name(""), "")
           r == [b EXCEPT !.hash = hash]
<1>1. /\ "findByHash" \in Operations /\ "apikeys" \in Kinds
      /\ "findByHash" \in Methods("apikeys")
  BY DEF Operations, Kinds, Methods
<1>2. Name("") \in Seq(Seq(Texts)) /\ Named("apikeys", Name(""))
  BY NameOf
<1>3. b \in RequestType
  BY <1>1, <1>2, AskIs
<1>4. /\ b.op = "findByHash" /\ b.kind = "apikeys"
      /\ b.name = Name("") /\ b.page = 0 /\ b.per = 0 /\ b.asked = 1
  BY DEF Ask
<1> HIDE DEF b
<1>5. /\ r \in RequestType /\ r.op = b.op /\ r.kind = b.kind
      /\ r.name = b.name
      /\ r.page = b.page /\ r.per = b.per /\ r.asked = b.asked
  BY <1>3 DEF RequestType
<1>6. FindKey(hash) = r
  BY DEF FindKey, b
<1> HIDE DEF r
<1>7. Proper(r)
  BY <1>1, <1>2, <1>4, <1>5, FirstPage DEF Proper
<1> QED
  BY <1>6, <1>7

\* and a page of a list.
LEMMA PageProper ==
  ASSUME NEW kind \in {"flags", "apikeys"}, NEW p \in Int \X Int,
         "" \in Texts, NEW t \in Texts
  PROVE  Proper(PageAsked(kind, t, p))
<1> DEFINE b == Ask("list", kind, t, Name(""), "")
           page == Int32(AskedPage(p[1]))
           per == Int32(AskedPerPage(p[2]))
           asked == AskedPage(p[1])
           first == Page(page)
           m == [b EXCEPT !.page = page, !.per = per, !.asked = first]
           r == [m EXCEPT !.asked = asked]
<1>1. "list" \in Operations /\ kind \in Kinds /\ "list" \in Methods(kind)
  BY DEF Operations, Kinds, Methods
<1>2. Name("") \in Seq(Seq(Texts)) /\ Named(kind, Name(""))
  BY NameOf
<1>3. b \in RequestType
  BY <1>1, <1>2, AskIs
<1>4. b.op = "list" /\ b.kind = kind /\ b.name = Name("")
  BY DEF Ask
<1>5. /\ asked \in Nat /\ asked > 0
      /\ page \in Int /\ per \in Int /\ first \in Nat
      /\ Fits(asked, PerPage(per)) => first = asked
  <2>1. p[1] \in Int /\ p[2] \in Int
    OBVIOUS
  <2>2. /\ asked \in Nat /\ asked > 0 /\ page \in Int /\ per \in Int
        /\ Fits(asked, PerPage(per)) => Page(page) = asked
    BY <2>1, AskedFits
  <2>3. Page(page) \in Nat
    BY <2>2, PageNumber
  <2> QED
    BY <2>2, <2>3
<1>6. PageAsked(kind, t, p) = r
  BY DEF PageAsked, ListPage
<1> HIDE DEF b, page, per, asked
<1>7. /\ m \in RequestType /\ m.op = b.op /\ m.kind = b.kind
      /\ m.name = b.name /\ m.page = page /\ m.per = per
  BY <1>3, <1>5 DEF RequestType
<1>8. first = Page(page)
  OBVIOUS
<1> HIDE DEF m, first
<1>9. /\ r \in RequestType /\ r.op = m.op /\ r.kind = m.kind
      /\ r.name = m.name /\ r.page = m.page /\ r.per = m.per
      /\ r.asked = asked
  BY <1>5, <1>7 DEF RequestType
<1> HIDE DEF r
<1>10. Proper(r)
  BY <1>1, <1>2, <1>4, <1>5, <1>7, <1>8, <1>9 DEF Proper
<1> QED
  BY <1>6, <1>10

\* So every call of the handlers is proper.
LEMMA HandlersAsk ==
  ASSUME TypeInv, NEW c \in Clients, Call(c)
  PROVE  \E r : Proper(r) /\ Begin(c, r)
<1>1. /\ "" \in Texts /\ "active" \in Texts /\ "new" \in Texts
      /\ "off" \in Texts /\ "some-id" \in Texts
      /\ Tenants \subseteq Texts /\ Home \in Texts /\ next \in Nat
      /\ KeyPages \subseteq Int \X Int /\ ListPages \subseteq Int \X Int
      /\ \A n \in ChangedFlags \cup {Name("")} :
           n \in Seq(Seq(Texts)) /\ Named("flags", n) /\ Known(n)
  BY HandlersAssumption DEF Home, TypeInv, Named
<1>2. CASE HandleCreateAPIKey(c)
  <2>1. PICK t \in Tenants : Begin(c, CreateKey(t, "", << t, next >>))
    BY <1>2 DEF HandleCreateAPIKey
  <2> DEFINE hash == << t, next >>
  <2>2. t \in Texts /\ hash \in Texts \X Nat /\ hash[1] = t
    BY <1>1
  <2> HIDE DEF hash
  <2>3. Known(Name(""))
    BY <1>1
  <2>4. Proper(CreateKey(t, "", hash))
    BY <1>1, <2>2, <2>3, CreateKeyProper
  <2> QED
    BY <2>1, <2>4 DEF hash
<1>3. CASE HandleListAPIKeys(c)
  <2>1. PICK t \in Tenants, p \in KeyPages : Begin(c, PageAsked("apikeys", t, p))
    BY <1>3 DEF HandleListAPIKeys
  <2> QED
    BY <1>1, <2>1, PageProper
<1>4. CASE HandleListFlags(c)
  <2>1. PICK p \in ListPages : Begin(c, PageAsked("flags", Home, p))
    BY <1>4 DEF HandleListFlags
  <2> QED
    BY <1>1, <2>1, PageProper
<1>5. CASE HandleRevokeAPIKey(c)
  <2> DEFINE name == Name("some-id")
  <2>1. Begin(c, Ask("revoke", "apikeys", Home, name, ""))
    BY <1>5 DEF HandleRevokeAPIKey
  <2>2. /\ "revoke" \in Operations /\ "apikeys" \in Kinds
        /\ "revoke" \in Methods("apikeys")
    BY DEF Operations, Kinds, Methods
  <2>3. name \in Seq(Seq(Texts)) /\ Named("apikeys", name)
    BY <1>1, NameOf
  <2> HIDE DEF name
  <2>4. Proper(Ask("revoke", "apikeys", Home, name, ""))
    BY <1>1, <2>2, <2>3, AskProper
  <2> QED
    BY <2>1, <2>4
<1>6. CASE HandleChangeFlag(c)
  <2>1. PICK n \in ChangedFlags, op \in {"delete", "create", "update"},
             data \in {"", "new", "off"} :
          Begin(c, Ask(op, "flags", Home, n, data))
    BY <1>6 DEF HandleChangeFlag
  <2>2. /\ n \in Seq(Seq(Texts)) /\ Named("flags", n) /\ Known(n)
        /\ op \in Operations /\ "flags" \in Kinds /\ op \in Methods("flags")
        /\ data \in Texts
    BY <1>1 DEF Operations, Kinds, Methods
  <2>3. Proper(Ask(op, "flags", Home, n, data))
    BY <1>1, <2>2, AskProper
  <2> QED
    BY <2>1, <2>3
<1>7. CASE LookUp(c)
  <2>1. PICK t \in Tenants, i \in 1 .. next - 1 : Begin(c, FindKey(<< t, i >>))
    BY <1>7 DEF LookUp
  <2> DEFINE hash == << t, i >>
  <2>2. t \in Texts /\ i \in Nat
    BY <1>1, Earlier
  <2>3. hash \in Texts \X Nat
    BY <2>2
  <2> HIDE DEF hash
  <2>4. Proper(FindKey(hash))
    BY <1>1, <2>3, FindKeyProper
  <2> QED
    BY <2>1, <2>4 DEF hash
<1> QED
  BY <1>2, <1>3, <1>4, <1>5, <1>6, <1>7 DEF Call

-----------------------------------------------------------------------------
(* The types, and whose key a lookup finds *)

\* The flags there are from the start.
LEMMA FlagDocOK ==
  ASSUME NEW n \in Flags
  PROVE  /\ DocOK(FlagDoc(n), 2) /\ FlagDoc(n).kind = "flags"
         /\ FlagDoc(n).tenant = Home /\ FlagDoc(n).name = n
         /\ Named("flags", n) /\ Known(n) /\ n \in Seq(Seq(Texts))
         /\ Home \in Texts
<1>1. /\ "" \in Texts /\ "on" \in Texts /\ Home \in Texts
      /\ Named("flags", n) /\ Known(n)
  BY HandlersAssumption DEF Home
<1>2. n \in Seq(Seq(Texts))
  BY <1>1 DEF Named
<1>3. NoHash \in Texts \X Nat /\ "flags" \in Kinds
  BY <1>1 DEF NoHash, Kinds
<1> DEFINE d == FlagDoc(n)
<1>4. d \in DocumentType
  BY <1>1, <1>2, <1>3, Counts, Zenon DEF FlagDoc, DocumentType
<1>5. /\ d.kind = "flags" /\ d.tenant = Home /\ d.name = n
      /\ d.expires = 0 /\ d.createdAt = 1
  BY DEF FlagDoc
<1> HIDE DEF d
<1>6. DocOK(d, 2)
  BY <1>1, <1>4, <1>5, Counts, Zenon DEF DocOK
<1> QED
  BY <1>1, <1>2, <1>5, <1>6 DEF d

\* The invariant holds at the start,
LEMMA TypesBegin ==
  ASSUME ClientsInit
  PROVE  TypeInv
<1>1. /\ backend \in Backends /\ now = 2 /\ next = 1 /\ refs = << >>
      /\ driver \in {"suite", "handlers"}
  BY DEF ClientsInit, Init
<1>2. CallsOK
  BY DEF ClientsInit, Init, CallsOK, CallOK, PlaceOK
<1>3. /\ IsFiniteSet(DOMAIN rows) /\ KeysDated
      /\ \A k \in DOMAIN rows :
           /\ DocOK(rows[k], now)
           /\ k = Key(rows[k].kind, rows[k].tenant, rows[k].name)
  <2>1. CASE driver = "suite"
    <3>1. rows = << >> /\ DOMAIN rows = {}
      BY <2>1 DEF ClientsInit
    <3> QED
      BY <3>1, FS_EmptySet DEF KeysDated
  <2>2. CASE driver # "suite"
    <3> DEFINE key == [n \in Flags |-> Key("flags", Home, n)]
               keys == { Key("flags", Home, n) : n \in Flags }
    <3>1. rows = [k \in keys |->
                    FlagDoc(CHOOSE n \in Flags : Key("flags", Home, n) = k)]
      BY <2>2 DEF ClientsInit
    <3>2. IsFiniteSet(keys)
      <4>1. keys = { key[n] : n \in Flags } /\ IsFiniteSet(Flags)
        BY HandlersAssumption
      <4> HIDE DEF key, keys
      <4> QED
        BY <4>1, Image
    <3>3. ASSUME NEW k \in keys
          PROVE  \E n \in Flags : rows[k] = FlagDoc(n)
                                  /\ k = Key("flags", Home, n)
      BY <3>1
    <3>4. DOMAIN rows = keys
      BY <3>1
    <3> HIDE DEF keys
    <3>5. ASSUME NEW k \in keys
          PROVE  /\ DocOK(rows[k], now) /\ rows[k].kind = "flags"
                 /\ k = Key(rows[k].kind, rows[k].tenant, rows[k].name)
      BY <1>1, <3>3, FlagDocOK
    <3> QED
      BY <3>2, <3>4, <3>5 DEF KeysDated
  <2> QED
    BY <2>1, <2>2
<1>4. /\ IsFiniteSet(members)
      /\ \A m \in members : backend = "redis" /\ MemberOK(m)
  <2>1. CASE members = {}
    BY <2>1, FS_EmptySet
  <2>2. CASE members # {}
    <3> DEFINE name == [n \in Flags |-> << Home, "flags", n >>]
    <3>1. backend = "redis" /\ members = { << Home, "flags", n >> : n \in Flags }
      BY <2>2 DEF ClientsInit
    <3>2. members = { name[n] : n \in Flags } /\ IsFiniteSet(Flags)
      BY <3>1, HandlersAssumption
    <3> HIDE DEF name
    <3>3. IsFiniteSet(members)
      BY <3>2, Image
    <3>4. ASSUME NEW n \in Flags
          PROVE  MemberOK(<< Home, "flags", n >>)
      BY FlagDocOK DEF MemberOK, Kinds
    <3> QED
      BY <3>1, <3>3, <3>4
  <2> QED
    BY <2>1, <2>2
<1>5. \A h \in DOMAIN refs : backend = "redis" /\ h \in Texts \X Nat
                             /\ RefOK(refs[h], h)
  BY <1>1
<1>6. StoreOK
  BY <1>1, <1>3, <1>4, <1>5 DEF StoreOK
<1> QED
  BY <1>1, <1>2, <1>6 DEF TypeInv

\* and after every step.
LEMMA TypesStep ==
  ASSUME TypeInv, [Next]_vars
  PROVE  TypeInv'
<1>1. StoreOK /\ CallsOK /\ now \in Nat
  BY DEF TypeInv, StoreOK
<1>2. driver' \in {"suite", "handlers"} /\ next' \in Nat \ {0}
  <2>1. driver' = driver /\ (next' = next \/ next' = next + 1)
    BY DEF Next, RunStep, Call, vars
  <2> QED
    BY <2>1 DEF TypeInv
<1>3. ASSUME NEW c \in Clients, NEW r, Proper(r), Begin(c, r)
      PROVE  StoreOK' /\ CallsOK'
  <2>1. UNCHANGED << backend, storeVars >> /\ Time
    BY <1>1, <1>3 DEF Begin, Time, storeVars
  <2> QED
    BY <1>1, <1>3, <2>1, StoreStays, BeginOK
<1>4. CASE RunStep
  <2>1. /\ Runner \in Clients /\ next \in 1 .. Len(Script)
        /\ Begin(Runner, Script[next].ask)
    BY <1>4, ScriptAssumption DEF RunStep, TypeInv
  <2>2. Proper(Script[next].ask)
    BY <2>1, ScriptAssumption
  <2> QED
    BY <1>2, <1>3, <2>1, <2>2 DEF TypeInv
<1>5. CASE \E c \in Clients : Call(c)
  BY <1>2, <1>3, <1>5, HandlersAsk DEF TypeInv
<1>6. CASE \E c \in Clients : Serve(c)
  BY <1>2, <1>6, ServeTypes DEF TypeInv
<1>7. CASE \E c \in Clients : Fail(c) \/ SkipItem(c)
  BY <1>2, <1>7, Refusing DEF TypeInv
<1>8. CASE Expire
  BY <1>2, <1>8, ExpireTypes DEF TypeInv
<1>9. CASE UNCHANGED vars
  <2>1. UNCHANGED << backend, storeVars >> /\ UNCHANGED callVars
    BY <1>9 DEF vars, moduleVars
  <2>2. StoreOK'
    BY <1>1, <2>1, StoreStays
  <2>3. \A c \in Clients : Same(c) /\ Time
    BY <1>1, <2>1 DEF callVars, storeVars, Same, Time
  <2>4. \A c \in Clients : CallOK(c)'
    BY <1>1, <2>3, CallStays DEF CallsOK
  <2>5. CallsOK'
    BY <1>1, <2>1, <2>4 DEF callVars, CallsOK
  <2> QED
    BY <1>2, <2>2, <2>5 DEF TypeInv
<1> QED
  BY <1>4, <1>5, <1>6, <1>7, <1>8, <1>9 DEF Next

\* So it always holds.
LEMMA TypesLast == Spec => []TypeInv
<1> QED
  BY TypesBegin, TypesStep, PTL DEF Spec

\* It implies the types, and that a lookup stays with its tenant.
LEMMA TypesAre ==
  ASSUME TypeInv
  PROVE  TypeOK /\ HashFindsOwnTenant
<1>1. ASSUME NEW c \in Clients
      PROVE  /\ req[c] \in RequestType \cup {NoRequest}
             /\ pc[c] \in {"idle", "run", "member", "ref", "follow", "fetch",
                           "items", "write", "done"}
             /\ pc[c] = "done" <=> reply[c] # NoReply
             /\ MidPipeline(c) => req[c].op \in {"create", "delete"}
             /\ pc[c] = "done" => OwnTenant(c, reply[c])
  BY NoneAssumption
  DEF TypeInv, CallsOK, CallOK, PlaceOK, Proper, MidPipeline
<1>2. TypeOK
  <2>1. \A m \in members :
          backend = "redis" /\ m[2] \in {"flags", "experiments", "apikeys"}
    BY DEF TypeInv, StoreOK, MemberOK, Kinds
  <2> QED
    BY <1>1, <2>1 DEF TypeOK, TypeInv, StoreOK, DocOK
<1>3. HashFindsOwnTenant
  BY <1>1 DEF HashFindsOwnTenant, OwnTenant
<1> QED
  BY <1>2, <1>3

\* In every reachable state each document is of its type and under the name it
\* was given, Redis alone has sets of names and references, and every call is
\* where its operation can be, whatever the clients, tenants and flags.
THEOREM TypesHold == Spec => []TypeOK
BY TypesLast, TypesAre, PTL

\* However the commands of creates and lookups fall, a lookup by hash answers a
\* key of the tenant that the hash was made for.
THEOREM LookupsStayWithTheirTenant == Spec => []HashFindsOwnTenant
BY TypesLast, TypesAre, PTL

-----------------------------------------------------------------------------
(* Keys that are created are found *)

\* The ids of the handlers' keys, and of those they revoke.
Unnamed == Name("")

SomeId == Name("some-id")

\* Where the key of a tenant is.
KeyAt(t) == Key("apikeys", t, Unnamed)

\* What a call about keys asks: a create gives no id and a hash of its tenant,
\* a revocation the id of no key.
KeyAsk(r) ==
  /\ r.op = "create" /\ r.kind = "apikeys" =>
       r.name = Unnamed /\ r.hash[1] \in Tenants /\ r.hash # NoHash
  /\ r.op = "revoke" => r.name = SomeId

\* and so does each call.
KeyCallOK(c) ==
  /\ pc[c] # "idle" => KeyAsk(req[c])
  /\ pc[c] = "write" => req[c].op # "revoke"

\* The keys in the store.
KeyRow(k) == k \in DOMAIN rows /\ rows[k].kind = "apikeys"

\* A key whose create was answered is in Postgres for good, and in Redis under
\* a reference.
AnsweredOK(h) ==
  /\ h[1] \in Tenants /\ h # NoHash
  /\ backend = "postgres" => HashOf(h) # {}
  /\ backend = "redis" => h \in DOMAIN refs

\* The key of a tenant is the latest.
LatestOK(t) ==
  backend # "postgres" /\ latest[t] # NoHash =>
    KeyAt(t) \in DOMAIN rows /\ rows[KeyAt(t)].hash = latest[t]

\* What the handlers keep: one key for a tenant, whose hash is the latest, and
\* a reference to it from every hash.
KeyInv ==
  /\ TypeInv
  /\ driver = "suite" => answered = {}
  /\ driver = "handlers" =>
       /\ \A c \in Clients : KeyCallOK(c)
       /\ \A k \in DOMAIN rows :
            KeyRow(k) => rows[k].name = Unnamed /\ ~ rows[k].revoked
       /\ \A h \in DOMAIN refs : refs[h] = << h[1] >> \o Pieces(Unnamed)
       /\ \A t \in Tenants : LatestOK(t)
       /\ \A h \in answered : AnsweredOK(h)

\* The two ids differ, and so do the keys of two tenants.
LEMMA Ids ==
  /\ Named("apikeys", Unnamed) /\ Unnamed \in Seq(Seq(Texts))
  /\ Unnamed # SomeId
  /\ Pieces(Unnamed) = <<"">> /\ Unnamed = << <<"">> >>
<1>1. "" \in Texts /\ "some-id" \in Texts
  BY HandlersAssumption
<1>2. Named("apikeys", Unnamed) /\ Unnamed \in Seq(Seq(Texts))
  BY <1>1, NameOf DEF Unnamed
<1>3. Unnamed = << <<"">> >> /\ SomeId = << <<"some-id">> >>
  BY DEF Unnamed, SomeId, Name
<1>4. Unnamed[1][1] = "" /\ SomeId[1][1] = "some-id"
  BY <1>3
<1>5. Pieces(Unnamed) = Unnamed[1] /\ Unnamed[1] = <<"">>
  BY <1>3 DEF Pieces
<1> QED
  BY <1>2, <1>3, <1>4, <1>5

\* What is at the key of a tenant is its API key.
LEMMA KeyThere ==
  ASSUME StoreOK, NEW t, backend # "postgres", KeyAt(t) \in DOMAIN rows
  PROVE  LET d == rows[KeyAt(t)]
         IN  KeyRow(KeyAt(t)) /\ d.tenant = t /\ d.hash[1] = t
<1> DEFINE d == rows[KeyAt(t)]
<1>1. /\ DocOK(d, now) /\ backend \in Backends
      /\ Key(d.kind, d.tenant, d.name) = Key("apikeys", t, Unnamed)
  BY DEF StoreOK, KeyAt
<1> HIDE DEF d
<1>2. d.kind \in Kinds /\ Named(d.kind, d.name) /\ "apikeys" \in Kinds
  BY <1>1 DEF DocOK, DocumentType, Kinds
<1>3. d.kind = "apikeys" /\ d.tenant = t
  <2>1. PICK kind \in Kinds : kind = "apikeys"
    BY <1>2
  <2>2. Key(d.kind, d.tenant, d.name) = Key(kind, t, Unnamed)
        /\ Named(kind, Unnamed)
    BY <1>1, <2>1, Ids
  <2>3. d.kind = kind /\ d.tenant = t
    BY <1>1, <1>2, <2>2, KeyInjective
  <2> QED
    BY <2>1, <2>3
<1> QED
  BY <1>1, <1>3 DEF DocOK, d, KeyRow

\* The invariant implies that keys are found.
LEMMA KeysFound ==
  ASSUME KeyInv
  PROVE  KeyFound
<1> SUFFICES ASSUME NEW h \in answered,
                    backend = "postgres" \/ latest[h[1]] = h
             PROVE  /\ Resolve(h) # {}
                    /\ \A d \in Resolve(h) :
                         d.hash = h /\ d.tenant = h[1] /\ ~ d.revoked
  BY DEF KeyFound
<1>1. /\ StoreOK /\ AnsweredOK(h) /\ LatestOK(h[1])
      /\ \A k \in DOMAIN rows : KeyRow(k) => ~ rows[k].revoked
      /\ \A g \in DOMAIN refs : refs[g] = << g[1] >> \o Pieces(Unnamed)
  BY DEF KeyInv, TypeInv, AnsweredOK
<1>2. CASE backend # "redis"
  <2>1. Resolve(h) = { rows[k] : k \in HashOf(h) }
    BY <1>2 DEF Resolve
  <2>2. ASSUME NEW k \in HashOf(h)
        PROVE  /\ rows[k].hash = h /\ rows[k].tenant = h[1]
               /\ ~ rows[k].revoked
    BY <1>1 DEF HashOf, StoreOK, DocOK, KeyRow
  <2>3. HashOf(h) # {}
    <3>1. CASE backend = "postgres"
      BY <1>1, <3>1 DEF AnsweredOK
    <3>2. CASE backend # "postgres"
      <4>1. KeyAt(h[1]) \in DOMAIN rows /\ rows[KeyAt(h[1])].hash = h
        BY <1>1, <3>2 DEF LatestOK, AnsweredOK
      <4>2. KeyRow(KeyAt(h[1]))
        BY <1>1, <3>2, <4>1, KeyThere
      <4> QED
        BY <4>1, <4>2 DEF HashOf, KeyRow
    <3> QED
      BY <3>1, <3>2
  <2> QED
    BY <2>1, <2>2, <2>3
<1>3. CASE backend = "redis"
  <2> DEFINE k == KeyAt(h[1])
  <2>1. k \in DOMAIN rows /\ rows[k].hash = h
    BY <1>1, <1>3 DEF LatestOK, AnsweredOK
  <2>2. KeyRow(k) /\ rows[k].tenant = h[1] /\ ~ rows[k].revoked
    BY <1>1, <1>3, <2>1, KeyThere
  <2>3. h \in DOMAIN refs /\ refs[h] = << h[1] >> \o <<"">>
    BY <1>1, <1>3, Ids DEF AnsweredOK
  <2>4. Head(refs[h]) = h[1] /\ Tail(refs[h]) = <<"">>
    <3>1. refs[h] = << h[1], "" >>
      BY <2>3, Join11
    <3> QED
      BY <3>1, HeadAndTail
  <2>5. k = Key("apikeys", Head(refs[h]), << Tail(refs[h]) >>)
    BY <2>4, Ids DEF KeyAt
  <2>6. Resolve(h) = { rows[x] : x \in { y \in DOMAIN rows :
                         /\ h \in DOMAIN refs
                         /\ y = Key("apikeys", Head(refs[h]),
                                    << Tail(refs[h]) >>) } }
    BY <1>3 DEF Resolve
  <2> HIDE DEF k
  <2>7. Resolve(h) = { rows[k] }
    BY <2>1, <2>3, <2>5, <2>6
  <2> QED
    BY <2>1, <2>2, <2>7
<1> QED
  BY <1>2, <1>3

\* A create of a key is answered as done in this step.
Completes(c) ==
  /\ InFlight(c) /\ ~ InFlight(c)'
  /\ req[c].op = "create" /\ req[c].kind = "apikeys" /\ reply'[c].ok

\* The keys stay as they are;
KeysStay ==
  /\ \A k \in DOMAIN rows : KeyRow(k) => k \in DOMAIN rows' /\ rows'[k] = rows[k]
  /\ \A k \in DOMAIN rows' : rows'[k].kind = "apikeys" => KeyRow(k)

Quiet ==
  /\ KeysStay /\ UNCHANGED refs
  /\ \A d \in Clients : ~ Completes(d)

\* or one is made,
Makes(c) ==
  /\ pc[c] # "idle" /\ req[c].op = "create" /\ req[c].kind = "apikeys"
  /\ Put(KeyOf(c), Document(c)) /\ now' = now + 1 /\ UNCHANGED refs
  /\ backend = "postgres" => ~ Stored(c)
  /\ \A d \in Clients : Completes(d) => d = c /\ backend # "redis"

\* or referred to.
Refers(c) ==
  /\ pc[c] # "idle" /\ req[c].op = "create" /\ req[c].kind = "apikeys"
  /\ KeysStay /\ backend = "redis" /\ SetRef(c)
  /\ \A d \in Clients : Completes(d) => d = c

\* A step that leaves the rows keeps the keys,
LEMMA SameRows ==
  ASSUME UNCHANGED rows
  PROVE  KeysStay
BY DEF KeysStay, KeyRow

\* and so does one that puts another kind of document.
LEMMA OtherPut ==
  ASSUME StoreOK, NEW k, NEW d, Put(k, d), DocOK(d, now + 1),
         k = Key(d.kind, d.tenant, d.name), d.kind # "apikeys"
  PROVE  KeysStay
<1>1. /\ DOMAIN rows' = DOMAIN rows \cup {k}
      /\ \A x \in DOMAIN rows' : rows'[x] = IF x = k THEN d ELSE rows[x]
  BY DEF Put
<1>2. ~ KeyRow(k)
  <2> SUFFICES ASSUME k \in DOMAIN rows
               PROVE  rows[k].kind = d.kind
    BY DEF KeyRow
  <2>1. /\ DocOK(rows[k], now) /\ backend \in Backends
        /\ Key(rows[k].kind, rows[k].tenant, rows[k].name)
             = Key(d.kind, d.tenant, d.name)
    BY DEF StoreOK
  <2>2. /\ rows[k].kind \in Kinds /\ Named(rows[k].kind, rows[k].name)
        /\ d.kind \in Kinds /\ Named(d.kind, d.name)
    BY <2>1 DEF DocOK, DocumentType
  <2> QED
    BY <2>1, <2>2, KeyInjective
<1> QED
  BY <1>1, <1>2 DEF KeysStay, KeyRow

\* Answering anything but the create of a key leaves the keys alone,
LEMMA AnswerQuiet ==
  ASSUME CallsOK, NEW c \in Clients, NEW r, Answer(c, r),
         r.ok = FALSE \/ req[c].op # "create" \/ req[c].kind # "apikeys"
  PROVE  \A d \in Clients : ~ Completes(d)
<1>1. \A d \in Clients \ {c} : pc'[d] = pc[d]
  BY DEF Answer, CallsOK
<1>2. reply'[c] = r
  BY DEF Answer, CallsOK
<1> QED
  BY <1>1, <1>2 DEF Completes, InFlight

\* an answer is to one's own call only,
LEMMA AnswerMine ==
  ASSUME CallsOK, NEW c \in Clients, NEW r, Answer(c, r)
  PROVE  \A d \in Clients : Completes(d) => d = c
<1>1. \A d \in Clients \ {c} : pc'[d] = pc[d]
  BY DEF Answer, CallsOK
<1> QED
  BY <1>1 DEF Completes, InFlight

\* and so does moving on,
LEMMA GotoQuiet ==
  ASSUME CallsOK, NEW c \in Clients, NEW where, Goto(c, where),
         where \notin {"idle", "done"}
  PROVE  \A d \in Clients : ~ Completes(d)
<1>1. /\ \A d \in Clients \ {c} : pc'[d] = pc[d]
      /\ pc'[c] = where
  BY DEF Goto, CallsOK
<1> QED
  BY <1>1 DEF Completes, InFlight

\* and so do the operations that read.
LEMMA ReadsQuiet ==
  ASSUME KeyInv, NEW c \in Clients,
         \/ RefuseCreate(c) \/ Get(c) \/ GetAssignment(c) \/ FindByHash(c)
         \/ ReadRef(c) \/ FollowRef(c) \/ Count(c) \/ Fetch(c)
         \/ CountMatches(c) \/ FetchMatches(c)
         \/ ReadMembers(c) \/ ReadItem(c) \/ EndList(c) \/ Panic(c)
         \/ ReadFirst(c) \/ AddMember(c) \/ RemoveMember(c) \/ Fail(c)
         \/ SkipItem(c)
  PROVE  Quiet
<1>1. /\ TypeInv /\ CallsOK /\ PlaceOK(c)
  BY CallFacts DEF KeyInv
<1>2. UNCHANGED << rows, refs, now >>
  BY DEF RefuseCreate, Get, GetAssignment, FindByHash, ReadRef, FollowRef,
         Count, Fetch, CountMatches, FetchMatches, ReadMembers, ReadItem,
         EndList, Panic, ReadFirst,
         AddMember, RemoveMember, Fail, SkipItem, storeVars
<1>3. KeysStay
  BY <1>2, SameRows
<1>4. \A d \in Clients : ~ Completes(d)
  <2>1. CASE RefuseCreate(c) \/ Fail(c)
    BY <1>1, <2>1, AnswerQuiet, Refusals DEF RefuseCreate, Fail
  <2>2. CASE Get(c) \/ GetAssignment(c) \/ RemoveMember(c)
    BY <1>1, <2>2, AnswerQuiet DEF Get, GetAssignment, RemoveMember, At
  <2>3. CASE FindByHash(c)
    <3>1. req[c].op # "create" /\ \E r : Answer(c, r)
      BY <2>3 DEF FindByHash, At
    <3> QED
      BY <1>1, <3>1, AnswerQuiet
  <2>4. CASE ReadRef(c)
    <3>1. req[c].op # "create" /\ (Goto(c, "follow") \/ \E r : Answer(c, r))
      BY <2>4 DEF ReadRef, At
    <3> QED
      BY <1>1, <3>1, AnswerQuiet, GotoQuiet
  <2>5. CASE FollowRef(c)
    <3>1. req[c].op # "create" /\ \E r : Answer(c, r)
      BY <1>1, <2>5 DEF FollowRef, PlaceOK
    <3> QED
      BY <1>1, <3>1, AnswerQuiet
  <2>6. CASE Count(c) \/ CountMatches(c) \/ ReadMembers(c)
    BY <1>1, <2>6, GotoQuiet DEF Count, CountMatches, ReadMembers
  <2>7. CASE Fetch(c) \/ FetchMatches(c) \/ EndList(c)
    <3>1. req[c].op # "create" /\ \E r : Answer(c, r)
      BY <1>1, <2>7 DEF Fetch, FetchMatches, EndList, PlaceOK
    <3> QED
      BY <1>1, <3>1, AnswerQuiet
  <2>8. CASE ReadItem(c) \/ SkipItem(c)
    BY <2>8 DEF ReadItem, SkipItem, Completes, InFlight
  <2>9. CASE Panic(c)
    <3>1. ASSUME NEW d \in Clients, InFlight(d)
          PROVE  reply'[d].ok = FALSE
      BY <2>9, <3>1, Refusals DEF Panic
    <3> QED
      BY <3>1 DEF Completes
  <2>10. CASE ReadFirst(c)
    <3>1. req[c].op # "create" /\ (Goto(c, "write") \/ \E r : Answer(c, r))
      BY <2>10 DEF ReadFirst, At
    <3> QED
      BY <1>1, <3>1, AnswerQuiet, GotoQuiet
  <2>11. CASE AddMember(c)
    <3>1. \/ Goto(c, "ref")
          \/ req[c].kind # "apikeys" /\ \E r : Answer(c, r)
      BY <2>11 DEF AddMember
    <3> QED
      BY <1>1, <3>1, AnswerQuiet, GotoQuiet
  <2> QED
    BY <2>1, <2>2, <2>3, <2>4, <2>5, <2>6, <2>7, <2>8, <2>9, <2>10, <2>11
<1> QED
  BY <1>2, <1>3, <1>4 DEF Quiet

\* A create of a key makes it, and one of anything else is quiet.
LEMMA CreatesMake ==
  ASSUME KeyInv, NEW c \in Clients,
         Create(c) \/ SetDocument(c) \/ SetRef(c) \/ Save(c)
  PROVE  Quiet \/ Makes(c) \/ Refers(c)
<1>1. TypeInv /\ StoreOK /\ CallsOK /\ PlaceOK(c)
  BY CallFacts DEF KeyInv
<1>2. CASE Create(c) \/ SetDocument(c)
  <2>1. /\ pc[c] # "idle" /\ req[c].op = "create"
        /\ Put(KeyOf(c), Document(c)) /\ now' = now + 1 /\ UNCHANGED refs
        /\ backend = "postgres" => ~ Stored(c)
    BY <1>2 DEF Create, SetDocument, At, Refused
  <2>2. \A d \in Clients : Completes(d) => d = c /\ backend # "redis"
    BY <1>1, <1>2, AnswerMine, GotoQuiet DEF Create, SetDocument
  <2>3. CASE req[c].kind = "apikeys"
    BY <2>1, <2>2, <2>3 DEF Makes
  <2>4. CASE req[c].kind # "apikeys"
    <3> DEFINE d == Document(c)
    <3>1. /\ DocOK(d, now + 1) /\ KeyOf(c) = Key(d.kind, d.tenant, d.name)
          /\ d.kind = req[c].kind
      BY <1>1, <2>1, NewDoc
    <3> HIDE DEF d
    <3>2. KeysStay
      BY <1>1, <2>1, <2>4, <3>1, OtherPut DEF d
    <3>3. \A e \in Clients : ~ Completes(e)
      BY <2>2, <2>4 DEF Completes
    <3> QED
      BY <2>1, <3>2, <3>3 DEF Quiet
  <2> QED
    BY <2>3, <2>4
<1>3. CASE Save(c)
  <2> DEFINE d == Assignment(c)
  <2>1. /\ pc[c] # "idle" /\ req[c].op = "save"
        /\ Put(KeyOf(c), d) /\ UNCHANGED refs /\ Answer(c, Found(d))
    BY <1>3 DEF Save, At
  <2>2. /\ DocOK(d, now + 1) /\ KeyOf(c) = Key(d.kind, d.tenant, d.name)
        /\ d.kind = "assignments"
    BY <1>1, <2>1, NewAssignment
  <2> HIDE DEF d
  <2>3. KeysStay
    BY <1>1, <2>1, <2>2, OtherPut
  <2>4. \A e \in Clients : ~ Completes(e)
    BY <1>1, <2>1, AnswerQuiet
  <2> QED
    BY <2>1, <2>3, <2>4 DEF Quiet
<1>4. CASE SetRef(c)
  <2>1. /\ pc[c] # "idle" /\ backend = "redis" /\ req[c].op = "create"
        /\ req[c].kind = "apikeys" /\ UNCHANGED rows
        /\ \E r : Answer(c, r)
    BY <1>1, <1>4 DEF SetRef, At, PlaceOK
  <2> QED
    BY <1>1, <1>4, <2>1, SameRows, AnswerMine DEF Refers
<1> QED
  BY <1>2, <1>3, <1>4

\* An update is of a flag or an experiment, a revocation of no key,
LEMMA UpdatesQuiet ==
  ASSUME KeyInv, driver = "handlers", NEW c \in Clients,
         \/ UpdateAtOnce(c) \/ RevokeAtOnce(c) \/ Replace(c) \/ SetBack(c)
  PROVE  Quiet
<1>1. /\ TypeInv /\ StoreOK /\ CallsOK /\ PlaceOK(c) /\ CallOK(c)
      /\ KeyCallOK(c)
  BY CallFacts DEF KeyInv
<1>2. /\ pc[c] \in {"run", "write"} /\ req[c].op # "create"
      /\ UNCHANGED refs /\ \E r : Answer(c, r)
  BY DEF UpdateAtOnce, RevokeAtOnce, Replace, SetBack, At
<1>3. \A d \in Clients : ~ Completes(d)
  BY <1>1, <1>2, AnswerQuiet
<1>4. pc[c] # "idle" /\ Proper(req[c])
  BY <1>1, <1>2, CallFacts
<1>5. ASSUME req[c].op = "update", NEW b, DocOK(b, now), b.kind = req[c].kind,
             KeyOf(c) = Key(b.kind, b.tenant, b.name),
             Put(KeyOf(c), Changed(c, b))
      PROVE  KeysStay
  <2> DEFINE d == Changed(c, b)
  <2>1. /\ DocOK(d, now)
        /\ d.kind = b.kind /\ d.tenant = b.tenant /\ d.name = b.name
    BY <1>4, <1>5, ChangedDoc
  <2>2. Put(KeyOf(c), d)
    BY <1>5
  <2> HIDE DEF d
  <2>3. d.kind # "apikeys"
    BY <1>4, <1>5, <2>1, Asked
  <2>4. DocOK(d, now + 1)
    BY <1>1, <2>1, DocLasts DEF StoreOK
  <2>5. KeyOf(c) = Key(d.kind, d.tenant, d.name)
    BY <1>5, <2>1
  <2> QED
    BY <1>1, <2>2, <2>3, <2>4, <2>5, OtherPut
<1>6. KeysStay
  <2>1. CASE UNCHANGED rows
    BY <2>1, SameRows
  <2>2. CASE UpdateAtOnce(c) /\ ~ UNCHANGED rows
    <3> DEFINE b == rows[KeyOf(c)]
    <3>1. /\ req[c].op = "update" /\ Stored(c)
          /\ Put(KeyOf(c), Changed(c, b))
      BY <2>2 DEF UpdateAtOnce, At
    <3>2. /\ DocOK(b, now) /\ b.kind = req[c].kind
          /\ KeyOf(c) = Key(b.kind, b.tenant, b.name)
      BY <1>1, <1>4, <3>1, StoredDoc
    <3> HIDE DEF b
    <3> QED
      BY <1>5, <3>1, <3>2
  <2>3. CASE RevokeAtOnce(c) /\ ~ UNCHANGED rows
    <3> DEFINE b == rows[KeyOf(c)]
    <3>1. req[c].op = "revoke" /\ Stored(c)
      BY <2>3 DEF RevokeAtOnce, At
    <3>2. b.kind = req[c].kind /\ b.name = req[c].name /\ KeyOf(c) \in DOMAIN rows
      BY <1>1, <1>4, <3>1, StoredDoc DEF Stored
    <3>3. req[c].name = SomeId /\ req[c].kind = "apikeys"
      BY <1>1, <1>4, <3>1, Asked DEF KeyCallOK, KeyAsk
    <3>4. b.name = Unnamed
      BY <3>2, <3>3 DEF KeyInv, KeyRow
    <3> QED
      BY <3>2, <3>3, <3>4, Ids
  <2>4. CASE (Replace(c) \/ SetBack(c)) /\ ~ UNCHANGED rows
    <3> DEFINE b == held[c][1]
    <3>1. /\ pc[c] = "write" /\ req[c].op \in {"update", "revoke"}
          /\ Put(KeyOf(c), Changed(c, b))
      BY <2>4 DEF Replace, SetBack, At
    <3>2. req[c].op = "update" /\ Holds(c)
      BY <1>1, <3>1 DEF KeyCallOK, PlaceOK
    <3>3. /\ DocOK(b, now) /\ b.kind = req[c].kind
          /\ KeyOf(c) = Key(b.kind, b.tenant, b.name)
      BY <1>1, <3>2, HoldsFacts
    <3> HIDE DEF b
    <3> QED
      BY <1>5, <3>1, <3>2, <3>3
  <2> QED
    BY <2>1, <2>2, <2>3, <2>4
<1> QED
  BY <1>2, <1>3, <1>6 DEF Quiet

\* a delete is of a flag or an experiment,
LEMMA RemovalsQuiet ==
  ASSUME KeyInv, (\E c \in Clients : Delete(c)) \/ Expire
  PROVE  Quiet
<1>1. TypeInv /\ StoreOK /\ CallsOK
  BY DEF KeyInv, TypeInv
<1>2. ASSUME NEW c \in Clients, Delete(c)
      PROVE  Quiet
  <2>1. /\ pc[c] # "idle" /\ req[c].op = "delete" /\ UNCHANGED refs
        /\ rows' = [k \in DOMAIN rows \ {KeyOf(c)} |-> rows[k]]
        /\ Goto(c, "member") \/ \E r : Answer(c, r)
    BY <1>2 DEF Delete, At
  <2>2. \A d \in Clients : ~ Completes(d)
    BY <1>1, <2>1, AnswerQuiet, GotoQuiet
  <2>3. ~ KeyRow(KeyOf(c))
    <3>1. Proper(req[c])
      BY <1>1, <2>1, CallFacts
    <3>2. req[c].kind = "flags"
      BY <2>1, <3>1, Asked
    <3>3. Stored(c) => rows[KeyOf(c)].kind = req[c].kind
      BY <1>1, <2>1, StoredDoc
    <3> QED
      BY <3>2, <3>3 DEF KeyRow, Stored
  <2>4. KeysStay
    BY <2>1, <2>3 DEF KeysStay, KeyRow
  <2> QED
    BY <2>1, <2>2, <2>4 DEF Quiet
<1>3. CASE Expire
  <2>1. PICK k \in DOMAIN rows : /\ Expired(rows[k])
                                 /\ rows' = [x \in DOMAIN rows \ {k} |-> rows[x]]
    BY <1>3 DEF Expire
  <2>2. ~ KeyRow(k)
    BY <1>1, <2>1 DEF KeyRow, StoreOK, DocOK, Expired
  <2>3. KeysStay
    BY <2>1, <2>2 DEF KeysStay, KeyRow
  <2>4. UNCHANGED << refs, callVars >>
    BY <1>3 DEF Expire
  <2>5. \A d \in Clients : ~ Completes(d)
    BY <2>4 DEF Completes, InFlight, callVars
  <2> QED
    BY <2>3, <2>4, <2>5 DEF Quiet
<1> QED
  BY <1>2, <1>3

\* and a call that begins has changed nothing yet.
LEMMA BeginsQuiet ==
  ASSUME KeyInv, NEW c \in Clients, NEW r, Begin(c, r)
  PROVE  Quiet
<1>1. CallsOK
  BY DEF KeyInv, TypeInv
<1>2. /\ UNCHANGED << rows, refs >> /\ pc[c] \in {"idle", "done"}
      /\ \A d \in Clients \ {c} : pc'[d] = pc[d]
  BY <1>1 DEF Begin, storeVars, CallsOK
<1>3. \A d \in Clients : ~ Completes(d)
  BY <1>2 DEF Completes, InFlight
<1> QED
  BY <1>2, <1>3, SameRows DEF Quiet

\* So every step is quiet, makes a key or refers to one.
LEMMA KeySteps ==
  ASSUME KeyInv, driver = "handlers", Next
  PROVE  Quiet \/ \E c \in Clients : Makes(c) \/ Refers(c)
<1>1. CASE RunStep
  BY <1>1 DEF RunStep
<1>2. CASE \E c \in Clients : Call(c)
  BY <1>2, HandlersAsk, BeginsQuiet DEF KeyInv
<1>3. ASSUME NEW c \in Clients, Serve(c)
      PROVE  Quiet \/ Makes(c) \/ Refers(c)
  BY <1>3, ReadsQuiet, CreatesMake, UpdatesQuiet, RemovalsQuiet DEF Serve
<1>4. CASE \E c \in Clients : Fail(c) \/ SkipItem(c)
  BY <1>4, ReadsQuiet
<1>5. CASE Expire
  BY <1>5, RemovalsQuiet
<1> QED
  BY <1>1, <1>2, <1>3, <1>4, <1>5 DEF Next

\* The handlers give a key no id, and a hash of its own.
LEMMA HandlersAskKeys ==
  ASSUME TypeInv, NEW c \in Clients, Call(c)
  PROVE  \E r : KeyAsk(r) /\ Begin(c, r)
<1>1. CASE HandleCreateAPIKey(c)
  <2>1. PICK t \in Tenants : Begin(c, CreateKey(t, "", << t, next >>))
    BY <1>1 DEF HandleCreateAPIKey
  <2> DEFINE h == << t, next >>
             r == CreateKey(t, "", h)
  <2>2. r.op = "create" /\ r.name = Unnamed /\ r.hash = h
    BY DEF CreateKey, Ask, Unnamed
  <2>3. h[1] = t /\ h[2] = next /\ next # 0
    BY DEF TypeInv
  <2>4. h # NoHash
    <3>1. NoHash[2] = 0
      BY DEF NoHash
    <3> QED
      BY <2>3, <3>1
  <2>5. Begin(c, r)
    BY <2>1
  <2> HIDE DEF r, h
  <2>6. KeyAsk(r)
    BY <2>2, <2>3, <2>4 DEF KeyAsk
  <2> QED
    BY <2>5, <2>6
<1>2. CASE HandleListAPIKeys(c) \/ HandleListFlags(c)
  <2>1. PICK kind, t, p : Begin(c, PageAsked(kind, t, p))
    BY <1>2 DEF HandleListAPIKeys, HandleListFlags
  <2>2. PageAsked(kind, t, p).op = "list"
    BY DEF PageAsked, ListPage, Ask
  <2> QED
    BY <2>1, <2>2 DEF KeyAsk
<1>3. CASE HandleRevokeAPIKey(c)
  <2> DEFINE r == Ask("revoke", "apikeys", Home, SomeId, "")
  <2>1. Begin(c, r)
    BY <1>3 DEF HandleRevokeAPIKey, SomeId
  <2>2. r.op = "revoke" /\ r.name = SomeId
    BY DEF Ask
  <2> HIDE DEF r
  <2> QED
    BY <2>1, <2>2 DEF KeyAsk
<1>4. CASE HandleChangeFlag(c)
  <2>1. PICK n \in ChangedFlags, op \in {"delete", "create", "update"},
             data \in {"", "new", "off"} :
          Begin(c, Ask(op, "flags", Home, n, data))
    BY <1>4 DEF HandleChangeFlag
  <2>2. /\ Ask(op, "flags", Home, n, data).op = op
        /\ Ask(op, "flags", Home, n, data).kind = "flags"
    BY DEF Ask
  <2> QED
    BY <2>1, <2>2 DEF KeyAsk
<1>5. CASE LookUp(c)
  <2>1. PICK h : Begin(c, FindKey(h))
    BY <1>5 DEF LookUp
  <2>2. FindKey(h).op = "findByHash"
    BY DEF FindKey, Ask
  <2> QED
    BY <2>1, <2>2 DEF KeyAsk
<1> QED
  BY <1>1, <1>2, <1>3, <1>4, <1>5 DEF Call

\* Where the calls go in a step of the module.
LEMMA Moves ==
  ASSUME CallsOK, NEW c \in Clients,
         Serve(c) \/ Fail(c) \/ SkipItem(c) \/ Expire,
         NEW d \in Clients
  PROVE  /\ req' = req
         /\ \/ pc'[d] = pc[d]
            \/ pc[d] # "idle" /\ pc'[d] \notin {"idle", "run", "write"}
            \/ pc[d] # "idle" /\ pc'[d] = "write" /\ d = c /\ ReadFirst(c) /\ Stored(c)
<1>1. DOMAIN pc = Clients
  BY DEF CallsOK
<1>2. ASSUME NEW r, Answer(c, r), pc[c] # "idle"
      PROVE  req' = req /\ (pc'[d] = pc[d] \/ (pc[d] # "idle" /\ pc'[d] = "done"))
  BY <1>1, <1>2 DEF Answer
<1>3. ASSUME NEW where, Goto(c, where)
      PROVE  req' = req /\ pc'[d] = IF d = c THEN where ELSE pc[d]
  BY <1>1, <1>3 DEF Goto
<1>4. CASE \/ RefuseCreate(c) \/ Create(c) \/ Save(c) \/ Get(c)
           \/ GetAssignment(c) \/ UpdateAtOnce(c) \/ RevokeAtOnce(c)
           \/ Replace(c) \/ SetBack(c) \/ RemoveMember(c) \/ SetRef(c)
           \/ FindByHash(c) \/ FollowRef(c) \/ Fetch(c) \/ FetchMatches(c)
           \/ EndList(c) \/ Fail(c)
  <2>1. pc[c] # "idle" /\ \E r : Answer(c, r)
    BY <1>4 DEF RefuseCreate, Create, Save, Get, GetAssignment, UpdateAtOnce,
       RevokeAtOnce, Replace, SetBack, RemoveMember, SetRef, FindByHash,
       FollowRef, Fetch, FetchMatches, EndList, Fail, InFlight, At
  <2> QED
    BY <1>2, <2>1
<1>5. CASE SetDocument(c) \/ Count(c) \/ CountMatches(c) \/ ReadMembers(c)
  BY <1>3, <1>5 DEF SetDocument, Count, CountMatches, ReadMembers, At
<1>6. CASE AddMember(c) \/ ReadRef(c) \/ Delete(c)
  <2>1. /\ pc[c] # "idle"
        /\ \/ \E w \in {"ref", "follow", "member"} : Goto(c, w)
           \/ \E r : Answer(c, r)
    BY <1>6 DEF AddMember, ReadRef, Delete, At
  <2> QED
    BY <1>2, <1>3, <2>1
<1>7. CASE ReadItem(c) \/ SkipItem(c) \/ Expire
  BY <1>7 DEF ReadItem, SkipItem, Expire, callVars
<1>8. CASE Panic(c)
  BY <1>8 DEF Panic, InFlight
<1>9. CASE ReadFirst(c)
  <2>1. /\ pc[c] # "idle"
        /\ (Stored(c) /\ Goto(c, "write")) \/ \E r : Answer(c, r)
    BY <1>9 DEF ReadFirst, At
  <2> QED
    BY <1>2, <1>3, <1>9, <2>1
<1> QED
  BY <1>4, <1>5, <1>6, <1>7, <1>8, <1>9 DEF Serve

\* Each call keeps asking what the handlers ask.
LEMMA KeyCallsStep ==
  ASSUME KeyInv, driver = "handlers", Next, NEW d \in Clients
  PROVE  KeyCallOK(d)'
<1>1. /\ TypeInv /\ CallsOK /\ KeyCallOK(d)
  BY DEF KeyInv, TypeInv
<1>2. ASSUME NEW c \in Clients, Call(c)
      PROVE  KeyCallOK(d)'
  <2>1. PICK r : KeyAsk(r) /\ Begin(c, r)
    BY <1>1, <1>2, HandlersAskKeys
  <2>2. \/ d = c /\ pc'[d] = "run" /\ req'[d] = r
        \/ pc'[d] = pc[d] /\ req'[d] = req[d]
    BY <1>1, <2>1 DEF Begin, CallsOK
  <2> QED
    BY <1>1, <2>1, <2>2 DEF KeyCallOK
<1>3. ASSUME NEW c \in Clients, Serve(c) \/ Fail(c) \/ SkipItem(c) \/ Expire
      PROVE  KeyCallOK(d)'
  <2>1. /\ req' = req
        /\ \/ pc'[d] = pc[d]
           \/ pc[d] # "idle" /\ pc'[d] \notin {"idle", "run", "write"}
           \/ pc[d] # "idle" /\ pc'[d] = "write" /\ d = c /\ ReadFirst(c) /\ Stored(c)
    BY <1>1, <1>3, Moves
  <2>2. CASE ReadFirst(c) /\ Stored(c) /\ d = c /\ pc[d] # "idle"
    <3>1. /\ Stored(d) /\ Proper(req[d]) /\ req[d].op \in {"update", "revoke"}
      BY <1>1, <2>2, CallFacts DEF ReadFirst, At
    <3>2. /\ rows[KeyOf(d)].kind = req[d].kind /\ rows[KeyOf(d)].name = req[d].name
          /\ KeyOf(d) \in DOMAIN rows
      BY <1>1, <2>2, <3>1, StoredDoc DEF Stored
    <3>3. req[d].op # "revoke"
      <4> SUFFICES ASSUME req[d].op = "revoke"
                   PROVE  FALSE
        OBVIOUS
      <4>1. req[d].name = SomeId /\ req[d].kind = "apikeys"
        BY <1>1, <2>2, <3>1, Asked DEF KeyCallOK, KeyAsk
      <4>2. rows[KeyOf(d)].name = Unnamed
        BY <3>2, <4>1 DEF KeyInv, KeyRow
      <4> QED
        BY <3>2, <4>1, <4>2, Ids
    <3> QED
      BY <1>1, <2>1, <2>2, <3>3 DEF KeyCallOK
  <2>3. CASE ~ (ReadFirst(c) /\ Stored(c) /\ d = c /\ pc[d] # "idle")
    BY <1>1, <2>1, <2>3 DEF KeyCallOK
  <2> QED
    BY <2>2, <2>3
<1>4. CASE RunStep
  BY <1>4 DEF RunStep
<1> QED
  BY <1>2, <1>3, <1>4 DEF Next

\* The latest hash of a tenant changes with its key only.
LEMMA LatestStays ==
  ASSUME KeyInv, KeysStay, Observe, NEW t \in Tenants
  PROVE  latest'[t] = latest[t]
<1>1. ASSUME NEW x \in DOMAIN rows', rows'[x].kind = "apikeys"
      PROVE  rows'[x].createdAt # now
  BY <1>1 DEF KeysStay, KeyRow, KeyInv, TypeInv, StoreOK, DocOK, DocumentType
<1>2. WrittenFor(t) = {}
  BY <1>1 DEF WrittenFor
<1> QED
  BY <1>2 DEF Observe

\* A key that is made is its tenant's latest.
LEMMA LatestMade ==
  ASSUME KeyInv, NEW c \in Clients, Makes(c), Observe, NEW t \in Tenants
  PROVE  latest'[t] = IF t = req[c].tenant THEN req[c].hash ELSE latest[t]
<1> DEFINE d == Document(c)
<1>1. /\ d.kind = "apikeys" /\ d.tenant = req[c].tenant /\ d.createdAt = now
      /\ d.hash = req[c].hash /\ now' # now
  BY DEF Document, Makes, KeyInv, TypeInv, StoreOK
<1> HIDE DEF d
<1>2. /\ DOMAIN rows' = DOMAIN rows \cup {KeyOf(c)}
      /\ \A x \in DOMAIN rows' : rows'[x] = IF x = KeyOf(c) THEN d ELSE rows[x]
  BY DEF Makes, Put, d
<1>3. \A x \in DOMAIN rows : rows[x].createdAt # now
  BY DEF KeyInv, TypeInv, StoreOK, DocOK, DocumentType
<1>4. \A x \in DOMAIN rows' : rows'[x].createdAt = now <=> x = KeyOf(c)
  BY <1>1, <1>2, <1>3
<1>5. CASE t = req[c].tenant
  <2>1. WrittenFor(t) = { req[c].hash }
    BY <1>1, <1>2, <1>4, <1>5 DEF WrittenFor
  <2> QED
    BY <1>5, <2>1 DEF Observe
<1>6. CASE t # req[c].tenant
  <2>1. WrittenFor(t) = {}
    BY <1>1, <1>2, <1>4, <1>6 DEF WrittenFor
  <2> QED
    BY <1>6, <2>1 DEF Observe
<1> QED
  BY <1>5, <1>6

\* A create that is answered as done adds its hash.
LEMMA AnsweredNext ==
  ASSUME Observe
  PROVE  \A h \in answered' :
           \/ h \in answered
           \/ driver = "handlers"
              /\ \E d \in Clients : Completes(d) /\ h = req[d].hash
BY DEF Observe, Completes

\* The ids of keys are fixed.
LEMMA KeysFixed ==
  ASSUME backend' = backend
  PROVE  \A t : KeyAt(t)' = KeyAt(t)
BY DEF KeyAt, Key

\* Each part of the invariant in turn: the keys are those of tenants and carry no
\* revocation;
LEMMA RowsStep ==
  ASSUME KeyInv, driver = "handlers",
         Quiet \/ \E c \in Clients : Makes(c) \/ Refers(c)
  PROVE  \A k \in DOMAIN rows' :
           KeyRow(k)' => rows'[k].name = Unnamed /\ ~ rows'[k].revoked
<1>1. CASE KeysStay
  BY <1>1 DEF KeysStay, KeyRow, KeyInv
<1>2. ASSUME NEW c \in Clients, Makes(c)
      PROVE  \A k \in DOMAIN rows' :
               KeyRow(k)' => rows'[k].name = Unnamed /\ ~ rows'[k].revoked
  <2> DEFINE d == Document(c)
  <2>1. d.name = Unnamed /\ ~ d.revoked
    BY <1>2 DEF Makes, Document, KeyInv, KeyCallOK, KeyAsk
  <2>2. \A x \in DOMAIN rows' :
          \/ x = KeyOf(c) /\ rows'[x] = d
          \/ x \in DOMAIN rows /\ rows'[x] = rows[x]
    BY <1>2 DEF Makes, Put
  <2> HIDE DEF d
  <2> QED
    BY <2>1, <2>2 DEF KeyRow, KeyInv
<1> QED
  BY <1>1, <1>2 DEF Quiet, Refers

\* a reference leads to its tenant's key;
LEMMA RefsStep ==
  ASSUME KeyInv, driver = "handlers",
         Quiet \/ \E c \in Clients : Makes(c) \/ Refers(c)
  PROVE  \A h \in DOMAIN refs' : refs'[h] = << h[1] >> \o Pieces(Unnamed)
<1>1. CASE UNCHANGED refs
  BY <1>1 DEF KeyInv
<1>2. ASSUME NEW c \in Clients, Refers(c)
      PROVE  \A h \in DOMAIN refs' : refs'[h] = << h[1] >> \o Pieces(Unnamed)
  <2>1. \A h \in DOMAIN refs' :
          \/ h = req[c].hash /\ refs'[h] = <<req[c].tenant>> \o Pieces(req[c].name)
          \/ h \in DOMAIN refs /\ refs'[h] = refs[h]
    BY <1>2 DEF Refers, SetRef
  <2>2. req[c].name = Unnamed /\ req[c].tenant = req[c].hash[1]
    <3>1. Proper(req[c]) /\ KeyCallOK(c)
      BY <1>2, CallFacts DEF KeyInv, Refers
    <3> QED
      BY <1>2, <3>1, Asked DEF Refers, KeyCallOK, KeyAsk
  <2> QED
    BY <2>1, <2>2 DEF KeyInv
<1> QED
  BY <1>1, <1>2 DEF Quiet, Makes

\* the key of a tenant is its latest;
LEMMA LatestStep ==
  ASSUME KeyInv, driver = "handlers", Observe, backend' = backend, StoreOK',
         Quiet \/ \E c \in Clients : Makes(c) \/ Refers(c),
         NEW t \in Tenants
  PROVE  LatestOK(t)'
<1>1. KeyAt(t)' = KeyAt(t) /\ LatestOK(t) /\ StoreOK
  BY KeysFixed DEF KeyInv, TypeInv
<1> SUFFICES ASSUME backend # "postgres", latest'[t] # NoHash
             PROVE  KeyAt(t) \in DOMAIN rows' /\ rows'[KeyAt(t)].hash = latest'[t]
  BY <1>1 DEF LatestOK
<1>2. CASE KeysStay
  <2>1. latest'[t] = latest[t]
    BY <1>2, LatestStays
  <2>2. KeyAt(t) \in DOMAIN rows /\ rows[KeyAt(t)].hash = latest[t]
    BY <1>1, <2>1 DEF LatestOK
  <2>3. KeyRow(KeyAt(t))
    BY <1>1, <2>2, KeyThere
  <2> QED
    BY <1>2, <2>1, <2>2, <2>3 DEF KeysStay
<1>3. ASSUME NEW c \in Clients, Makes(c)
      PROVE  KeyAt(t) \in DOMAIN rows' /\ rows'[KeyAt(t)].hash = latest'[t]
  <2> DEFINE d == Document(c)
  <2>1. /\ d.tenant = req[c].tenant /\ d.hash = req[c].hash
        /\ req[c].name = Unnamed /\ req[c].kind = "apikeys"
    BY <1>3 DEF Makes, Document, KeyInv, KeyCallOK, KeyAsk
  <2> HIDE DEF d
  <2>2. KeyOf(c) = KeyAt(req[c].tenant)
    BY <2>1 DEF KeyOf, KeyAt
  <2>3. /\ DOMAIN rows' = DOMAIN rows \cup {KeyOf(c)}
        /\ \A x \in DOMAIN rows' : rows'[x] = IF x = KeyOf(c) THEN d ELSE rows[x]
    BY <1>3 DEF Makes, Put, d
  <2>4. CASE t = req[c].tenant
    BY <1>3, <2>1, <2>2, <2>3, <2>4, LatestMade
  <2>5. CASE t # req[c].tenant
    <3>1. latest'[t] = latest[t]
      BY <1>3, <2>5, LatestMade
    <3>2. KeyAt(t) \in DOMAIN rows /\ rows[KeyAt(t)].hash = latest[t]
      BY <1>1, <3>1 DEF LatestOK
    <3>3. KeyAt(t) # KeyOf(c)
      <4>1. rows'[KeyAt(t)].tenant = t
        <5>1. KeyAt(t)' \in DOMAIN rows' /\ backend' # "postgres"
          BY <1>1, <2>3, <3>2
        <5>2. rows'[KeyAt(t)'].tenant = t
          <6>1. (backend # "postgres" /\ KeyAt(t) \in DOMAIN rows /\ StoreOK
                   => rows[KeyAt(t)].tenant = t)'
            BY KeyThere, PTL
          <6> QED
            BY <5>1, <6>1
        <5> QED
          BY <1>1, <5>2
      <4> QED
        BY <2>1, <2>3, <2>5, <4>1
    <3> QED
      BY <2>3, <3>1, <3>2, <3>3
  <2> QED
    BY <2>4, <2>5
<1> QED
  BY <1>2, <1>3 DEF Quiet, Refers

\* a key whose create was answered is there;
LEMMA AnsweredStep ==
  ASSUME KeyInv, driver = "handlers", Observe, UNCHANGED backend,
         Quiet \/ \E c \in Clients : Makes(c) \/ Refers(c),
         NEW h \in answered'
  PROVE  AnsweredOK(h)'
<1>1. CASE h \in answered
  <2>1. AnsweredOK(h)
    BY <1>1 DEF KeyInv
  <2>2. DOMAIN refs \subseteq DOMAIN refs'
    BY DEF Quiet, Makes, Refers, SetRef
  <2>3. backend = "postgres" => HashOf(h)' # {}
    <3> SUFFICES ASSUME backend = "postgres"
                 PROVE  HashOf(h)' # {}
      OBVIOUS
    <3>1. PICK k \in DOMAIN rows : rows[k].kind = "apikeys" /\ rows[k].hash = h
      BY <2>1 DEF AnsweredOK, HashOf
    <3>2. k \in DOMAIN rows' /\ rows'[k] = rows[k]
      <4>1. CASE KeysStay
        BY <3>1, <4>1 DEF KeysStay, KeyRow
      <4>2. ASSUME NEW c \in Clients, Makes(c)
            PROVE  k \in DOMAIN rows' /\ rows'[k] = rows[k]
        BY <3>1, <4>2 DEF Makes, Put, Stored
      <4> QED
        BY <4>1, <4>2 DEF Quiet, Refers
    <3> QED
      BY <3>1, <3>2 DEF HashOf
  <2> QED
    BY <2>1, <2>2, <2>3 DEF AnsweredOK
<1>2. ASSUME NEW c \in Clients, Completes(c), h = req[c].hash
      PROVE  AnsweredOK(h)'
  <2>1. h[1] \in Tenants /\ h # NoHash
    <3>1. pc[c] # "idle" /\ KeyCallOK(c)
      BY <1>2 DEF Completes, InFlight, KeyInv
    <3> QED
      BY <1>2, <3>1 DEF Completes, KeyCallOK, KeyAsk
  <2>2. ~ Quiet
    BY <1>2 DEF Quiet
  <2>3. CASE Makes(c)
    <3> DEFINE d == Document(c)
    <3>1. d.kind = "apikeys" /\ d.hash = h
      BY <1>2, <2>3 DEF Makes, Document
    <3>2. KeyOf(c) \in DOMAIN rows' /\ rows'[KeyOf(c)] = d /\ backend # "redis"
      BY <1>2, <2>3 DEF Makes, Put
    <3> HIDE DEF d
    <3>3. HashOf(h)' # {}
      BY <3>1, <3>2 DEF HashOf
    <3> QED
      BY <2>1, <3>2, <3>3 DEF AnsweredOK
  <2>4. CASE Refers(c)
    BY <1>2, <2>1, <2>4 DEF Refers, SetRef, AnsweredOK
  <2>5. Makes(c) \/ Refers(c)
    BY <1>2, <2>2 DEF Makes, Refers
  <2> QED
    BY <2>3, <2>4, <2>5
<1> QED
  BY <1>1, <1>2, AnsweredNext

\* At the start there are no keys.
LEMMA KeysBegin ==
  ASSUME ClientsInit
  PROVE  KeyInv
<1>1. TypeInv
  BY TypesBegin
<1>2. /\ answered = {} /\ refs = << >>
      /\ \A t \in Tenants : latest[t] = NoHash
      /\ \A c \in Clients : pc[c] = "idle"
  BY DEF ClientsInit, Init
<1>3. \A c \in Clients : KeyCallOK(c)
  BY <1>2 DEF KeyCallOK
<1>4. \A k \in DOMAIN rows : ~ KeyRow(k)
  <2>1. CASE driver = "suite"
    BY <2>1 DEF ClientsInit
  <2>2. CASE driver # "suite"
    <3>1. ASSUME NEW k \in DOMAIN rows
          PROVE  rows[k].kind = "flags"
      BY <2>2 DEF ClientsInit, FlagDoc
    <3> QED
      BY <3>1 DEF KeyRow
  <2> QED
    BY <2>1, <2>2
<1> QED
  BY <1>1, <1>2, <1>3, <1>4 DEF KeyInv, LatestOK

\* Neither the module nor who calls it changes.
LEMMA Constant ==
  ASSUME Next
  PROVE  UNCHANGED << driver, backend >> /\ Observe
<1>1. ASSUME NEW c, NEW r, Begin(c, r)
      PROVE  UNCHANGED backend
  BY <1>1 DEF Begin
<1>2. CASE \E c \in Clients : Call(c)
  BY <1>1, <1>2 DEF Next, Call, HandleCreateAPIKey, HandleListAPIKeys,
     HandleRevokeAPIKey, HandleListFlags, HandleChangeFlag, LookUp
<1>3. CASE RunStep
  BY <1>1, <1>3 DEF Next, RunStep
<1>4. CASE \E c \in Clients : Serve(c) /\ UNCHANGED << driver, next >>
  <2>1. PICK c \in Clients : Serve(c) /\ UNCHANGED << driver, next >>
    BY <1>4
  <2>2. UNCHANGED backend
    <3>1. CASE RefuseCreate(c) \/ Create(c) \/ SetDocument(c) \/ AddMember(c)
      BY <3>1 DEF RefuseCreate, Create, SetDocument, AddMember
    <3>2. CASE SetRef(c) \/ Save(c) \/ Get(c) \/ GetAssignment(c)
      BY <3>2 DEF SetRef, Save, Get, GetAssignment
    <3>3. CASE FindByHash(c) \/ ReadRef(c) \/ FollowRef(c) \/ Count(c)
      BY <3>3 DEF FindByHash, ReadRef, FollowRef, Count
    <3>4. CASE Fetch(c) \/ ReadMembers(c) \/ ReadItem(c) \/ EndList(c)
               \/ CountMatches(c) \/ FetchMatches(c)
      BY <3>4 DEF Fetch, ReadMembers, ReadItem, EndList, CountMatches,
         FetchMatches
    <3>5. CASE Panic(c) \/ UpdateAtOnce(c) \/ RevokeAtOnce(c) \/ ReadFirst(c)
      BY <3>5 DEF Panic, UpdateAtOnce, RevokeAtOnce, ReadFirst
    <3>6. CASE Replace(c) \/ SetBack(c) \/ Delete(c) \/ RemoveMember(c)
      BY <3>6 DEF Replace, SetBack, Delete, RemoveMember
    <3> QED
      BY <2>1, <3>1, <3>2, <3>3, <3>4, <3>5, <3>6 DEF Serve
  <2> QED
    BY <2>1, <2>2 DEF Next
<1>5. CASE (\E c \in Clients : Fail(c) \/ SkipItem(c)) /\ UNCHANGED << driver, next >>
  BY <1>5 DEF Next, Fail, SkipItem
<1>6. CASE Expire /\ UNCHANGED << driver, next >>
  BY <1>6 DEF Next, Expire
<1> QED
  BY <1>2, <1>3, <1>4, <1>5, <1>6 DEF Next

\* Every step keeps the invariant.
LEMMA KeysStep ==
  ASSUME KeyInv, [Next]_vars
  PROVE  KeyInv'
<1>1. TypeInv' /\ TypeInv
  BY TypesStep DEF KeyInv
<1>2. StoreOK'
  BY <1>1 DEF TypeInv
<1>3. CASE Next
  <2>1. UNCHANGED << driver, backend >> /\ Observe
    BY <1>3, Constant
  <2>2. CASE driver = "suite"
    <3>1. answered' = {}
      BY <2>1, <2>2 DEF Observe, KeyInv
    <3> QED
      BY <1>1, <2>1, <2>2, <3>1 DEF KeyInv
  <2>3. CASE driver = "handlers"
    <3>1. Quiet \/ \E c \in Clients : Makes(c) \/ Refers(c)
      BY <1>3, <2>3, KeySteps
    <3>2. \A c \in Clients : KeyCallOK(c)'
      BY <1>3, <2>3, KeyCallsStep
    <3>3. \A t \in Tenants : LatestOK(t)'
      BY <1>2, <2>1, <2>3, <3>1, LatestStep
    <3>4. \A h \in answered' : AnsweredOK(h)'
      BY <2>1, <2>3, <3>1, AnsweredStep
    <3> QED
      BY <1>1, <2>1, <2>3, <3>1, <3>2, <3>3, <3>4, RowsStep, RefsStep
      DEF KeyInv
  <2> QED
    BY <2>2, <2>3 DEF KeyInv, TypeInv
<1>4. CASE UNCHANGED vars
  <2>1. /\ UNCHANGED << driver, backend, rows, refs, pc, req, latest, answered >>
    BY <1>4 DEF vars, moduleVars, storeVars, callVars, historyVars
  <2>2. \A c \in Clients : KeyCallOK(c) <=> KeyCallOK(c)'
    BY <2>1 DEF KeyCallOK
  <2>3. \A t : KeyAt(t)' = KeyAt(t)
    BY <2>1, KeysFixed
  <2>4. \A t \in Tenants : LatestOK(t) => LatestOK(t)'
    BY <2>1, <2>3 DEF LatestOK
  <2>5. \A h \in answered : AnsweredOK(h) => AnsweredOK(h)'
    BY <2>1 DEF AnsweredOK, HashOf
  <2> QED
    BY <1>1, <2>1, <2>2, <2>4, <2>5 DEF KeyInv, KeyRow
<1> QED
  BY <1>3, <1>4

\* A key whose create was answered is found by its hash, for its tenant and not
\* revoked, until a later create of that tenant takes its place; in Postgres for
\* good (apikeys.go:113), whatever the clients, tenants and calls.
THEOREM CreatedKeysAreFound == Spec => []KeyFound
<1>1. Spec => []KeyInv
  BY KeysBegin, KeysStep, PTL DEF Spec
<1> QED
  BY <1>1, KeysFound, PTL

-----------------------------------------------------------------------------
(* A quiet list is exact *)

\* What is kept in Redis under a name in a set: tenant, kind and name.
Places ==
  { p \in Texts \X (Kinds \ {"assignments"}) \X Seq(Seq(Texts)) :
      Named(p[2], p[3]) }

\* The place of a call, and where it is kept.
PlaceOf(c) == << req[c].tenant, req[c].kind, req[c].name >>

KeyFor(p) == Key(p[2], p[1], p[3])

Kept(p) == KeyFor(p) \in DOMAIN rows

\* What a call is changing is a document or a name, but not both yet.
Busy(p) == \E d \in Clients : pc[d] = "member" /\ PlaceOf(d) = p

\* Elsewhere names and documents agree;
Aligned == \A p \in Places : ~ Busy(p) => (Kept(p) <=> p \in members)

\* or everywhere.
Settled ==
  backend = "redis" => \A p \in Places : Kept(p) <=> p \in members

\* No two calls write one document;
Alone ==
  \A c, d \in Clients : c # d /\ Writes(c) /\ Writes(d) => KeyOf(c) # KeyOf(d)

\* what a call made, is changing or has deleted is there or not, accordingly.
MidOK(c) ==
  /\ pc[c] = "member" => (Stored(c) <=> req[c].op = "create")
  /\ pc[c] = "write" => Stored(c)

\* Redis' pipelines, as long as none was torn.
PipelinesOK ==
  backend = "redis" /\ ~ torn =>
    /\ Alone /\ Aligned
    /\ \A c \in Clients : MidOK(c)

\* The list that call c asks for, and its page.
AllOf(c) == Documents(req[c].kind, req[c].tenant)

PageOf(c) == Cut(c, AllOf(c))

Exact(c) == Fits(req[c].asked, PerPage(req[c].per))

\* What a list has in hand of the first m documents of its page, and where.
Picks(at, had, m, page, gone) ==
  /\ at \in [1 .. Len(had) -> 1 .. m]
  /\ \A i \in 1 .. Len(had) : had[i] = page[at[i]]
  /\ \A i, j \in 1 .. Len(had) : i < j => at[i] < at[j]
  /\ \A n \in 1 .. m :
       page[n].name \in gone <=> ~ \E i \in 1 .. Len(had) : at[i] = n

\* The names from document m of a page on; none of their GETs has failed.
Remain(left, m, page, gone) ==
  /\ m + Len(left) = Len(page)
  /\ \A i \in 1 .. Len(left) :
       left[i] = page[m + i].name /\ page[m + i].name \notin gone

\* The documents of a page, as far as they were there, and the names of the rest.
Along(had, left, page, gone) ==
  \E m \in Nat : /\ Remain(left, m, page, gone)
                 /\ \E at : Picks(at, had, m, page, gone)

\* How far Redis has come with the page.
Progress(c) == Along(held[c], todo[c], PageOf(c), lost[c])

\* What a list has read is what is there, less what it could not read.
ReadOK(c) ==
  pc[c] # "idle" /\ req[c].op = "list" /\ Literal(c) =>
    /\ pc[c] \in {"run", "fetch"} => lost[c] = {}
    /\ pc[c] \in {"fetch", "items"} => total[c] = Len(AllOf(c))
    /\ pc[c] = "items" /\ Exact(c) => Progress(c)
    /\ pc[c] = "done" /\ reply[c].ok /\ Exact(c) =>
         /\ reply[c].total = Len(AllOf(c))
         /\ Without(reply[c].items, PageOf(c), lost[c])

\* The names that could not be read are kept for every client.
LostOK == DOMAIN lost = Clients

\* A list during which nothing was written has read from one state of the store,
\* in which Redis' names are those of its documents.
ListInv ==
  /\ TypeInv /\ PipelinesOK /\ LostOK
  /\ \A c \in Clients : still[c] => Settled /\ ReadOK(c)

\* A set and its image, in orders that agree, list the same elements in turn.
LEMMA RankedImage ==
  ASSUME NEW S, IsFiniteSet(S), NEW f \in [S -> Int],
         \A x, y \in S : f[x] = f[y] => x = y,
         NEW g, \A x, y \in S : g[x] = g[y] => x = y,
         NEW T, \A x \in S : g[x] \in T, \A y \in T : \E x \in S : y = g[x],
         NEW h \in [T -> Int], \A x \in S : h[g[x]] = f[x]
  PROVE  /\ Cardinality(T) = Cardinality(S) /\ Cardinality(S) \in Nat
         /\ \A i \in 1 .. Cardinality(S) : Ranked(T, h)[i] = g[Ranked(S, f)[i]]
<1>1. IsFiniteSet(T) /\ Cardinality(T) = Cardinality(S)
  <2>1. T = { g[x] : x \in S }
    OBVIOUS
  <2> QED
    BY <2>1, SameCount
<1>2. \A x, y \in T : h[x] = h[y] => x = y
  OBVIOUS
<1>3. /\ Cardinality(S) \in Nat
      /\ \A i \in 1 .. Cardinality(S) :
           /\ Ranked(S, f)[i] \in S
           /\ \A x \in S : x = Ranked(S, f)[i] <=>
                Cardinality(Before(S, f, x)) = i - 1
  BY Sorted
<1>4. \A i \in 1 .. Cardinality(T) :
        \A x \in T : x = Ranked(T, h)[i] <=>
          Cardinality(Before(T, h, x)) = i - 1
  <2>1. IsFiniteSet(T) /\ h \in [T -> Int]
    BY <1>1
  <2> QED
    BY ONLY <1>2, <2>1, Sorted
<1>5. ASSUME NEW x \in S
      PROVE  Cardinality(Before(T, h, g[x])) = Cardinality(Before(S, f, x))
  <2>1. IsFiniteSet(Before(S, f, x))
    BY FS_Subset DEF Before
  <2>2. Before(T, h, g[x]) = { g[y] : y \in Before(S, f, x) }
    BY DEF Before
  <2>3. \A y, z \in Before(S, f, x) : g[y] = g[z] => y = z
    BY DEF Before
  <2> QED
    BY <2>1, <2>2, <2>3, SameCount
<1>6. ASSUME NEW i \in 1 .. Cardinality(S)
      PROVE  Ranked(T, h)[i] = g[Ranked(S, f)[i]]
  <2> DEFINE x == Ranked(S, f)[i]
  <2>1. x \in S /\ Cardinality(Before(S, f, x)) = i - 1
    BY <1>3
  <2> HIDE DEF x
  <2>2. g[x] \in T /\ Cardinality(Before(T, h, g[x])) = i - 1
    BY <1>5, <2>1
  <2>3. g[x] = Ranked(T, h)[i]
    BY <1>1, <1>4, <2>2
  <2> QED
    BY <2>3 DEF x
<1> QED
  BY <1>1, <1>3, <1>6

\* In Redis, once names and documents agree, the list of the names is that of
\* the documents.
LEMMA NamesOfAll ==
  ASSUME StoreOK, backend = "redis", Settled, NEW c,
         Proper(req[c]), req[c].op = "list"
  PROVE  LET all == AllOf(c)  names == InOrder(MembersOf(c), ByRank)
         IN  /\ names \in Seq(Seq(Seq(Texts))) /\ Len(names) = Len(all)
             /\ \A i \in 1 .. Len(all) : names[i] = all[i].name
<1> DEFINE kind == req[c].kind
           tenant == req[c].tenant
           S == DocsOf(kind, tenant)
           f == DocRank(kind, tenant)
           T == MembersOf(c)
           h == NameRank(c)
           g == [d \in S |-> d.name]
<1>1. kind \in Kinds /\ kind # "assignments" /\ tenant \in Texts
  BY Asked
<1>2. ASSUME NEW d \in S
      PROVE  /\ d \in DocumentType /\ d.kind = kind /\ d.tenant = tenant
             /\ Named(kind, d.name) /\ Key(kind, tenant, d.name) \in DOMAIN rows
             /\ rows[Key(kind, tenant, d.name)] = d
  BY DEF DocsOf, KeysOf, StoreOK, DocOK
<1>3. ASSUME NEW d \in S
      PROVE  g[d] \in T
  <2> DEFINE p == << tenant, kind, d.name >>
  <2>1. d.name \in Seq(Seq(Texts))
    BY <1>2 DEF DocumentType
  <2>2. p[1] = tenant /\ p[2] = kind /\ p[3] = d.name
    OBVIOUS
  <2>3. p \in Places /\ Kept(p)
    BY <1>1, <1>2, <2>1, <2>2 DEF Places, Kept, KeyFor
  <2>4. p \in members
    BY <2>3 DEF Settled
  <2> QED
    BY <2>2, <2>4 DEF MembersOf
<1>4. ASSUME NEW n \in T
      PROVE  \E d \in S : n = g[d]
  <2>1. PICK p \in members : p[1] = tenant /\ p[2] = kind /\ p[3] = n
    BY DEF MembersOf
  <2>2. p \in Places
    BY <2>1 DEF StoreOK, MemberOK, Places
  <2>3. Key(kind, tenant, n) \in DOMAIN rows /\ Named(kind, n)
    BY <2>1, <2>2 DEF Settled, Kept, KeyFor, Places
  <2> DEFINE d == rows[Key(kind, tenant, n)]
  <2>4. /\ d.kind \in Kinds /\ Named(d.kind, d.name)
        /\ Key(kind, tenant, n) = Key(d.kind, d.tenant, d.name)
    BY <2>3 DEF StoreOK, DocOK, DocumentType
  <2>5. d.kind = kind /\ d.tenant = tenant /\ d.name = n
    <3> HIDE DEF d, kind, tenant
    <3> QED
      BY <1>1, <2>3, <2>4, KeyInjective DEF StoreOK
  <2>6. d \in S
    BY <2>3, <2>5 DEF DocsOf, KeysOf
  <2> QED
    BY <2>5, <2>6
<1>5. /\ IsFiniteSet(S) /\ f \in [S -> Int]
      /\ \A d, e \in S : f[d] = f[e] => d = e
      /\ AllOf(c) = Ranked(S, f)
  BY <1>1, DocsRanked DEF AllOf
<1>6. /\ IsFiniteSet(T) /\ T \subseteq Seq(Seq(Texts)) /\ h \in [T -> Int]
      /\ \A m, n \in T : h[m] = h[n] => m = n
      /\ InOrder(T, ByRank) = Ranked(T, h)
  BY MembersRanked
<1>7. \A d, e \in S : g[d] = g[e] => d = e
  BY <1>2
<1>8. \A d \in S : h[g[d]] = f[d]
  BY <1>3 DEF NameRank, DocRank
<1>10. Len(AllOf(c)) = Cardinality(S) /\ Cardinality(S) \in Nat
       /\ \A i \in 1 .. Cardinality(S) : AllOf(c)[i] \in S
  BY <1>1, DocsInOrder DEF AllOf
<1>11. \A d \in S : g[d] = d.name
  OBVIOUS
<1> HIDE DEF S, f, T, h, g
<1>12. /\ Ranked(T, h) \in Seq(T) /\ Len(Ranked(T, h)) = Cardinality(T)
  BY <1>6, Sorted
<1>13. /\ Cardinality(T) = Cardinality(S)
       /\ \A i \in 1 .. Cardinality(S) : Ranked(T, h)[i] = g[Ranked(S, f)[i]]
  <2>1. IsFiniteSet(S) /\ f \in [S -> Int] /\ h \in [T -> Int]
    BY <1>5, <1>6
  <2>2. \A d, e \in S : f[d] = f[e] => d = e
    BY <1>5
  <2> QED
    BY ONLY <1>3, <1>4, <1>7, <1>8, <2>1, <2>2, RankedImage
<1>14. Ranked(T, h) \in Seq(Seq(Seq(Texts)))
  BY <1>6, <1>12, SeqMonotonic
<1> QED
  BY <1>5, <1>6, <1>10, <1>11, <1>12, <1>13, <1>14 DEF T

\* Where a page begins and ends.
LEMMA Ends ==
  ASSUME NEW p \in Nat \ {0}, NEW q \in Nat \ {0}
  PROVE  q * (p - 1) \in Nat /\ q * (p - 1) + q = p * q /\ (p - 1) * q = q * (p - 1)
<1>1. PICK n \in Nat : p = n + 1
  OBVIOUS
<1>2. p - 1 = n
  BY <1>1
<1>3. q * n \in Nat /\ n * q = q * n /\ (n + 1) * q = q * n + q
  OBVIOUS
<1> QED
  BY <1>1, <1>2, <1>3

\* A page that fits is the part of the list that it should be.
LEMMA PageIs ==
  ASSUME NEW c, Proper(req[c]), Exact(c), NEW S, NEW items \in Seq(S)
  PROVE  LET per == PerPage(req[c].per)
             end == req[c].asked * per
             last == IF end < Len(items) THEN end ELSE Len(items)
         IN  /\ Offset(Page(req[c].page), per) >= 0
             /\ Cut(c, items) = SubSeq(items, (req[c].asked - 1) * per + 1, last)
             /\ Cut(c, items) \in Seq(S)
             /\ \E first \in Nat : \A i \in 1 .. Len(Cut(c, items)) :
                  /\ first + i \in 1 .. Len(items)
                  /\ Cut(c, items)[i] = items[first + i]
<1> DEFINE per == PerPage(req[c].per)
           page == req[c].asked
           from == Offset(page, per)
           cut == Cut(c, items)
           n == Len(items)
           last == IF page * per < n THEN page * per ELSE n
<1>1. /\ req[c].page \in Int /\ req[c].per \in Int /\ page \in Nat \ {0}
      /\ Page(req[c].page) = page
  <2>1. /\ req[c].page \in Int /\ req[c].per \in Int /\ page \in Nat
    BY Asked
  <2>2. page > 0 /\ Page(req[c].page) = page
    BY DEF Proper, Exact
  <2> QED
    BY <2>1, <2>2
<1>2. per \in 1 .. MaxPerPage /\ per \in Nat \ {0}
  <2>1. per \in 1 .. MaxPerPage
    BY <1>1, PerPageType
  <2> HIDE DEF per
  <2> QED
    BY ONLY <2>1, PagingAssumption
<1>3. from = per * (page - 1)
  BY <1>1, <1>2, OffsetFits DEF Exact
<1>4. n \in Nat
  BY LenProperties
<1> HIDE DEF page, n
<1>5. from \in Nat /\ from + per = page * per /\ (page - 1) * per = from
  BY <1>1, <1>2, <1>3, Ends
<1>6. /\ cut \in Seq(S)
      /\ Len(cut) = IF from < last THEN last - from ELSE 0
      /\ \A i \in 1 .. Len(cut) : from + i \in 1 .. last /\ cut[i] = items[from + i]
  <2>1. from = Offset(Page(req[c].page), PerPage(req[c].per)) /\ from >= 0
    BY <1>1, <1>5
  <2> HIDE DEF from, per
  <2>2. LET to == IF from + per < Len(items) THEN from + per ELSE Len(items)
        IN  /\ cut \in Seq(S)
            /\ Len(cut) = IF from < to THEN to - from ELSE 0
            /\ \A i \in 1 .. Len(cut) : from + i \in 1 .. to /\ cut[i] = items[from + i]
    BY <1>1, <2>1, CutIs DEF per
  <2> QED
    BY <1>5, <2>2 DEF n
<1> HIDE DEF from, per, cut
<1>7. last \in Nat /\ last <= n
  BY <1>1, <1>2, <1>4, <1>5
<1> HIDE DEF last
<1> DEFINE sub == SubSeq(items, from + 1, last)
<1>8. /\ sub \in Seq(S) /\ Len(sub) = IF from < last THEN last - from ELSE 0
      /\ \A i \in 1 .. Len(sub) : sub[i] = items[from + i]
  <2>1. \A i \in from + 1 .. last : items[i] \in S
    BY <1>5, <1>7, <1>4, ElementOfSeq DEF n
  <2>2. /\ sub \in Seq(S)
        /\ Len(sub) = IF from + 1 <= last THEN last - (from + 1) + 1 ELSE 0
        /\ \A i \in 1 .. last - (from + 1) + 1 : sub[i] = items[from + 1 + i - 1]
    BY <1>5, <1>7, <2>1, SubSeqProperties
  <2> HIDE DEF sub
  <2>3. Len(sub) = IF from < last THEN last - from ELSE 0
    BY <1>5, <1>7, <2>2
  <2>4. ASSUME NEW i \in 1 .. Len(sub)
        PROVE  sub[i] = items[from + i]
    <3>1. i \in 1 .. last - (from + 1) + 1 /\ from + 1 + i - 1 = from + i
      BY <1>5, <1>7, <2>3
    <3> QED
      BY <2>2, <3>1
  <2> QED
    BY <2>2, <2>3, <2>4
<1> HIDE DEF sub
<1>9. cut = sub
  <2>1. Len(cut) = Len(sub)
    BY <1>6, <1>8
  <2>2. \A i \in 1 .. Len(cut) : cut[i] = sub[i]
    BY <1>6, <1>8
  <2> QED
    BY <1>6, <1>8, <2>1, <2>2, SeqEqual
<1>10. \A i \in 1 .. Len(cut) : from + i \in 1 .. n /\ cut[i] = items[from + i]
  BY <1>6, <1>4, <1>5, <1>7
<1>11. from >= 0 /\ cut = SubSeq(items, (page - 1) * per + 1, last)
  <2>1. from >= 0 /\ (page - 1) * per = from
    BY <1>5
  <2> HIDE DEF per, last
  <2>2. cut = SubSeq(items, from + 1, last)
    BY <1>9 DEF sub
  <2> QED
    BY ONLY <2>1, <2>2, Zenon
<1>12. from = Offset(Page(req[c].page), per)
  BY <1>1 DEF from
<1> QED
  BY <1>5, <1>6, <1>10, <1>11, <1>12 DEF per, page, cut, n, last

\* While the store is as it was, so is the list of its documents.
LEMMA ListFixed ==
  ASSUME UNCHANGED << rows, backend >>, NEW kind, NEW tenant
  PROVE  Documents(kind, tenant)' = Documents(kind, tenant)
BY DEF Documents, InOrder, Precedes, Rank

\* The part of a list that a request is shown depends on the request alone.
LEMMA CutFixed ==
  ASSUME NEW c, req'[c] = req[c], NEW items
  PROVE  Cut(c, items)' = Cut(c, items)
BY DEF Cut

\* and so is its page.
LEMMA AllFixed ==
  ASSUME UNCHANGED << rows, backend >>, NEW c, req'[c] = req[c]
  PROVE  /\ AllOf(c)' = AllOf(c) /\ PageOf(c)' = PageOf(c)
         /\ Exact(c)' <=> Exact(c)
         /\ Literal(c)' <=> Literal(c)
<1>1. AllOf(c)' = AllOf(c)
  BY ListFixed DEF AllOf
<1> QED
  BY <1>1, CutFixed DEF PageOf, Exact, Literal

\* Redis keeps one document for a place;
LEMMA PlacesApart ==
  ASSUME backend = "redis", backend \in Backends,
         NEW p \in Places, NEW q \in Places, KeyFor(p) = KeyFor(q)
  PROVE  p = q
<1>1. /\ p[2] \in Kinds /\ q[2] \in Kinds
      /\ Named(p[2], p[3]) /\ Named(q[2], q[3])
      /\ p = << p[1], p[2], p[3] >> /\ q = << q[1], q[2], q[3] >>
  BY DEF Places
<1>2. Key(p[2], p[1], p[3]) = Key(q[2], q[1], q[3])
  BY DEF KeyFor
<1>3. p[2] = q[2] /\ p[3] = q[3] /\ p[1] = q[1]
  BY <1>1, <1>2, KeyInjective
<1> QED
  BY <1>1, <1>3

\* and no assignment.
LEMMA NoAssignment ==
  ASSUME backend \in Backends, NEW p \in Places, NEW t, NEW n,
         Named("assignments", n)
  PROVE  KeyFor(p) # Key("assignments", t, n)
<1>1. p[2] \in Kinds /\ p[2] # "assignments" /\ Named(p[2], p[3])
  BY DEF Places
<1> SUFFICES ASSUME Key(p[2], p[1], p[3]) = Key("assignments", t, n)
             PROVE  FALSE
  BY DEF KeyFor
<1>2. PICK kind \in Kinds : kind = "assignments"
  BY DEF Kinds
<1>3. Named(kind, n) /\ Key(p[2], p[1], p[3]) = Key(kind, t, n)
  BY <1>2
<1>4. p[2] = kind
  BY <1>1, <1>3, KeyInjective
<1> QED
  BY <1>1, <1>2, <1>4

\* The place of what a call writes.
LEMMA PlaceIs ==
  ASSUME TypeInv, NEW c \in Clients, pc[c] # "idle",
         req[c].op \notin {"get", "save"}
  PROVE  /\ PlaceOf(c) \in Places /\ KeyFor(PlaceOf(c)) = KeyOf(c)
         /\ Kept(PlaceOf(c)) <=> Stored(c)
<1> DEFINE r == req[c]
<1>1. Proper(r)
  BY CallFacts
<1>2. /\ r.kind \in Kinds /\ r.tenant \in Texts /\ r.kind # "assignments"
      /\ r.name \in Seq(Seq(Texts)) /\ Named(r.kind, r.name)
  BY <1>1, Asked
<1>3. PlaceOf(c) = << r.tenant, r.kind, r.name >>
  BY DEF PlaceOf
<1>4. PlaceOf(c)[1] = r.tenant /\ PlaceOf(c)[2] = r.kind /\ PlaceOf(c)[3] = r.name
  BY <1>3
<1>5. PlaceOf(c) \in Places
  <2> HIDE DEF r
  <2> QED
    BY <1>2, <1>3, <1>4 DEF Places
<1>6. KeyFor(PlaceOf(c)) = KeyOf(c)
  BY <1>4 DEF KeyFor, KeyOf
<1> QED
  BY <1>5, <1>6 DEF Kept, Stored

\* The places and the keys of calls are fixed.
LEMMA PlacesFixed ==
  ASSUME backend' = backend
  PROVE  /\ \A p : KeyFor(p)' = KeyFor(p)
         /\ \A c : req'[c] = req[c] =>
              KeyOf(c)' = KeyOf(c) /\ PlaceOf(c)' = PlaceOf(c)
BY DEF KeyFor, KeyOf, PlaceOf, Key

\* What is kept, and under which names.
KeptStays == \A p \in Places : Kept(p)' <=> Kept(p)

\* No pipeline begins or ends, and none is touched,
Calm ==
  /\ KeptStays /\ members' = members
  /\ \A d \in Clients :
       /\ pc'[d] = "member" <=> pc[d] = "member"
       /\ pc'[d] = "write" => pc[d] = "write" \/ (pc[d] # "idle" /\ Stored(d))
       /\ pc'[d] \in {"member", "write"} => req'[d] = req[d]

\* or one makes its step.
Steps(c) ==
  SetDocument(c) \/ Delete(c) \/ AddMember(c) \/ RemoveMember(c)

\* The documents stay,
LEMMA SameKept ==
  ASSUME UNCHANGED << rows, backend >>
  PROVE  KeptStays
BY PlacesFixed DEF KeptStays, Kept

\* or one is replaced.
LEMMA PutKept ==
  ASSUME UNCHANGED backend, NEW k, NEW d, Put(k, d), k \in DOMAIN rows
  PROVE  KeptStays
<1>1. DOMAIN rows' = DOMAIN rows
  BY DEF Put
<1> QED
  BY <1>1, PlacesFixed DEF KeptStays, Kept

\* A call that ends outside a pipeline is calm,
LEMMA CalmAnswer ==
  ASSUME CallsOK, NEW c \in Clients, pc[c] # "member",
         KeptStays, members' = members, NEW r, Answer(c, r)
  PROVE  Calm
BY DEF CallsOK, Answer, Calm

\* so is one that goes on outside,
LEMMA CalmGoto ==
  ASSUME CallsOK, NEW c \in Clients, pc[c] # "member",
         KeptStays, members' = members, NEW where, Goto(c, where),
         where # "member", where = "write" => pc[c] # "idle" /\ Stored(c)
  PROVE  Calm
BY DEF CallsOK, Goto, Calm

\* and so is one that begins.
LEMMA CalmBegin ==
  ASSUME CallsOK, NEW c \in Clients, NEW r, Begin(c, r)
  PROVE  Calm
<1>1. UNCHANGED << rows, backend, members >>
  BY DEF Begin, storeVars
<1>2. KeptStays
  BY <1>1, SameKept
<1> QED
  BY <1>1, <1>2 DEF CallsOK, Begin, Calm

\* The reads are calm,
LEMMA CalmReads ==
  ASSUME TypeInv, backend = "redis", NEW c \in Clients,
         \/ Get(c) \/ GetAssignment(c) \/ ReadRef(c) \/ FollowRef(c)
         \/ ReadMembers(c) \/ ReadItem(c) \/ EndList(c) \/ ReadFirst(c)
         \/ SetRef(c) \/ SkipItem(c)
  PROVE  Calm
<1>1. CallsOK
  BY DEF TypeInv
<1>2. UNCHANGED << rows, backend, members >>
  BY DEF Get, GetAssignment, ReadRef, FollowRef, ReadMembers, ReadItem,
     EndList, ReadFirst, SetRef, SkipItem, storeVars
<1>3. KeptStays /\ members' = members
  BY <1>2, SameKept
<1>4. CASE Get(c) \/ GetAssignment(c) \/ FollowRef(c) \/ EndList(c) \/ SetRef(c)
  <2>1. pc[c] # "member" /\ \E r : Answer(c, r)
    BY <1>4 DEF Get, GetAssignment, FollowRef, EndList, SetRef, At
  <2> QED
    BY <1>1, <1>3, <2>1, CalmAnswer
<1>5. CASE ReadRef(c) \/ ReadMembers(c)
  <2>1. /\ pc[c] # "member"
        /\ \/ \E r : Answer(c, r)
           \/ \E w \in {"follow", "items"} : Goto(c, w)
    BY <1>5 DEF ReadRef, ReadMembers, At
  <2> QED
    BY <1>1, <1>3, <2>1, CalmAnswer, CalmGoto
<1>6. CASE ReadFirst(c)
  <2>1. /\ pc[c] # "member" /\ pc[c] # "idle"
        /\ \/ \E r : Answer(c, r)
           \/ Stored(c) /\ Goto(c, "write")
    BY <1>6 DEF ReadFirst, At
  <2> QED
    BY <1>1, <1>3, <2>1, CalmAnswer, CalmGoto
<1>7. CASE ReadItem(c) \/ SkipItem(c)
  BY <1>3, <1>7 DEF ReadItem, SkipItem, Calm
<1> QED
  BY <1>4, <1>5, <1>6, <1>7

\* so is a write that adds no document to a list,
LEMMA CalmWrites ==
  ASSUME TypeInv, backend = "redis", NEW c \in Clients, MidOK(c),
         Save(c) \/ SetBack(c)
  PROVE  Calm
<1>1. CallsOK /\ backend \in Backends
  BY DEF TypeInv, StoreOK
<1>2. /\ pc[c] \in {"run", "write"} /\ \E r : Answer(c, r)
      /\ backend' = backend /\ members' = members
  BY DEF Save, SetBack, At
<1>3. CASE Save(c)
  <2>1. Proper(req[c]) /\ req[c].op = "save"
    BY <1>2, <1>3, CallFacts DEF Save, At
  <2>2. req[c].kind = "assignments" /\ Named(req[c].kind, req[c].name)
    BY <2>1, Asked
  <2>3. \A p \in Places : KeyFor(p) # KeyOf(c)
    BY <1>1, <2>2, NoAssignment DEF KeyOf
  <2>4. DOMAIN rows' = DOMAIN rows \cup {KeyOf(c)}
    BY <1>3 DEF Save, Put
  <2>5. KeptStays
    BY <1>2, <2>3, <2>4, PlacesFixed DEF KeptStays, Kept
  <2> QED
    BY <1>1, <1>2, <2>5, CalmAnswer
<1>4. CASE SetBack(c)
  <2>1. KeyOf(c) \in DOMAIN rows /\ \E d : Put(KeyOf(c), d)
    BY <1>4 DEF SetBack, At, MidOK, Stored
  <2>2. KeptStays
    BY <1>2, <2>1, PutKept
  <2> QED
    BY <1>1, <1>2, <2>2, CalmAnswer
<1> QED
  BY <1>3, <1>4

\* What runs out is an assignment.
LEMMA CalmExpire ==
  ASSUME TypeInv, backend = "redis", Expire
  PROVE  Calm
<1>1. StoreOK /\ backend \in Backends
  BY DEF TypeInv, StoreOK
<1>2. PICK k \in DOMAIN rows :
        Expired(rows[k]) /\ rows' = [x \in DOMAIN rows \ {k} |-> rows[x]]
  BY DEF Expire
<1>3. /\ DocOK(rows[k], now)
      /\ k = Key(rows[k].kind, rows[k].tenant, rows[k].name)
  BY <1>1, <1>2 DEF StoreOK
<1>4. rows[k].kind = "assignments" /\ Named("assignments", rows[k].name)
  BY <1>2, <1>3 DEF Expired, DocOK
<1>5. \A p \in Places : KeyFor(p) # k
  BY <1>1, <1>3, <1>4, NoAssignment
<1>6. UNCHANGED << backend, members, pc, req >>
  BY DEF Expire, callVars
<1>7. KeptStays
  BY <1>2, <1>5, <1>6, PlacesFixed DEF KeptStays, Kept
<1> QED
  BY <1>6, <1>7 DEF Calm

\* A call that fails is none in a pipeline, unless it tears it.
LEMMA CalmFails ==
  ASSUME TypeInv, NEW c \in Clients, Fail(c) \/ Panic(c), Observe, ~ torn'
  PROVE  Calm
<1>1. CallsOK
  BY DEF TypeInv
<1>2. UNCHANGED << rows, backend, members, req >>
  BY DEF Fail, Panic, Answer, storeVars
<1>3. KeptStays
  BY <1>2, SameKept
<1>4. ASSUME NEW d \in Clients, pc[d] = "member"
      PROVE  reply'[d] # Failed
  BY <1>4 DEF Observe, MidPipeline
<1>5. CASE Fail(c)
  <2>1. Answer(c, Failed)
    BY <1>5 DEF Fail
  <2>2. pc[c] # "member"
    BY <1>1, <1>4, <2>1 DEF Answer, CallsOK
  <2> QED
    BY <1>1, <1>2, <1>3, <2>1, <2>2, CalmAnswer
<1>6. CASE Panic(c)
  <2>1. \A d \in Clients : pc[d] # "member"
    BY <1>4, <1>6 DEF Panic, InFlight
  <2>2. \A d \in Clients : pc'[d] = IF InFlight(d) THEN "done" ELSE pc[d]
    BY <1>6 DEF Panic
  <2> QED
    BY <1>2, <1>3, <2>1, <2>2 DEF Calm
<1> QED
  BY <1>5, <1>6

\* So every step is calm or of a pipeline.
LEMMA CalmOrSteps ==
  ASSUME TypeInv, backend = "redis", Next, ~ torn', \A c \in Clients : MidOK(c)
  PROVE  Calm \/ \E c \in Clients : Steps(c)
<1>1. CallsOK /\ Observe
  BY DEF TypeInv, Next
<1>2. CASE RunStep
  BY <1>1, <1>2, CalmBegin, ScriptAssumption DEF RunStep
<1>3. CASE \E c \in Clients : Call(c)
  BY <1>1, <1>3, HandlersAsk, CalmBegin
<1>4. ASSUME NEW c \in Clients, Serve(c)
      PROVE  Calm \/ Steps(c)
  <2>1. PlaceOK(c)
    BY CallFacts
  <2>2. ~ (RefuseCreate(c) \/ Create(c) \/ FindByHash(c) \/ Count(c)
           \/ CountMatches(c) \/ FetchMatches(c)
           \/ UpdateAtOnce(c) \/ RevokeAtOnce(c) \/ Replace(c))
    BY DEF RefuseCreate, Refused, Create, FindByHash, Count, CountMatches,
       FetchMatches, Literal, UpdateAtOnce, RevokeAtOnce, Replace
  <2>3. ~ Fetch(c)
    BY <2>1 DEF Fetch, PlaceOK
  <2> QED
    BY <1>1, <1>4, <2>2, <2>3, CalmReads, CalmWrites, CalmFails
    DEF Serve, Steps
<1>5. CASE \E c \in Clients : Fail(c) \/ SkipItem(c)
  BY <1>1, <1>5, CalmFails, CalmReads
<1>6. CASE Expire
  BY <1>6, CalmExpire
<1> QED
  BY <1>2, <1>3, <1>4, <1>5, <1>6 DEF Next

\* A calm step keeps names and documents aligned,
LEMMA PipelinesCalm ==
  ASSUME TypeInv, TypeInv', UNCHANGED backend, Calm, Aligned,
         \A c \in Clients : MidOK(c)
  PROVE  Aligned' /\ \A c \in Clients : MidOK(c)'
<1>1. Aligned'
  <2> SUFFICES ASSUME NEW p \in Places, ~ Busy(p)'
               PROVE  Kept(p)' <=> p \in members'
    BY DEF Aligned, Places
  <2>1. ~ Busy(p)
    BY PlacesFixed DEF Busy, Calm
  <2> QED
    BY <2>1 DEF Aligned, Calm, KeptStays
<1>2. ASSUME NEW c \in Clients, pc'[c] \in {"member", "write"}
      PROVE  Stored(c)' <=> Stored(c)
  <2>1. /\ req'[c] = req[c] /\ pc[c] # "idle"
        /\ PlaceOK(c)'
    BY <1>2 DEF Calm, TypeInv, CallsOK, CallOK
  <2>2. req[c].op \notin {"get", "save"}
    BY <1>2, <2>1 DEF PlaceOK
  <2>3. PlaceOf(c) \in Places /\ KeyFor(PlaceOf(c)) = KeyOf(c)
    BY <2>1, <2>2, PlaceIs
  <2>4. KeyOf(c)' = KeyOf(c) /\ (KeyOf(c) \in DOMAIN rows' <=> KeyOf(c) \in DOMAIN rows)
    <3>1. \A p \in Places : (KeyFor(p) \in DOMAIN rows') <=> (KeyFor(p) \in DOMAIN rows)
      BY PlacesFixed DEF Calm, KeptStays, Kept
    <3> QED
      BY <2>1, <2>3, <3>1, PlacesFixed
  <2> QED
    BY <2>4 DEF Stored
<1>3. ASSUME NEW c \in Clients
      PROVE  MidOK(c)'
  BY <1>2 DEF MidOK, Calm
<1> QED
  BY <1>1, <1>3

\* A step of a pipeline is its call's alone.
LEMMA StepIs ==
  ASSUME TypeInv, backend = "redis", NEW c \in Clients, Steps(c)
  PROVE  /\ Writes(c) /\ req[c].op \in {"create", "delete"}
         /\ pc[c] \in {"run", "member"} /\ req' = req /\ UNCHANGED backend
         /\ \A d \in Clients \ {c} : pc'[d] = pc[d]
         /\ PlaceOf(c) \in Places /\ KeyFor(PlaceOf(c)) = KeyOf(c)
<1>1. /\ pc[c] \in {"run", "member"} /\ req[c].op \in {"create", "delete"}
      /\ UNCHANGED backend
  BY DEF Steps, SetDocument, Delete, AddMember, RemoveMember, At
<1>2. \/ \E w : Goto(c, w)
      \/ \E r : Answer(c, r)
  BY DEF Steps, SetDocument, Delete, AddMember, RemoveMember
<1>3. req' = req /\ \A d \in Clients \ {c} : pc'[d] = pc[d]
  BY <1>2 DEF TypeInv, CallsOK, Goto, Answer
<1>4. Writes(c)
  BY <1>1 DEF Writes, InFlight
<1>5. PlaceOf(c) \in Places /\ KeyFor(PlaceOf(c)) = KeyOf(c)
  BY <1>1, PlaceIs
<1> QED
  BY <1>1, <1>3, <1>4, <1>5

\* Setting or deleting the document opens the pipeline,
LEMMA PipelinesOpen ==
  ASSUME TypeInv, backend = "redis", Alone, Aligned,
         \A c \in Clients : MidOK(c),
         NEW c \in Clients, SetDocument(c) \/ Delete(c)
  PROVE  Aligned' /\ \A d \in Clients : MidOK(d)'
<1>1. /\ Writes(c) /\ req[c].op \in {"create", "delete"}
      /\ req' = req /\ UNCHANGED backend
      /\ \A d \in Clients \ {c} : pc'[d] = pc[d]
      /\ PlaceOf(c) \in Places /\ KeyFor(PlaceOf(c)) = KeyOf(c)
  BY StepIs DEF Steps
<1>2. /\ pc[c] = "run" /\ pc'[c] = "member" /\ members' = members
      /\ \A k : k # KeyOf(c) => (k \in DOMAIN rows' <=> k \in DOMAIN rows)
      /\ KeyOf(c) \in DOMAIN rows' <=> req[c].op = "create"
  BY DEF SetDocument, Delete, At, Goto, Put, TypeInv, CallsOK
<1>3. Aligned'
  <2> SUFFICES ASSUME NEW p \in Places, ~ Busy(p)'
               PROVE  Kept(p)' <=> p \in members'
    BY DEF Aligned, Places
  <2>1. p # PlaceOf(c)
    BY <1>1, <1>2, PlacesFixed DEF Busy
  <2>2. KeyFor(p) # KeyOf(c)
    BY <1>1, <2>1, PlacesApart DEF TypeInv, StoreOK
  <2>3. Kept(p)' <=> Kept(p)
    BY <1>1, <1>2, <2>2, PlacesFixed DEF Kept
  <2>4. ~ Busy(p)
    BY <1>1, <1>2, PlacesFixed DEF Busy
  <2> QED
    BY <1>2, <2>3, <2>4 DEF Aligned
<1>4. ASSUME NEW d \in Clients, d # c
      PROVE  MidOK(d)'
  <2>1. pc'[d] = pc[d] /\ req'[d] = req[d] /\ KeyOf(d)' = KeyOf(d)
    BY <1>1, <1>4, PlacesFixed
  <2>2. ASSUME pc[d] \in {"member", "write"}
        PROVE  Stored(d)' <=> Stored(d)
    <3>1. PlaceOK(d)
      BY CallFacts
    <3>2. Writes(d)
      BY <2>2, <3>1 DEF PlaceOK, Writes, InFlight
    <3>3. KeyOf(d) # KeyOf(c)
      BY <1>1, <1>4, <3>2 DEF Alone
    <3> QED
      BY <1>2, <2>1, <3>3 DEF Stored
  <2> QED
    BY <2>1, <2>2 DEF MidOK
<1>5. MidOK(c)'
  <2>1. KeyOf(c)' = KeyOf(c) /\ req'[c] = req[c]
    BY <1>1, PlacesFixed
  <2> QED
    BY <1>2, <2>1 DEF MidOK, Stored
<1> QED
  BY <1>3, <1>4, <1>5

\* and adding or removing the name closes it.
LEMMA PipelinesClose ==
  ASSUME TypeInv, backend = "redis", Aligned,
         \A c \in Clients : MidOK(c),
         NEW c \in Clients, AddMember(c) \/ RemoveMember(c)
  PROVE  Aligned' /\ \A d \in Clients : MidOK(d)'
<1>1. /\ req[c].op \in {"create", "delete"}
      /\ req' = req /\ UNCHANGED backend
      /\ \A d \in Clients \ {c} : pc'[d] = pc[d]
      /\ PlaceOf(c) \in Places /\ KeyFor(PlaceOf(c)) = KeyOf(c)
  BY StepIs DEF Steps
<1>2. /\ pc[c] = "member" /\ pc'[c] \in {"ref", "done"} /\ UNCHANGED rows
      /\ \A p : p # PlaceOf(c) => (p \in members' <=> p \in members)
      /\ PlaceOf(c) \in members' <=> req[c].op = "create"
  BY DEF AddMember, RemoveMember, At, Goto, Answer, TypeInv, CallsOK, PlaceOf
<1>3. \A p : Kept(p)' <=> Kept(p)
  BY <1>1, <1>2, PlacesFixed DEF Kept
<1>4. Aligned'
  <2> SUFFICES ASSUME NEW p \in Places, ~ Busy(p)'
               PROVE  Kept(p)' <=> p \in members'
    BY DEF Aligned, Places
  <2>1. CASE p = PlaceOf(c)
    <3>1. Stored(c) <=> req[c].op = "create"
      BY <1>2 DEF MidOK
    <3>2. Kept(p) <=> Stored(c)
      BY <1>1, <2>1 DEF Kept, Stored
    <3> QED
      BY <1>2, <1>3, <2>1, <3>1, <3>2
  <2>2. CASE p # PlaceOf(c)
    <3>1. ~ Busy(p)
      BY <1>1, <1>2, <2>2, PlacesFixed DEF Busy
    <3> QED
      BY <1>2, <1>3, <2>2, <3>1 DEF Aligned
  <2> QED
    BY <2>1, <2>2
<1>5. ASSUME NEW d \in Clients
      PROVE  MidOK(d)'
  <2>1. KeyOf(d)' = KeyOf(d) /\ req'[d] = req[d]
    BY <1>1, PlacesFixed
  <2>2. pc'[d] \in {"member", "write"} => pc'[d] = pc[d]
    BY <1>1, <1>2
  <2> QED
    BY <1>2, <2>1, <2>2 DEF MidOK, Stored
<1> QED
  BY <1>4, <1>5

\* However its calls interleave, no pipeline leaves names and documents apart,
\* unless it is torn.
LEMMA PipelinesStep ==
  ASSUME TypeInv, TypeInv', PipelinesOK, Next, UNCHANGED backend
  PROVE  PipelinesOK'
<1> SUFFICES ASSUME backend = "redis", ~ torn'
             PROVE  Alone' /\ Aligned' /\ \A c \in Clients : MidOK(c)'
  BY DEF PipelinesOK
<1>1. Observe
  BY DEF Next
<1>2. Alone /\ Aligned /\ \A c \in Clients : MidOK(c)
  BY <1>1 DEF Observe, PipelinesOK
<1>3. Alone'
  BY <1>1 DEF Observe, Alone
<1>4. Calm \/ \E c \in Clients : Steps(c)
  BY <1>2, CalmOrSteps
<1> QED
  BY <1>2, <1>3, <1>4, PipelinesCalm, PipelinesOpen, PipelinesClose DEF Steps

\* No call but the one that is served moves, unless the process panics.
LEMMA Others ==
  ASSUME CallsOK, NEW c \in Clients, NEW d \in Clients \ {c},
         Serve(c) \/ Fail(c) \/ SkipItem(c) \/ Expire, ~ Panic(c)
  PROVE  Same(d)
<1>1. /\ DOMAIN pc = Clients /\ DOMAIN req = Clients /\ DOMAIN held = Clients
      /\ DOMAIN todo = Clients /\ DOMAIN total = Clients
      /\ DOMAIN reply = Clients
  BY DEF CallsOK
<1>2. ASSUME NEW r, Answer(c, r)
      PROVE  Same(d)
  BY <1>1, <1>2 DEF Answer, Same
<1>3. ASSUME NEW w, Goto(c, w), held'[d] = held[d], todo'[d] = todo[d],
             total'[d] = total[d]
      PROVE  Same(d)
  BY <1>1, <1>3 DEF Goto, Same
<1>4. CASE \/ RefuseCreate(c) \/ Create(c) \/ Save(c) \/ Get(c)
           \/ GetAssignment(c) \/ UpdateAtOnce(c) \/ RevokeAtOnce(c)
           \/ Replace(c) \/ SetBack(c) \/ RemoveMember(c) \/ SetRef(c)
           \/ FindByHash(c) \/ FollowRef(c) \/ Fetch(c) \/ FetchMatches(c)
           \/ EndList(c) \/ Fail(c)
  <2>1. \E r : Answer(c, r)
    BY <1>4 DEF RefuseCreate, Create, Save, Get, GetAssignment, UpdateAtOnce,
       RevokeAtOnce, Replace, SetBack, RemoveMember, SetRef, FindByHash,
       FollowRef, Fetch, FetchMatches, EndList, Fail
  <2> QED
    BY <1>2, <2>1
<1>5. CASE SetDocument(c) \/ Count(c) \/ CountMatches(c) \/ ReadMembers(c)
  BY <1>1, <1>3, <1>5 DEF SetDocument, Count, CountMatches, ReadMembers
<1>6. CASE AddMember(c) \/ ReadRef(c) \/ Delete(c) \/ ReadFirst(c)
  <2>1. \/ \E r : Answer(c, r)
        \/ /\ \E w : Goto(c, w)
           /\ held'[d] = held[d] /\ todo'[d] = todo[d] /\ total'[d] = total[d]
    BY <1>1, <1>6 DEF AddMember, ReadRef, Delete, ReadFirst
  <2> QED
    BY <1>2, <1>3, <2>1
<1>7. CASE ReadItem(c) \/ SkipItem(c)
  BY <1>1, <1>7 DEF ReadItem, SkipItem, Same
<1>8. CASE Expire
  BY <1>8 DEF Expire, callVars, Same
<1> QED
  BY <1>4, <1>5, <1>6, <1>7, <1>8 DEF Serve

\* A call that is served is in flight.
LEMMA Served ==
  ASSUME NEW c \in Clients, Serve(c) \/ Fail(c) \/ SkipItem(c)
  PROVE  InFlight(c)
BY DEF Serve, Fail, SkipItem, InFlight, At, RefuseCreate, Create, SetDocument, AddMember,
   SetRef, Save, Get, GetAssignment, FindByHash, ReadRef, FollowRef, Count,
   Fetch, CountMatches, FetchMatches, ReadMembers, ReadItem, EndList, Panic,
   UpdateAtOnce, RevokeAtOnce, ReadFirst, Replace, SetBack, Delete, RemoveMember

\* What a list has read stays read while the store is as it was.
LEMMA ReadStays ==
  ASSUME UNCHANGED << rows, backend >>, NEW d \in Clients, ReadOK(d), Same(d),
         lost'[d] = lost[d]
  PROVE  ReadOK(d)'
<1>1. /\ AllOf(d)' = AllOf(d) /\ PageOf(d)' = PageOf(d)
      /\ Exact(d)' <=> Exact(d)
      /\ Literal(d)' <=> Literal(d)
  BY AllFixed DEF Same
<1>2. /\ pc'[d] = pc[d] /\ req'[d] = req[d] /\ held'[d] = held[d]
      /\ todo'[d] = todo[d] /\ total'[d] = total[d] /\ reply'[d] = reply[d]
  BY DEF Same
<1>3. Progress(d)' <=> Along(held'[d], todo'[d], PageOf(d)', lost'[d])
  BY DEF Progress
<1>4. Progress(d) => Progress(d)'
  BY <1>1, <1>2, <1>3 DEF Progress
<1> QED
  BY <1>1, <1>2, <1>4 DEF ReadOK

\* A call that fails has not answered a list.
LEMMA FailedRead ==
  ASSUME NEW d \in Clients, pc'[d] = "done", ~ reply'[d].ok
  PROVE  ReadOK(d)'
BY DEF ReadOK

\* What is asked with a list.
LEMMA ListAsked ==
  ASSUME TypeInv, NEW c \in Clients, pc[c] # "idle", req[c].op = "list"
  PROVE  /\ StoreOK /\ Proper(req[c]) /\ PlaceOK(c)
         /\ req[c].kind \in Kinds /\ req[c].kind # "assignments"
         /\ AllOf(c) \in Seq(DocsOf(req[c].kind, req[c].tenant))
         /\ DocsOf(req[c].kind, req[c].tenant) \subseteq DocumentType
         /\ Len(AllOf(c)) = Cardinality(DocsOf(req[c].kind, req[c].tenant))
<1>1. StoreOK /\ Proper(req[c]) /\ PlaceOK(c)
  BY CallFacts
<1>2. req[c].kind \in Kinds /\ req[c].kind # "assignments"
  BY <1>1, Asked
<1> QED
  BY <1>1, <1>2, DocsInOrder DEF AllOf

\* Counting and fetching, one after the other;
LEMMA CountedRight ==
  ASSUME TypeInv, NEW c \in Clients, Count(c), ReadOK(c), lost'[c] = lost[c]
  PROVE  ReadOK(c)'
<1>1. /\ pc[c] = "run" /\ req[c].op = "list" /\ backend # "redis"
      /\ pc'[c] = "fetch" /\ req' = req /\ UNCHANGED << rows, backend >>
      /\ total'[c] = Cardinality(Listed(req[c].kind, req[c].tenant))
  BY DEF Count, At, Goto, storeVars, TypeInv, CallsOK
<1>2. Listed(req[c].kind, req[c].tenant) = DocsOf(req[c].kind, req[c].tenant)
  BY <1>1, ListAsked, ListedIs
<1>3. total'[c] = Len(AllOf(c))
  BY <1>1, <1>2, ListAsked
<1>4. AllOf(c)' = AllOf(c) /\ (Literal(c)' <=> Literal(c))
  BY <1>1, AllFixed
<1> QED
  BY <1>1, <1>3, <1>4 DEF ReadOK

\* a page is itself without nothing,
LEMMA WithoutNothing ==
  ASSUME NEW S, NEW page \in Seq(S)
  PROVE  Without(page, page, {})
<1> DEFINE at == [i \in DOMAIN page |-> i]
<1>1. DOMAIN page = 1 .. Len(page) /\ Len(page) \in Nat
  BY LenProperties
<1>2. /\ at \in [DOMAIN page -> DOMAIN page]
      /\ \A i \in DOMAIN page : at[i] = i
  OBVIOUS
<1> HIDE DEF at
<1> QED
  BY <1>1, <1>2 DEF Without

\* what is fetched is the page;
LEMMA FetchedRight ==
  ASSUME TypeInv, NEW c \in Clients, Fetch(c), ReadOK(c), lost'[c] = lost[c]
  PROVE  ReadOK(c)'
<1>1. /\ pc[c] = "fetch" /\ Literal(c) /\ UNCHANGED << rows, backend >>
  BY DEF Fetch, storeVars
<1>2. /\ req[c].op = "list" /\ backend # "redis"
  BY <1>1, CallFacts DEF PlaceOK
<1> DEFINE all == InOrder(Listed(req[c].kind, req[c].tenant), Precedes)
           good == [ok |-> TRUE, found |-> FALSE, items |-> Cut(c, all),
                    total |-> total[c]]
<1>3. Answer(c, Failed) \/ Answer(c, good)
  BY DEF Fetch
<1>4. all = AllOf(c)
  <2>1. Listed(req[c].kind, req[c].tenant) = DocsOf(req[c].kind, req[c].tenant)
    BY <1>1, <1>2, ListAsked, ListedIs
  <2> QED
    BY <2>1 DEF AllOf, Documents, DocsOf, KeysOf
<1> HIDE DEF all
<1>5. good.items = PageOf(c) /\ good.total = Len(AllOf(c)) /\ lost'[c] = {}
  BY <1>1, <1>2, <1>4 DEF ReadOK, PageOf
<1> HIDE DEF good
<1>6. pc'[c] = "done" /\ req' = req /\ reply'[c] \in {Failed, good}
  BY <1>3 DEF Answer, TypeInv, CallsOK
<1>7. /\ AllOf(c)' = AllOf(c) /\ PageOf(c)' = PageOf(c)
      /\ Exact(c)' <=> Exact(c)
  BY <1>1, <1>6, AllFixed
<1>8. Exact(c) => Without(PageOf(c), PageOf(c), {})
  <2> SUFFICES ASSUME Exact(c)
               PROVE  Without(PageOf(c), PageOf(c), {})
    OBVIOUS
  <2>1. Proper(req[c]) /\ AllOf(c) \in Seq(DocsOf(req[c].kind, req[c].tenant))
    BY <1>1, <1>2, ListAsked
  <2>2. PageOf(c) \in Seq(DocsOf(req[c].kind, req[c].tenant))
    BY <2>1, PageIs DEF PageOf
  <2> QED
    BY <2>2, WithoutNothing
<1>9. CASE reply'[c] = Failed
  BY <1>6, <1>9, Refusals DEF ReadOK
<1>10. CASE reply'[c] = good
  BY <1>5, <1>6, <1>7, <1>8, <1>10 DEF ReadOK
<1> QED
  BY <1>6, <1>9, <1>10

\* One more and one less.
LEMMA OneLess ==
  ASSUME NEW n \in Nat, NEW m \in Nat \ {0}, NEW t, n + m = t
  PROVE  /\ 1 \in 1 .. m /\ n + 1 \in 1 .. t /\ (n + 1) + (m - 1) = t
         /\ \A i \in 1 .. m - 1 : i + 1 \in 1 .. m /\ n + (i + 1) = (n + 1) + i
OBVIOUS

\* No two documents of a page have one name.
LEMMA NamesDiffer ==
  ASSUME TypeInv, NEW c \in Clients, pc[c] # "idle", req[c].op = "list", Exact(c)
  PROVE  /\ PageOf(c) \in Seq(DocsOf(req[c].kind, req[c].tenant))
         /\ \A i, j \in 1 .. Len(PageOf(c)) :
              PageOf(c)[i].name = PageOf(c)[j].name => i = j
<1> DEFINE S == DocsOf(req[c].kind, req[c].tenant)
           all == AllOf(c)
           P == PageOf(c)
<1>1. /\ StoreOK /\ Proper(req[c]) /\ req[c].kind # "assignments"
      /\ all \in Seq(S)
  BY ListAsked
<1>2. /\ P \in Seq(S)
      /\ \E first \in Nat : \A i \in 1 .. Len(P) :
           first + i \in 1 .. Len(all) /\ P[i] = all[first + i]
  BY <1>1, PageIs DEF PageOf
<1>3. PICK first \in Nat : \A i \in 1 .. Len(P) :
        first + i \in 1 .. Len(all) /\ P[i] = all[first + i]
  BY <1>2
<1>4. /\ Len(all) = Cardinality(S)
      /\ \A i \in 1 .. Len(all) :
           /\ all[i] \in S
           /\ Cardinality({ e \in S : Precedes(e, all[i]) }) = i - 1
  BY <1>1, DocsInOrder DEF AllOf
<1>5. \A d, e \in S : d.name = e.name => d = e
  BY <1>1, OneName DEF DocsOf
<1> HIDE DEF S, all, P
<1>6. ASSUME NEW i \in 1 .. Len(P), NEW j \in 1 .. Len(P), P[i].name = P[j].name
      PROVE  i = j
  <2>1. all[first + i] = all[first + j]
    BY <1>3, <1>4, <1>5, <1>6
  <2>2. (first + i) - 1 = (first + j) - 1
    BY <1>3, <1>4, <2>1
  <2> QED
    BY <1>3, <2>2
<1> QED
  BY <1>2, <1>6 DEF P, S

\* One name less remains.
LEMMA RemainLess ==
  ASSUME NEW U, NEW left \in Seq(U), left # << >>, NEW page, NEW gone,
         NEW m \in Nat, Remain(left, m, page, gone)
  PROVE  /\ m + 1 \in 1 .. Len(page)
         /\ Head(left) = page[m + 1].name /\ page[m + 1].name \notin gone
         /\ Remain(Tail(left), m + 1, page, gone)
<1> DEFINE rest == Tail(left)
<1>1. Len(left) \in Nat \ {0} /\ m + Len(left) = Len(page)
  BY LenProperties, EmptySeq DEF Remain
<1>2. /\ Head(left) = left[1]
      /\ Len(rest) = Len(left) - 1 /\ \A i \in 1 .. Len(rest) : rest[i] = left[i + 1]
  BY HeadTailProperties
<1>3. \A i \in 1 .. Len(left) :
        left[i] = page[m + i].name /\ page[m + i].name \notin gone
  BY DEF Remain
<1> HIDE DEF rest
<1>4. /\ 1 \in 1 .. Len(left) /\ m + 1 \in 1 .. Len(page)
      /\ (m + 1) + (Len(left) - 1) = Len(page)
      /\ \A i \in 1 .. Len(left) - 1 :
           i + 1 \in 1 .. Len(left) /\ m + (i + 1) = (m + 1) + i
  BY <1>1, OneLess
<1>5. Head(left) = page[m + 1].name /\ page[m + 1].name \notin gone
  BY <1>2, <1>3, <1>4
<1>6. (m + 1) + Len(rest) = Len(page)
  BY <1>2, <1>4
<1>7. ASSUME NEW i \in 1 .. Len(rest)
      PROVE  /\ rest[i] = page[(m + 1) + i].name
             /\ page[(m + 1) + i].name \notin gone
  <2>1. i + 1 \in 1 .. Len(left) /\ m + (i + 1) = (m + 1) + i
    BY <1>2, <1>4
  <2>2. left[i + 1] = page[m + (i + 1)].name /\ page[m + (i + 1)].name \notin gone
    BY <1>3, <2>1
  <2> QED
    BY <1>2, <2>1, <2>2
<1>8. Remain(rest, m + 1, page, gone)
  BY <1>6, <1>7 DEF Remain
<1> QED
  BY <1>4, <1>5, <1>8 DEF rest

\* The document that a GET answers is in hand,
LEMMA PickOne ==
  ASSUME NEW S, NEW had \in Seq(S), NEW m \in Nat, NEW page, NEW gone,
         NEW at, Picks(at, had, m, page, gone),
         NEW d \in S, d = page[m + 1], d.name \notin gone
  PROVE  \E to : Picks(to, Append(had, d), m + 1, page, gone)
<1> DEFINE n == Len(had)
           has == Append(had, d)
           to == [i \in 1 .. n + 1 |-> IF i = n + 1 THEN m + 1 ELSE at[i]]
<1>1. n \in Nat
  BY LenProperties
<1>2. Len(has) = n + 1 /\ has[n + 1] = d /\ \A i \in 1 .. n : has[i] = had[i]
  BY AppendProperties
<1>3. /\ at \in [1 .. n -> 1 .. m]
      /\ \A i \in 1 .. n : had[i] = page[at[i]]
      /\ \A i, j \in 1 .. n : i < j => at[i] < at[j]
      /\ \A k \in 1 .. m : page[k].name \in gone <=> ~ \E i \in 1 .. n : at[i] = k
  BY DEF Picks
<1> HIDE DEF n, has
<1>4. /\ to[n + 1] = m + 1 /\ \A i \in 1 .. n : to[i] = at[i]
      /\ to \in [1 .. n + 1 -> 1 .. m + 1]
  <2>1. n + 1 \in 1 .. n + 1 /\ \A i \in 1 .. n : i \in 1 .. n + 1 /\ i # n + 1
    BY <1>1
  <2>2. m + 1 \in 1 .. m + 1 /\ \A k \in 1 .. m : k \in 1 .. m + 1
    OBVIOUS
  <2>3. \A i \in 1 .. n + 1 : i = n + 1 \/ i \in 1 .. n
    BY <1>1
  <2> QED
    BY <1>3, <2>1, <2>2, <2>3
<1> HIDE DEF to
<1>5. \A i \in 1 .. n + 1 : i = n + 1 \/ i \in 1 .. n
  BY <1>1
<1>6. \A i \in 1 .. n : at[i] \in 1 .. m /\ at[i] < m + 1
  BY <1>3
<1>7. \A i \in 1 .. n + 1 : has[i] = page[to[i]]
  BY <1>2, <1>3, <1>4, <1>5
<1>8. ASSUME NEW i \in 1 .. n + 1, NEW j \in 1 .. n + 1, i < j
      PROVE  to[i] < to[j]
  <2>1. i \in 1 .. n
    BY <1>1, <1>8
  <2>2. CASE j = n + 1
    BY <1>4, <1>6, <2>1, <2>2
  <2>3. CASE j \in 1 .. n
    BY <1>3, <1>4, <1>8, <2>1, <2>3
  <2> QED
    BY <1>5, <2>2, <2>3
<1>9. ASSUME NEW k \in 1 .. m + 1
      PROVE  page[k].name \in gone <=> ~ \E i \in 1 .. n + 1 : to[i] = k
  <2>1. CASE k = m + 1
    BY <1>1, <1>4, <2>1
  <2>2. CASE k \in 1 .. m
    <3>1. k # m + 1
      BY <2>2
    <3>2. (\E i \in 1 .. n + 1 : to[i] = k) <=> \E i \in 1 .. n : at[i] = k
      BY <1>1, <1>4, <1>5, <3>1
    <3> QED
      BY <1>3, <2>2, <3>2
  <2> QED
    BY <2>1, <2>2
<1>10. Picks(to, has, m + 1, page, gone)
  BY <1>2, <1>4, <1>7, <1>8, <1>9 DEF Picks
<1> QED
  BY <1>10 DEF has

\* the one whose GET fails is not, and its name is lost.
LEMMA PickNone ==
  ASSUME NEW S, NEW had \in Seq(S), NEW m \in Nat, NEW page, NEW gone,
         NEW at, Picks(at, had, m, page, gone),
         NEW name, name = page[m + 1].name,
         \A k \in 1 .. m : page[k].name # name
  PROVE  Picks(at, had, m + 1, page, gone \cup {name})
<1> DEFINE n == Len(had)
<1>1. /\ at \in [1 .. n -> 1 .. m]
      /\ \A i \in 1 .. n : had[i] = page[at[i]]
      /\ \A i, j \in 1 .. n : i < j => at[i] < at[j]
      /\ \A k \in 1 .. m : page[k].name \in gone <=> ~ \E i \in 1 .. n : at[i] = k
  BY DEF Picks
<1> HIDE DEF n
<1>2. \A i \in 1 .. n : at[i] \in 1 .. m /\ at[i] # m + 1
  BY <1>1
<1>3. at \in [1 .. n -> 1 .. m + 1]
  BY <1>1
<1>4. ASSUME NEW k \in 1 .. m + 1
      PROVE  page[k].name \in gone \cup {name} <=> ~ \E i \in 1 .. n : at[i] = k
  <2>1. CASE k = m + 1
    BY <1>2, <2>1
  <2>2. CASE k \in 1 .. m
    BY <1>1, <2>2
  <2> QED
    BY <2>1, <2>2
<1> QED
  BY <1>1, <1>3, <1>4 DEF Picks, n

\* in Redis reading the names,
LEMMA NamesRight ==
  ASSUME TypeInv, NEW c \in Clients, ReadMembers(c), Settled, ReadOK(c),
         lost'[c] = lost[c]
  PROVE  ReadOK(c)'
<1> DEFINE names == InOrder(MembersOf(c), ByRank)
           all == AllOf(c)
<1>1. /\ pc[c] = "run" /\ req[c].op = "list" /\ backend = "redis"
      /\ pc'[c] = "items" /\ req' = req /\ UNCHANGED << rows, backend, held >>
      /\ total'[c] = Len(names) /\ todo'[c] = Cut(c, names)
  BY DEF ReadMembers, At, Goto, storeVars, TypeInv, CallsOK
<1>2. StoreOK /\ Proper(req[c]) /\ held[c] = << >>
  BY <1>1, CallFacts DEF CallOK
<1>3. /\ names \in Seq(Seq(Seq(Texts))) /\ Len(names) = Len(all)
      /\ \A i \in 1 .. Len(all) : names[i] = all[i].name
  BY <1>1, <1>2, NamesOfAll
<1>4. all \in Seq(DocsOf(req[c].kind, req[c].tenant))
  BY <1>1, ListAsked
<1>5. /\ AllOf(c)' = all /\ PageOf(c)' = PageOf(c) /\ (Exact(c)' <=> Exact(c))
      /\ lost'[c] = {}
  <2>1. Literal(c)
    BY <1>1 DEF Literal
  <2> QED
    BY <1>1, <2>1, AllFixed DEF ReadOK
<1> HIDE DEF names, all
<1>6. ASSUME Exact(c)
      PROVE  /\ Len(Cut(c, names)) = Len(Cut(c, all)) /\ Len(Cut(c, all)) \in Nat
             /\ \A i \in 1 .. Len(Cut(c, names)) :
                  Cut(c, names)[i] = Cut(c, all)[i].name
  <2> DEFINE from == Offset(Page(req[c].page), PerPage(req[c].per))
             per == PerPage(req[c].per)
             to(n) == IF from + per < n THEN from + per ELSE n
  <2>1. from >= 0
    BY <1>2, <1>4, <1>6, PageIs
  <2>2. req[c].page \in Int /\ req[c].per \in Int
    BY <1>2, Asked
  <2> HIDE DEF from, per
  <2>3. /\ Len(Cut(c, names)) =
             IF from < to(Len(names)) THEN to(Len(names)) - from ELSE 0
        /\ \A i \in 1 .. Len(Cut(c, names)) :
             /\ from + i \in 1 .. to(Len(names))
             /\ Cut(c, names)[i] = names[from + i]
    BY <1>3, <2>1, <2>2, CutIs DEF from, per
  <2>4. /\ Len(Cut(c, all)) =
             IF from < to(Len(all)) THEN to(Len(all)) - from ELSE 0
        /\ \A i \in 1 .. Len(Cut(c, all)) :
             /\ from + i \in 1 .. to(Len(all))
             /\ Cut(c, all)[i] = all[from + i]
    BY <1>4, <2>1, <2>2, CutIs DEF from, per
  <2>10. from \in Nat /\ per \in 1 .. MaxPerPage
    <3>1. from \in Int /\ per \in 1 .. MaxPerPage
      <4>1. per \in 1 .. MaxPerPage
        BY <2>2, PerPageType DEF per
      <4>2. per \in Int /\ Page(req[c].page) \in Int
        BY <2>2, <4>1, PageNumber, PagingAssumption
      <4>3. from \in Int
        BY <4>2, OffsetType DEF from, per
      <4> QED
        BY <4>1, <4>3
    <3> QED
      BY <2>1, <3>1
  <2>5. Len(all) \in Nat /\ per \in Nat
    BY <1>4, <2>10, LenProperties, PagingAssumption
  <2>6. Len(Cut(c, names)) = Len(Cut(c, all))
    BY <1>3, <2>3, <2>4
  <2>7. to(Len(all)) \in Nat /\ to(Len(all)) <= Len(all)
    BY <2>5, <2>10
  <2> HIDE DEF to
  <2>8. Len(Cut(c, all)) \in Nat
    BY <2>4, <2>7, <2>10
  <2>9. ASSUME NEW i \in 1 .. Len(Cut(c, names))
        PROVE  Cut(c, names)[i] = Cut(c, all)[i].name
    <3>1. i \in 1 .. Len(Cut(c, all)) /\ Cut(c, names)[i] = names[from + i]
      BY <2>3, <2>6
    <3>2. Cut(c, all)[i] = all[from + i] /\ from + i \in 1 .. Len(all)
      BY <2>4, <2>5, <2>7, <3>1
    <3> QED
      BY <1>3, <3>1, <3>2
  <2> QED
    BY <2>6, <2>8, <2>9
<1>7. Exact(c) => Progress(c)'
  <2> SUFFICES ASSUME Exact(c)
               PROVE  Progress(c)'
    OBVIOUS
  <2> DEFINE P == Cut(c, all)
             T == Cut(c, names)
  <2>1. /\ PageOf(c)' = P /\ held'[c] = << >> /\ todo'[c] = T
        /\ Len(T) = Len(P) /\ Len(P) \in Nat
        /\ \A i \in 1 .. Len(T) : T[i] = P[i].name
    BY <1>1, <1>2, <1>5, <1>6 DEF PageOf, all
  <2> HIDE DEF P, T
  <2>2. 0 \in Nat /\ 0 + Len(T) = Len(P) /\ \A i \in 1 .. Len(T) : 0 + i = i
    BY <2>1
  <2>3. Remain(T, 0, P, {})
    BY <2>1, <2>2 DEF Remain
  <2>4. Picks(<< >>, << >>, 0, P, {})
    BY DEF Picks
  <2>5. Along(<< >>, T, P, {})
    BY <2>2, <2>3, <2>4 DEF Along
  <2>6. Progress(c)' <=> Along(held'[c], todo'[c], PageOf(c)', lost'[c])
    BY DEF Progress
  <2> QED
    BY <1>5, <2>1, <2>5, <2>6
<1> QED
  BY <1>1, <1>3, <1>5, <1>7 DEF ReadOK

\* then each document, or going on without it,
LEMMA ItemRight ==
  ASSUME TypeInv, NEW c \in Clients, ReadOK(c),
         \/ ReadItem(c) /\ lost'[c] = lost[c]
         \/ SkipItem(c) /\ lost'[c] = lost[c] \cup {Head(todo[c])}
  PROVE  ReadOK(c)'
<1>1. /\ pc[c] = "items" /\ todo[c] # << >>
      /\ UNCHANGED << rows, backend, pc, req, total, reply >>
      /\ todo'[c] = Tail(todo[c])
  BY DEF ReadItem, SkipItem, storeVars, TypeInv, CallsOK
<1>2. /\ StoreOK /\ Proper(req[c]) /\ req[c].op = "list"
      /\ todo[c] \in Seq(Seq(Seq(Texts))) /\ held[c] \in Seq(DocumentType)
  BY <1>1, CallFacts DEF PlaceOK
<1>3. backend = "redis" /\ Literal(c)
  BY <1>1, CallFacts DEF PlaceOK, Literal
<1> DEFINE S == DocsOf(req[c].kind, req[c].tenant)
           k == Key(req[c].kind, req[c].tenant, Head(todo[c]))
           P == PageOf(c)
<1>5. AllOf(c)' = AllOf(c) /\ PageOf(c)' = P /\ (Exact(c)' <=> Exact(c))
  BY <1>1, AllFixed
<1>6. ASSUME Exact(c)
      PROVE  Progress(c)'
  <2>1. Along(held[c], todo[c], P, lost[c])
    BY <1>1, <1>2, <1>3, <1>6 DEF ReadOK, Progress
  <2>2. PICK m \in Nat : /\ Remain(todo[c], m, P, lost[c])
                         /\ \E at : Picks(at, held[c], m, P, lost[c])
    BY <2>1 DEF Along
  <2>3. PICK at : Picks(at, held[c], m, P, lost[c])
    BY <2>2
  <2>4. /\ P \in Seq(S) /\ S \subseteq DocumentType
        /\ \A i, j \in 1 .. Len(P) : P[i].name = P[j].name => i = j
    BY <1>1, <1>2, <1>6, NamesDiffer, ListAsked
  <2> DEFINE d == P[m + 1]
  <2> HIDE DEF P
  <2>5. /\ m + 1 \in 1 .. Len(P) /\ Head(todo[c]) = d.name /\ d.name \notin lost[c]
        /\ Remain(Tail(todo[c]), m + 1, P, lost[c])
    BY <1>1, <1>2, <2>2, RemainLess
  <2>6. d \in S /\ d \in DocumentType
    BY <2>4, <2>5, ElementOfSeq
  <2> HIDE DEF d
  <2>7. Progress(c)' <=> Along(held'[c], Tail(todo[c]), P, lost'[c])
    BY <1>1, <1>5 DEF Progress
  <2>8. CASE ReadItem(c) /\ lost'[c] = lost[c]
    <3>1. held'[c] = IF k \in DOMAIN rows THEN Append(held[c], rows[k]) ELSE held[c]
      BY <2>8 DEF ReadItem, TypeInv, CallsOK
    <3>2. k \in DOMAIN rows /\ rows[k] = d
      BY <1>2, <2>5, <2>6 DEF S, DocsOf, KeysOf, StoreOK
    <3> HIDE DEF k
    <3>3. held'[c] = Append(held[c], d)
      BY <3>1, <3>2
    <3>4. d = P[m + 1]
      BY DEF d
    <3>5. \E to : Picks(to, Append(held[c], d), m + 1, P, lost[c])
      BY <1>2, <2>3, <2>5, <2>6, <3>4, PickOne
    <3> QED
      BY <2>5, <2>7, <2>8, <3>3, <3>5 DEF Along
  <2>9. CASE SkipItem(c) /\ lost'[c] = lost[c] \cup {Head(todo[c])}
    <3> DEFINE gone == lost[c] \cup {d.name}
    <3>1. held'[c] = held[c] /\ lost'[c] = gone
      BY <2>5, <2>9 DEF SkipItem
    <3>2. \A i \in 1 .. Len(P) : i # m + 1 => P[i].name # d.name
      BY <2>4, <2>5 DEF d
    <3>3. Len(P) \in Nat
      BY <2>4, LenProperties
    <3>4. \A i \in 1 .. m : P[i].name # d.name
      <4>1. \A i \in 1 .. m : i \in 1 .. Len(P) /\ i # m + 1
        BY <2>5, <3>3
      <4> QED
        BY <3>2, <4>1
    <3>5. d.name = P[m + 1].name
      BY DEF d
    <3>6. Picks(at, held[c], m + 1, P, gone)
      BY <1>2, <2>3, <3>4, <3>5, PickNone
    <3>7. Remain(Tail(todo[c]), m + 1, P, gone)
      <4> DEFINE rest == Tail(todo[c])
      <4>1. /\ (m + 1) + Len(rest) = Len(P)
            /\ \A i \in 1 .. Len(rest) :
                 rest[i] = P[(m + 1) + i].name /\ P[(m + 1) + i].name \notin lost[c]
        BY <2>5 DEF Remain
      <4>2. Len(rest) \in Nat
        BY <1>1, <1>2, HeadTailProperties, LenProperties
      <4> HIDE DEF rest
      <4>3. \A i \in 1 .. Len(rest) :
              (m + 1) + i \in 1 .. Len(P) /\ (m + 1) + i # m + 1
        BY <3>3, <4>1, <4>2
      <4>4. \A i \in 1 .. Len(rest) : P[(m + 1) + i].name # d.name
        BY <3>2, <4>3
      <4>5. Remain(rest, m + 1, P, gone)
        BY <4>1, <4>4 DEF Remain
      <4> QED
        BY <4>5 DEF rest
    <3> HIDE DEF gone
    <3> QED
      BY <2>7, <3>1, <3>6, <3>7 DEF Along
  <2> QED
    BY <2>8, <2>9
<1> QED
  BY <1>1, <1>2, <1>3, <1>5, <1>6 DEF ReadOK

\* and answering what was read.
LEMMA EndRight ==
  ASSUME TypeInv, NEW c \in Clients, EndList(c), ReadOK(c), lost'[c] = lost[c]
  PROVE  ReadOK(c)'
<1> DEFINE good == [ok |-> TRUE, found |-> FALSE, items |-> held[c],
                    total |-> total[c]]
<1>1. /\ pc[c] = "items" /\ todo[c] = << >>
      /\ UNCHANGED << rows, backend >> /\ Answer(c, good)
  BY DEF EndList, storeVars
<1>2. /\ StoreOK /\ Proper(req[c]) /\ req[c].op = "list"
      /\ held[c] \in Seq(DocumentType) /\ Literal(c)
  BY <1>1, CallFacts DEF PlaceOK, Literal
<1>5. ASSUME Exact(c)
      PROVE  Without(held[c], PageOf(c), lost[c])
  <2> DEFINE P == PageOf(c)
             had == held[c]
  <2>1. P \in Seq(DocsOf(req[c].kind, req[c].tenant))
    BY <1>1, <1>2, <1>5, NamesDiffer
  <2>2. Along(had, << >>, P, lost[c])
    BY <1>1, <1>2, <1>5 DEF ReadOK, Progress
  <2>3. DOMAIN P = 1 .. Len(P) /\ Len(P) \in Nat /\ DOMAIN had = 1 .. Len(had)
    BY <1>2, <2>1, LenProperties
  <2> HIDE DEF P, had
  <2>4. PICK m \in Nat : /\ Remain(<< >>, m, P, lost[c])
                         /\ \E at : Picks(at, had, m, P, lost[c])
    BY <2>2 DEF Along
  <2>5. m = Len(P)
    BY <2>4 DEF Remain
  <2>6. PICK at : Picks(at, had, Len(P), P, lost[c])
    BY <2>4, <2>5
  <2>7. Without(had, P, lost[c])
    BY <2>3, <2>6 DEF Picks, Without
  <2> QED
    BY <2>7 DEF P, had
<1>6. good.items = held[c] /\ good.total = total[c]
  OBVIOUS
<1>7. total[c] = Len(AllOf(c))
  BY <1>1, <1>2 DEF ReadOK
<1> HIDE DEF good
<1>8. pc'[c] = "done" /\ req' = req /\ reply'[c] = good
  BY <1>1 DEF Answer, TypeInv, CallsOK
<1>9. AllOf(c)' = AllOf(c) /\ PageOf(c)' = PageOf(c) /\ (Exact(c)' <=> Exact(c))
  BY <1>1, <1>8, AllFixed
<1> QED
  BY <1>5, <1>6, <1>7, <1>8, <1>9 DEF ReadOK

\* What a pattern of MongoDB answers is not looked at.
LEMMA MatchesRight ==
  ASSUME TypeInv, NEW c \in Clients, CountMatches(c) \/ FetchMatches(c)
  PROVE  ReadOK(c)'
<1>1. ~ Literal(c) /\ UNCHANGED << rows, backend, req >>
  BY DEF CountMatches, FetchMatches, Goto, Answer, storeVars
<1>2. ~ Literal(c)'
  BY <1>1, AllFixed
<1> QED
  BY <1>2 DEF ReadOK

\* The step of a list's own call.
LEMMA OwnRead ==
  ASSUME TypeInv, NEW c \in Clients,
         \/ (Serve(c) \/ Fail(c)) /\ lost'[c] = lost[c]
         \/ SkipItem(c) /\ lost'[c] = lost[c] \cup {Head(todo[c])},
         UNCHANGED << rows, backend >>, Settled, ReadOK(c)
  PROVE  ReadOK(c)'
<1>1. req' = req /\ pc[c] # "idle"
  BY Moves, Served DEF TypeInv, InFlight
<1>2. ASSUME \/ Count(c) \/ Fetch(c) \/ CountMatches(c) \/ FetchMatches(c)
             \/ ReadMembers(c) \/ ReadItem(c) \/ EndList(c),
             lost'[c] = lost[c]
      PROVE  ReadOK(c)'
  BY <1>2, CountedRight, FetchedRight, NamesRight, ItemRight, EndRight,
     MatchesRight
<1>6. ASSUME SkipItem(c), lost'[c] = lost[c] \cup {Head(todo[c])}
      PROVE  ReadOK(c)'
  BY <1>6, ItemRight
<1>3. CASE Panic(c) \/ Fail(c)
  <2>1. pc'[c] = "done" /\ reply'[c] = Failed
    BY <1>3 DEF Panic, Fail, Answer, InFlight, At, TypeInv, CallsOK
  <2> QED
    BY <2>1, Refusals, FailedRead
<1>4. CASE req[c].op # "list"
  BY <1>1, <1>4 DEF ReadOK
<1>5. ASSUME req[c].op = "list", Serve(c)
      PROVE  \/ Count(c) \/ Fetch(c) \/ CountMatches(c) \/ FetchMatches(c)
             \/ ReadMembers(c) \/ ReadItem(c) \/ EndList(c) \/ Panic(c)
  <2>1. PlaceOK(c)
    BY CallFacts
  <2>2. pc[c] \notin {"member", "ref", "follow", "write"}
    BY <1>5, <2>1 DEF PlaceOK
  <2> QED
    BY <1>5, <2>2 DEF Serve, RefuseCreate, Create, SetDocument, AddMember,
       SetRef, Save, Get, GetAssignment, FindByHash, ReadRef, FollowRef,
       UpdateAtOnce, RevokeAtOnce, ReadFirst, Replace, SetBack, Delete,
       RemoveMember, At
<1> QED
  BY <1>2, <1>3, <1>4, <1>5, <1>6

\* Whether names and documents agree depends on them alone.
LEMMA SettledStays ==
  ASSUME UNCHANGED << rows, members, backend >>, Settled
  PROVE  Settled'
BY PlacesFixed DEF Settled, Kept

\* Where nothing is in a pipeline, they agree.
LEMMA SettledNow ==
  ASSUME PipelinesOK, ~ torn, \A d \in Clients : ~ MidPipeline(d)
  PROVE  Settled
BY DEF PipelinesOK, Settled, Aligned, Busy, MidPipeline

\* What has been read in quiet stays so in every step that is quiet.
LEMMA QuietBegin ==
  ASSUME ListInv, Observe, Recall, NEW c \in Clients, NEW r, Begin(c, r),
         NEW d \in Clients, still'[d]
  PROVE  Settled' /\ ReadOK(d)'
<1>1. /\ CallsOK /\ PipelinesOK /\ (still[d] => Settled /\ ReadOK(d))
      /\ UNCHANGED << rows, members, backend >>
  BY DEF ListInv, TypeInv, Begin, storeVars
<1>2. still'[d] = IF ~ InFlight(d) /\ InFlight(d)'
                  THEN ~ torn /\ \A e \in Clients : ~ MidPipeline(e)
                  ELSE still[d] /\ rows' = rows /\ members' = members
  BY DEF Observe
<1>3. CASE d = c
  <2>1. ~ InFlight(d) /\ pc'[d] = "run"
    BY <1>1, <1>3 DEF Begin, InFlight, CallsOK
  <2>2. InFlight(d)'
    BY <2>1 DEF InFlight
  <2>3. Settled
    BY <1>1, <1>2, <2>1, <2>2, SettledNow
  <2>4. ReadOK(d)'
    <3>1. lost'[d] = {}
      BY <2>1, <2>2 DEF Recall
    <3> QED
      BY <2>1, <3>1 DEF ReadOK
  <2> QED
    BY <1>1, <2>3, <2>4, SettledStays
<1>4. CASE d # c
  <2>1. Same(d)
    BY <1>1, <1>4 DEF Begin, CallsOK, Same
  <2>2. still[d] /\ lost'[d] = lost[d]
    BY <1>2, <2>1 DEF Same, InFlight, Recall
  <2> QED
    BY <1>1, <2>1, <2>2, SettledStays, ReadStays
<1> QED
  BY <1>3, <1>4

\* whichever call is served,
LEMMA QuietServe ==
  ASSUME ListInv, Observe, UNCHANGED backend,
         NEW c \in Clients,
         \/ (Serve(c) \/ Fail(c) \/ Expire) /\ Recall
         \/ SkipItem(c) /\ Lose(c),
         NEW d \in Clients, still'[d]
  PROVE  Settled' /\ ReadOK(d)'
<1>1. /\ TypeInv /\ CallsOK /\ (still[d] => Settled /\ ReadOK(d))
  BY DEF ListInv, TypeInv
<1>2. still'[d] = IF ~ InFlight(d) /\ InFlight(d)'
                  THEN ~ torn /\ \A e \in Clients : ~ MidPipeline(e)
                  ELSE still[d] /\ rows' = rows /\ members' = members
  BY DEF Observe
<1>0. DOMAIN lost = Clients
  BY DEF ListInv, LostOK
<1>3. CASE d = c /\ ~ Expire
  <2>1. InFlight(d)
    BY <1>3, Served
  <2>2. /\ still[d] /\ UNCHANGED << rows, members, backend >>
        /\ \/ (Serve(d) \/ Fail(d)) /\ lost'[d] = lost[d]
           \/ SkipItem(d) /\ lost'[d] = lost[d] \cup {Head(todo[d])}
    BY <1>0, <1>2, <1>3, <2>1 DEF Recall, Lose
  <2> QED
    BY <1>1, <1>3, <2>2, SettledStays, OwnRead
<1>4. CASE Same(d) /\ (d # c \/ Recall)
  <2>1. /\ still[d] /\ UNCHANGED << rows, members, backend >>
        /\ lost'[d] = lost[d]
    BY <1>0, <1>2, <1>4 DEF Same, InFlight, Recall, Lose
  <2> QED
    BY <1>1, <1>4, <2>1, SettledStays, ReadStays
<1>5. CASE Expire /\ Recall
  <2>1. Same(d)
    BY <1>5 DEF Expire, callVars, Same
  <2> QED
    BY <1>4, <1>5, <2>1
<1>6. CASE d # c /\ Panic(c)
  <2>1. pc'[d] = IF InFlight(d) THEN "done" ELSE pc[d]
    BY <1>6 DEF Panic
  <2>2. still[d] /\ UNCHANGED << rows, members, backend >>
    BY <1>2, <2>1 DEF InFlight
  <2>3. CASE InFlight(d)
    <3>1. pc'[d] = "done" /\ reply'[d] = Failed
      BY <1>6, <2>3 DEF Panic
    <3>2. ReadOK(d)'
      BY <3>1, Refusals, FailedRead
    <3> QED
      BY <1>1, <2>2, <3>2, SettledStays
  <2>4. CASE ~ InFlight(d)
    <3>1. /\ pc'[d] = pc[d] /\ req'[d] = req[d] /\ reply'[d] = reply[d]
          /\ pc[d] \in {"idle", "done"}
          /\ lost'[d] = lost[d]
      BY <1>0, <1>6, <2>4 DEF Panic, InFlight, Recall, Lose
    <3>2. /\ AllOf(d)' = AllOf(d) /\ PageOf(d)' = PageOf(d)
          /\ Exact(d)' <=> Exact(d)
          /\ Literal(d)' <=> Literal(d)
      BY <2>2, <3>1, AllFixed
    <3>3. ReadOK(d)'
      BY <1>1, <2>2, <3>1, <3>2 DEF ReadOK
    <3> QED
      BY <1>1, <2>2, <3>3, SettledStays
  <2> QED
    BY <2>3, <2>4
<1>7. d = c \/ Same(d) \/ Panic(c)
  BY <1>1, Others
<1>9. CASE d = c /\ Expire /\ ~ Recall
  <2>1. SkipItem(d) /\ lost'[d] = lost[d] \cup {Head(todo[d])}
    BY <1>0, <1>9 DEF Lose
  <2>2. still[d] /\ UNCHANGED << rows, members, backend >>
    BY <1>2, <1>9, <2>1, Served
  <2> QED
    BY <1>1, <2>1, <2>2, SettledStays, OwnRead
<1> QED
  BY <1>3, <1>4, <1>5, <1>6, <1>7, <1>9

\* whatever is done.
LEMMA QuietStep ==
  ASSUME ListInv, Next, NEW d \in Clients, still'[d]
  PROVE  Settled' /\ ReadOK(d)'
<1>1. Observe /\ UNCHANGED backend /\ TypeInv
  BY Constant DEF ListInv
<1>2. CASE RunStep /\ Recall
  BY <1>1, <1>2, QuietBegin, ScriptAssumption DEF RunStep
<1>3. CASE (\E c \in Clients : Call(c)) /\ Recall
  BY <1>1, <1>3, HandlersAsk, QuietBegin
<1>4. CASE \E c \in Clients : (Serve(c) \/ Fail(c)) /\ Recall
  BY <1>1, <1>4, QuietServe
<1>6. CASE \E c \in Clients : SkipItem(c) /\ Lose(c)
  BY <1>1, <1>6, QuietServe
<1>5. CASE Expire /\ Recall
  BY <1>1, <1>5, QuietServe
<1> QED
  BY <1>2, <1>3, <1>4, <1>5, <1>6 DEF Next

\* Every step keeps the invariant.
LEMMA ListsStep ==
  ASSUME ListInv, [Next]_vars
  PROVE  ListInv'
<1>1. TypeInv /\ TypeInv'
  BY TypesStep DEF ListInv
<1>2. CASE Next
  <2>1. PipelinesOK'
    BY <1>1, <1>2, PipelinesStep, Constant DEF ListInv
  <2>2. \A d \in Clients : still'[d] => Settled' /\ ReadOK(d)'
    BY <1>2, QuietStep
  <2>3. LostOK'
    BY <1>2 DEF ListInv, LostOK, Next, Recall, Lose
  <2> QED
    BY <1>1, <2>1, <2>2, <2>3 DEF ListInv
<1>3. CASE UNCHANGED vars
  <2>1. /\ UNCHANGED << rows, members, backend, torn, still, lost >>
        /\ UNCHANGED << pc, req, held, todo, total, reply >>
    BY <1>3 DEF vars, moduleVars, storeVars, callVars, historyVars
  <2>2. \A d \in Clients : MidOK(d) => MidOK(d)'
    BY <2>1, PlacesFixed DEF MidOK, Stored
  <2>3. Aligned => Aligned'
    BY <2>1, PlacesFixed DEF Aligned, Busy, Kept
  <2>4. Alone => Alone'
    BY <2>1, PlacesFixed DEF Alone, Writes, InFlight
  <2>5. PipelinesOK'
    BY <2>1, <2>2, <2>3, <2>4 DEF ListInv, PipelinesOK
  <2>6. ASSUME NEW d \in Clients, still'[d]
        PROVE  Settled' /\ ReadOK(d)'
    <3>1. still[d] /\ Same(d)
      BY <2>1, <2>6 DEF Same
    <3> QED
      BY <2>1, <3>1, SettledStays, ReadStays DEF ListInv
  <2>7. LostOK'
    BY <2>1 DEF ListInv, LostOK
  <2> QED
    BY <1>1, <2>5, <2>6, <2>7 DEF ListInv
<1> QED
  BY <1>2, <1>3

\* At the start there is a name for every flag, and no list.
LEMMA ListsBegin ==
  ASSUME ClientsInit
  PROVE  ListInv
<1>1. TypeInv
  BY TypesBegin
<1>2. \A c \in Clients : pc[c] = "idle" /\ ~ still[c]
  BY DEF ClientsInit, Init
<1>3. Alone /\ \A c \in Clients : MidOK(c)
  BY <1>2 DEF Alone, Writes, InFlight, MidOK
<1>4. ASSUME backend = "redis"
      PROVE  Aligned
  <2> SUFFICES ASSUME NEW p \in Places
               PROVE  Kept(p) <=> p \in members
    BY DEF Aligned
  <2>1. CASE driver = "suite"
    BY <2>1 DEF ClientsInit, Kept
  <2>2. CASE driver = "handlers"
    <3>1. /\ DOMAIN rows = { Key("flags", Home, n) : n \in Flags }
          /\ members = { << Home, "flags", n >> : n \in Flags }
      BY <1>4, <2>2 DEF ClientsInit
    <3>2. ASSUME NEW n \in Flags
          PROVE  /\ << Home, "flags", n >> \in Places
                 /\ KeyFor(<< Home, "flags", n >>) = Key("flags", Home, n)
      <4>1. Named("flags", n) /\ n \in Seq(Seq(Texts)) /\ Home \in Texts
        BY FlagDocOK
      <4>2. PICK kind \in Kinds \ {"assignments"} : kind = "flags"
        BY DEF Kinds
      <4> QED
        BY <4>1, <4>2 DEF Places, KeyFor
    <3>3. ASSUME NEW n \in Flags
          PROVE  KeyFor(p) = Key("flags", Home, n) <=> p = << Home, "flags", n >>
      BY <1>1, <1>4, <3>2, PlacesApart DEF TypeInv, StoreOK
    <3> QED
      BY <3>1, <3>3 DEF Kept
  <2> QED
    BY <1>1, <2>1, <2>2 DEF TypeInv
<1> QED
  BY <1>1, <1>2, <1>3, <1>4 DEF ListInv, PipelinesOK, LostOK, ClientsInit

\* The invariant implies that quiet lists are exact.
LEMMA ListsExact ==
  ASSUME ListInv
  PROVE  QuietListExact
<1> SUFFICES ASSUME NEW c \in Clients, pc[c] = "done", req[c].op = "list",
                    reply[c].ok, still[c], Exact(c), Literal(c)
             PROVE  LET per == PerPage(req[c].per)
                        all == AllOf(c)
                        end == req[c].asked * per
                        last == IF end < Len(all) THEN end ELSE Len(all)
                        page == SubSeq(all, (req[c].asked - 1) * per + 1, last)
                    IN  /\ reply[c].total = Len(all)
                        /\ Without(reply[c].items, page, lost[c])
  BY DEF QuietListExact, Exact, AllOf
<1>1. /\ reply[c].total = Len(AllOf(c))
      /\ Without(reply[c].items, PageOf(c), lost[c])
  BY DEF ListInv, ReadOK
<1>2. Proper(req[c]) /\ AllOf(c) \in Seq(DocsOf(req[c].kind, req[c].tenant))
  BY ListAsked DEF ListInv
<1>3. LET per == PerPage(req[c].per)
          end == req[c].asked * per
          last == IF end < Len(AllOf(c)) THEN end ELSE Len(AllOf(c))
      IN  PageOf(c) = SubSeq(AllOf(c), (req[c].asked - 1) * per + 1, last)
  BY <1>2, PageIs DEF PageOf
<1> QED
  BY <1>1, <1>3

\* A list during which nothing was written answers the true total and the page
\* that was asked for, in order, without those documents whose own GET failed and
\* no others, in each of the three stores: whatever the clients, flags and pages,
\* and however the calls interleave or fail before it or beside it (paginateKeys,
\* listDocuments, ListFlags).
THEOREM QuietListsAreExact == Spec => []QuietListExact
<1>1. Spec => []ListInv
  BY ListsBegin, ListsStep, PTL DEF Spec
<1> QED
  BY <1>1, ListsExact, PTL

=============================================================================
