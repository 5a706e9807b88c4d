---------------------------- MODULE Conformance ----------------------------
(***************************************************************************)
(* The conformance suite of the persistence modules                        *)
(* (internal/conformance/persistence.go): each test as the calls it makes, *)
(* in order, and what it expects of their answers.  A test has a tenant of *)
(* its own, named after it.                                                *)
(***************************************************************************)
EXTENDS PersistenceModule

NoHash == << "", 0 >>

Name(key) == << <<key>> >>
Pair(subject, flag) == << <<subject>>, <<flag>> >>

\* A request: its operation and document, and no more than it needs.
Ask(op, kind, tenant, name, data) ==
  [op |-> op, kind |-> kind, tenant |-> tenant, name |-> name, data |-> data,
   hash |-> NoHash, expires |-> 0, page |-> 0, per |-> 0, asked |-> 1]

CreateKey(tenant, id, hash) ==
  [Ask("create", "apikeys", tenant, Name(id), "active") EXCEPT !.hash = hash]

FindKey(hash) ==
  [Ask("findByHash", "apikeys", "", Name(""), "") EXCEPT !.hash = hash]

ListPage(kind, tenant, page, per) ==
  [Ask("list", kind, tenant, Name(""), "")
     EXCEPT !.page = page, !.per = per, !.asked = Page(page)]

\* What a test looks at in an answer.
Field(r, f) ==
  CASE f = "ok"      -> r.ok
    [] f = "found"   -> r.found
    [] f = "total"   -> r.total
    [] f = "count"   -> Len(r.items)
    [] f = "stamped" -> r.items # << >> /\ r.items[1].createdAt > 0
    [] f = "data"    -> IF r.items = << >> THEN "" ELSE r.items[1].data
    [] f = "name"    -> IF r.items = << >> THEN << >> ELSE r.items[1].name
    [] f = "tenant"  -> IF r.items = << >> THEN "" ELSE r.items[1].tenant
    [] f = "revoked" -> r.items # << >> /\ r.items[1].revoked

Meets(r, expect) == \A f \in DOMAIN expect : Field(r, f) = expect[f]

Step(ask, expect) == [ask |-> ask, expect |-> expect]

Succeeds(ask) == Step(ask, [ok |-> TRUE])

\* Three documents, on a page of two and a page of one.
Listing(creates, kind, tenant) ==
  creates \o
  << Step(ListPage(kind, tenant, 1, 2), [ok |-> TRUE, count |-> 2, total |-> 3]),
     Step(ListPage(kind, tenant, 2, 2), [ok |-> TRUE, count |-> 1]) >>

-----------------------------------------------------------------------------
(* Flags *)

TestFlagCreateAndGet ==
  LET t == "CreateAndGetFlag"  n == Name("my-flag") IN
  << Step(Ask("create", "flags", t, n, "a test flag"),
          [ok |-> TRUE, name |-> n, data |-> "a test flag", stamped |-> TRUE]),
     Step(Ask("get", "flags", t, n, ""),
          [ok |-> TRUE, found |-> TRUE, name |-> n, data |-> "a test flag"]) >>

TestFlagListPagination ==
  LET t == "ListFlags" IN
  Listing(<< Succeeds(Ask("create", "flags", t, Name("flag-a"), "on")),
             Succeeds(Ask("create", "flags", t, Name("flag-b"), "on")),
             Succeeds(Ask("create", "flags", t, Name("flag-c"), "on")) >>,
          "flags", t)

TestFlagUpdate ==
  LET t == "UpdateFlag"  n == Name("upd-flag") IN
  << Succeeds(Ask("create", "flags", t, n, "before")),
     Step(Ask("update", "flags", t, n, "after"),
          [ok |-> TRUE, data |-> "after"]) >>

TestFlagDelete ==
  LET t == "DeleteFlag"  n == Name("del-flag") IN
  << Succeeds(Ask("create", "flags", t, n, "on")),
     Succeeds(Ask("delete", "flags", t, n, "")),
     Step(Ask("get", "flags", t, n, ""), [ok |-> TRUE, found |-> FALSE]) >>

TestFlagTenantIsolation ==
  LET n == Name("isolated") IN
  << Succeeds(Ask("create", "flags", "Isolation-A", n, "on")),
     Step(Ask("get", "flags", "Isolation-B", n, ""),
          [ok |-> TRUE, found |-> FALSE]),
     Step(ListPage("flags", "Isolation-B", 0, 0),
          [ok |-> TRUE, count |-> 0]) >>

-----------------------------------------------------------------------------
(* Assignments *)

Feature == Pair("user-1", "feature-x")

GetFeature(t, expect) ==
  Step(Ask("get", "assignments", t, Feature, ""), expect)

TestAssignmentSaveAndGet ==
  LET t == "SaveAndGetAssignment" IN
  << Succeeds(Ask("save", "assignments", t, Feature, "control")),
     GetFeature(t, [ok |-> TRUE, found |-> TRUE, name |-> Feature,
                    data |-> "control", stamped |-> TRUE]) >>

TestAssignmentUpsert ==
  LET t == "AssignmentUpsert" IN
  << Succeeds(Ask("save", "assignments", t, Feature, "control")),
     Succeeds(Ask("save", "assignments", t, Feature, "treatment")),
     GetFeature(t, [ok |-> TRUE, data |-> "treatment"]) >>

TestAssignmentExpiry ==
  LET t == "AssignmentExpiry" IN
  << Succeeds([Ask("save", "assignments", t, Feature, "control")
                 EXCEPT !.expires = 1]),
     GetFeature(t, [ok |-> TRUE, found |-> FALSE]) >>

TestAssignmentNotFound ==
  << Step(Ask("get", "assignments", "AssignmentNotFound",
              Pair("no-such-user", "no-such-flag"), ""),
          [ok |-> TRUE, found |-> FALSE]) >>

-----------------------------------------------------------------------------
(* Experiments *)

TestExperimentCreateAndGet ==
  LET t == "CreateAndGetExperiment"  n == Name("exp-1") IN
  << Step(Ask("create", "experiments", t, n, "Experiment One"),
          [ok |-> TRUE, name |-> n, data |-> "Experiment One",
           stamped |-> TRUE]),
     Step(Ask("get", "experiments", t, n, ""),
          [ok |-> TRUE, found |-> TRUE, name |-> n,
           data |-> "Experiment One"]) >>

TestExperimentListPagination ==
  LET t == "ListExperiments" IN
  Listing(<< Succeeds(Ask("create", "experiments", t, Name("exp-a"), "draft")),
             Succeeds(Ask("create", "experiments", t, Name("exp-b"), "draft")),
             Succeeds(Ask("create", "experiments", t, Name("exp-c"), "draft"))
          >>, "experiments", t)

TestExperimentUpdate ==
  LET t == "UpdateExperiment"  n == Name("upd-exp") IN
  << Succeeds(Ask("create", "experiments", t, n, "Before, draft")),
     Step(Ask("update", "experiments", t, n, "After, running"),
          [ok |-> TRUE, data |-> "After, running"]) >>

-----------------------------------------------------------------------------
(* API keys *)

TestAPIKeyCreateAndGetByHash ==
  LET t == "CreateAndGetAPIKey"  h == << t, 0 >> IN
  << Step(CreateKey(t, "test-key", h),
          [ok |-> TRUE, name |-> Name("test-key"), stamped |-> TRUE]),
     Step(FindKey(h), [ok |-> TRUE, found |-> TRUE, name |-> Name("test-key"),
                       tenant |-> t]) >>

TestAPIKeyListPagination ==
  LET t == "ListAPIKeys" IN
  Listing(<< Succeeds(CreateKey(t, "list-key-0", << t, 0 >>)),
             Succeeds(CreateKey(t, "list-key-1", << t, 1 >>)),
             Succeeds(CreateKey(t, "list-key-2", << t, 2 >>)) >>,
          "apikeys", t)

TestAPIKeyRevoke ==
  LET t == "RevokeAPIKey"  h == << t, 0 >> IN
  << Succeeds(CreateKey(t, "revoke-key", h)),
     Succeeds(Ask("revoke", "apikeys", t, Name("revoke-key"), "")),
     Step(FindKey(h), [ok |-> TRUE, found |-> TRUE, revoked |-> TRUE]) >>

TestAPIKeyGetByHashNotFound ==
  << Step(FindKey(<< "nonexistent", 0 >>), [ok |-> TRUE, found |-> FALSE]) >>

\* RunPersistenceSuite, one test after another.
Suite ==
  TestFlagCreateAndGet \o TestFlagListPagination \o TestFlagUpdate
  \o TestFlagDelete \o TestFlagTenantIsolation
  \o TestAssignmentSaveAndGet \o TestAssignmentUpsert \o TestAssignmentExpiry
  \o TestAssignmentNotFound
  \o TestExperimentCreateAndGet \o TestExperimentListPagination
  \o TestExperimentUpdate
  \o TestAPIKeyCreateAndGetByHash \o TestAPIKeyListPagination
  \o TestAPIKeyRevoke \o TestAPIKeyGetByHashNotFound

\* Every key the tests use, in the order the stores sort them.
SuiteNames ==
  << Name("del-flag"), Name("exp-1"), Name("exp-a"), Name("exp-b"),
     Name("exp-c"), Name("flag-a"), Name("flag-b"), Name("flag-c"),
     Name("isolated"), Name("list-key-0"), Name("list-key-1"),
     Name("list-key-2"), Name("my-flag"), Name("revoke-key"),
     Name("test-key"), Name("upd-exp"), Name("upd-flag") >>

=============================================================================
