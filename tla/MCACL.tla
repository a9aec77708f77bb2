------------------------------- MODULE MCACL -------------------------------
(* Instances of ACLReconcile: users come, go and change their rules. *)
EXTENDS ACLReconcile

CONSTANTS p1, p2

TwoPods == {p1, p2}

TwoNames == {"app", "metrics"}
Entry(pw, keys, plus, minus) == [pw |-> pw, keys |-> keys, plus |-> plus, minus |-> minus]
Metrics == Entry("m1", {}, {"info"}, {"get", "del"})

\* app gets a new password, loses a command and all but its own keys, which a
\* pod that gave it all keys refuses, and metrics is added; then app gets all
\* keys again, and metrics is removed
ThreeVersions ==
    << [n \in {"app"} |-> Entry("a1", {AllKeys}, {"get", "del"}, {})],
       [n \in {"app", "metrics"} |->
          IF n = "app" THEN Entry("a2", {"~app"}, {"get"}, {"del"}) ELSE Metrics],
       [n \in {"app"} |-> Entry("a2", {AllKeys}, {"get"}, {"del"})] >>
SameOperator == <<"o1", "o1", "o1">>

\* the operator password is rotated
OneUser      == [n \in {"app"} |-> Entry("a1", {AllKeys}, {"get", "del"}, {})]
SameUsers    == <<OneUser, OneUser>>
TwoOperators == <<"o1", "o2">>
============================================================================
