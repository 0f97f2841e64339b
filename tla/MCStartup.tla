----------------------------- MODULE MCStartup -----------------------------
(* Startup with a file of two sessions and a plan, and one session more. *)
EXTENDS Startup

Whole == [client |-> "c", target |-> "t"]
Half == [client |-> "c", target |-> None]

Old(s, readable) == [id |-> s, scope |-> Whole, expired |-> s = "s1", readable |-> readable]
FileOf(readable) ==
  [sessions |-> <<Old("s1", readable[1]), Old("s2", readable[2])>>,
   plans    |-> <<[id |-> "p1", brief_id |-> "s1", readable |-> readable[3]]>>]
SomeFiles == {NoFile} \cup {FileOf(r) : r \in
  {<<TRUE, TRUE, TRUE>>, <<TRUE, TRUE, FALSE>>, <<TRUE, FALSE, TRUE>>, <<FALSE, TRUE, TRUE>>}}

\* An empty database, and one from before v6
NoRows    == [s \in Sids |-> None]
BeforeV6(scope) ==
  [NoRows EXCEPT !["s3"] = [scope |-> scope, columns |-> Empty, expired |-> FALSE]]
SomeRows  == {NoRows, BeforeV6(Whole), BeforeV6(Half)}
=============================================================================
