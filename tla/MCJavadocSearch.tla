--------------------------- MODULE MCJavadocSearch ---------------------------
(* A site like the published one, without modules and tags, in small.       *)
EXTENDS JavadocSearch

Package(p) ==
  [l |-> p, q |-> p, shown |-> p, m |-> None, p |-> None, url |-> None,
   page |-> p \o <<"package-summary">>]

Type_(p, l) ==
  [l |-> l, q |-> p \o <<".">> \o l, shown |-> p \o <<".">> \o l, m |-> None, p |-> p,
   url |-> None, page |-> p \o l]

Member(p, c, l) ==
  [l |-> l, q |-> c \o <<".">> \o l, shown |-> p \o <<".">> \o c \o <<".">> \o l,
   m |-> None, p |-> p, c |-> c, url |-> None, page |-> p \o c \o <<"#">> \o l]

\* The overview pages are in the indices too, with their address only.
Overview(l, q, url) ==
  [l |-> l, q |-> q, shown |-> l, m |-> None, p |-> None, url |-> url, page |-> url]

page == <<"p", "age">>
control == <<"control">>
service == <<"serv", "i", "c", "e">>
info == <<"info">>
Index_ == <<"I", "ndex">>
AllPackages == <<"A", "ll", " ", "P", "ackages">>
AllClasses == <<"A", "ll", " ", "C", "lasses">>

MCUndefined == <<"un", "def", "ined", ".">>

MCIndex ==
  [Packages |-> << Overview(AllPackages, AllPackages, <<"allpackages-index">>),
                   Package(page), Package(control), Package(service), Package(info) >>,
   Types |-> << Overview(AllClasses, MCUndefined \o AllClasses, <<"allclasses-index">>),
                Type_(control, Index_ \o <<"C", "ontroller">>),
                Type_(page, Index_ \o <<"P", "age">>),
                Type_(control, Index_),
                Type_(service, Index_),
                Type_(info, Index_) >>,
   Members |-> << Member(control, Index_, <<"find", "P", "age", "B", "y", "C", "a", "ll", "er">>),
                  Member(control, Index_, page \o <<".", "N", "ot", "N", "ull">>),
                  Member(control, Index_, <<"get">> \o Index_),
                  Member(control, Index_, page) >>]

\* "Index", "IC" (which is in "service", too), "page", "All" (in "Caller", too),
\* "ndex" inside a word, "def" from "undefined", and what is nowhere.
MCTerm ==
  {Index_, <<"I", "C">>, page, <<"A", "ll">>, <<"ndex">>, <<"def">>, <<"N", "othing">>}
MCLower == [I |-> "i", C |-> "c", P |-> "p", A |-> "a", B |-> "b", N |-> "n"]
MCSmall ==
  {"i", "c", "p", "a", "b", "n", "e", "age", "control", "serv", "info", "ndex", "ackages", "ll",
   "lasses", "ontroller", "find", "y", "er", "ot", "ull", "get", "un", "def", "ined", "othing"}
=============================================================================
