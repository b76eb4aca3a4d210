------------------------------ MODULE MCQuestions ------------------------------
(* Questions on small stores whose graphs have one flaw each, two graphs at a *)
(* time: numbers and labels given twice, dates that are missing or contradict *)
(* each other, names that differ or are missing, parties with no identity or  *)
(* two, Bills with two titles, statuses or years, rows that fill a page.      *)
EXTENDS Questions

Period(from, to) == [from |-> from, to |-> to]
Term(t, house, n, period) == [term |-> t, house |-> house, number |-> n, period |-> period]
Place(p, label, t) == [place |-> p, label |-> label, term |-> t]
Membership(m, name, id, t, place, period) ==
  [member |-> m, name |-> name, membership |-> id, house |-> "dail", term |-> t, place |-> place, period |-> period]
Senator(m, name, id, period) == [Membership(m, name, id, "s1", Nothing, period) EXCEPT !.house = "seanad"]
Episode(m, id, of, party, period) ==
  [member |-> m, episode |-> id, of |-> of, party |-> party, period |-> period]
Party(p, name, identity, t) == [party |-> p, name |-> name, identity |-> identity, term |-> t]
Holding(m, id, period) == [member |-> m, holding |-> id, office |-> "o", period |-> period]
Committee(c, label, t, period) == [committee |-> c, label |-> label, term |-> t, period |-> period]
Sitting(m, c) == [member |-> m, committee |-> c]
Cabinet(m, id, period) == [member |-> m, cabinet |-> id, period |-> period]
Seats(t, n) == [term |-> t, seats |-> n]

\* All stores in which two graphs have one of their contents.
Varied(base, graphs) ==
  UNION {{[[base EXCEPT ![x[1]] = a] EXCEPT ![x[2]] = b] : a \in graphs[x[1]], b \in graphs[x[2]]} :
           x \in (DOMAIN graphs) \X (DOMAIN graphs)}

Seat == [dan |-> <<"d1", "d2", "d3">>, eve |-> <<"e1", "e2", "e3">>, fay |-> <<"f1", "f2", "f3">>, guy |-> <<"g1", "g2", "g3">>]

T1 == Term("t1", "dail", 1, Period(1, 2))
T2 == Term("t2", "dail", 2, Period(3, Open))
T3 == Term("t3", "dail", 2, Period(3, 4))
S1 == Term("s1", "seanad", 1, Period(3, Open))
S0 == Term("s0", "seanad", 0, Period(1, 2))
SenatorBefore == [Senator("ann", "Ann", "sb", Period(1, 2)) EXCEPT !.term = "s0"]
Ann == Membership("ann", "Ann", "ma", "t2", "p", Period(3, Open))
AnnBefore == Membership("ann", "Ann", "mo", "t1", "p", Period(1, 2))
Bob == Membership("bob", "Bob", "mb", "t2", "p", Period(3, 3))
Cat == Membership("cat", "Cat", "mc", "t2", "p", Period(4, Open))
CatBefore == Membership("cat", "Cat", "md", "t1", "p", Period(1, 2))
InX == Episode("ann", "ea", "ma", "pa", Period(3, Open))
PartyX == Party("pa", "ix", "ix", "t2")
Again(row) == [row EXCEPT !.period = Period(1, 2)]
Undated(row) == [row EXCEPT !.period = Period(Unknown, Open)]

C1 == Committee("c1", "C", "t2", Period(3, Open))
C2 == Committee("c2", "C", "t1", Period(1, 2))
InY == [Again(InX) EXCEPT !.party = "pb", !.of = "mo"]

Bill(n, title, status, participation) ==
  [bill |-> <<n, 3>>, graph |-> <<n, 3>>, year |-> 3, title |-> title, status |-> status, published |-> 3,
   participation |-> participation, member |-> "ann", primary |-> "primary", memo |-> "whole"]
B1 == Bill(1, {"x"}, "current", "p1")
B2 == Bill(2, {"y"}, "enacted", "p2")
Sponsored(n) == Bill(n, {"y"}, "current", <<"p1", "p2", "p3", "p4", "p5", "p6">>[n])

Base ==
  [terms |-> {T1, T2}, places |-> {Place("p", "x", "t2"), Place("p", "x", "t1")}, members |-> {Ann, Bob},
   episodes |-> {InX}, parties |-> {PartyX}, offices |-> {[office |-> "o", label |-> "O"]},
   holdings |-> {Holding("ann", "ha", Period(3, 4))}, cabinets |-> {Cabinet("ann", "ca", Period(3, Open))},
   identities |-> {[identity |-> "ix", label |-> "ix"]},
   committees |-> {C1}, sittings |-> {Sitting("ann", "c1")}, seats |-> {Seats("t2", 5)}, bills |-> {B1}]

Contents ==
  [members |->
    [terms |-> {{T1, T2}, {T2, [T2 EXCEPT !.period = Period(3, 4)]}, {T2, T3}, {T1, Undated(T2)},
                {T1, T2, [T3 EXCEPT !.period = Period(5, 6)]}, {[T1 EXCEPT !.period = Period(1, 3)], T2}},
     places |-> {{Place("p", "x", "t2"), Place("p", "x", "t1")}, {Place("p", "x", "t2"), Place("p2", "x", "t2")},
                 {Place("p", "x", "t2"), Place("p", "y", "t2")}, {Place("p2", "y", "t2"), Place("p", "x", "t1")},
                 {Place("p", "x", "t2")}},
     members |-> {{}, {Ann}, {Ann, Again(Ann)}, {Ann, [Ann EXCEPT !.name = "Anne"]}, {Ann, Undated(Bob)},
                  {Ann, AnnBefore, Bob, CatBefore}, {Ann, Bob, Cat}, {Ann, Bob, Cat, [Cat EXCEPT !.name = Nothing]},
                  {Ann, Again(Ann), Bob, Cat}, {Bob, Cat, CatBefore, [Ann EXCEPT !.member = "dan", !.membership = "me"]},
                  {Ann, [Bob EXCEPT !.name = "Ann"]}, {Ann, [Ann EXCEPT !.place = "p2"], Bob},
                  {Ann, Bob, Cat} \cup {Membership(m, m, Seat[m][1], "t2", "p", Period(3, Open)) : m \in {"dan", "eve", "fay"}}}],
   parties |->
    [members |-> {{Ann}, {Ann, Again(Ann)}, {Ann, Undated(Bob)}, {Ann, AnnBefore}, {Ann, [Bob EXCEPT !.place = "p2"]},
                 {Ann, Bob, [Cat EXCEPT !.period = Period(3, 4)]}},
     places |-> {{Place("p", "x", "t2"), Place("p2", "y", "t2")}, {Place("p", "x", "t2"), Place("p", "y", "t2")}},
     episodes |-> {{InX, Episode("bob", "eb", "mb", "pa", Period(3, 3)), Episode("cat", "ec", "mc", "pa", Period(3, Open))},
                   {InX, Again(InX)}, {Again(InX)}, {Episode("ann", "ea", "mo", "pa", Period(3, Open))},
                   {InX, Episode("bob", "eb", "mb", "pb", Period(3, 3))},
                   {InX, Episode("bob", "eb", "mb", "pb", Period(Unknown, 3))},
                   {InX, Episode("bob", "eb", "mb", "pa", Period(3, 3)), Episode("ann", "ec", "ma", "pb", Period(4, Open))}},
     parties |-> {{PartyX, Party("pb", "iy", "iy", "t2")}, {Party("pa", "ix", Nothing, "t2")},
                  {PartyX, Party("pb", "ix", Nothing, "t2")}, {PartyX, Party("pa", "ix", "iy", "t2")},
                  {PartyX, Party("pb", "ix", "iz", "t2")}},
     holdings |-> {{Holding("ann", "ha", Period(3, 4)), Holding("ann", "ha", Period(1, 2))}, {Holding("ann", "ha", Period(1, 2))}}],
   houses |->
    [terms |-> {{T1, T2, S1}, {T1, T2, S1, [S1 EXCEPT !.period = Period(3, 4)]}, {T1, T2}},
     members |-> {{Senator("ann", "Ann", "sa", Period(3, Open)), AnnBefore, Bob},
                  {Senator("ann", "Ann", "sa", Period(3, Open)), AnnBefore, Ann},
                  {Senator("ann", "Ann", "sa", Period(3, Open)), Undated(AnnBefore)},
                  {Senator("ann", "Ann", "sa", Period(3, Open)), Again(Senator("ann", "Ann", "sa", Period(3, Open))), AnnBefore},
                  {Senator("cat", "Cat", "sc", Period(4, Open)), Undated(CatBefore), Ann, Senator("ann", "Ann", "sa", Period(3, 3))},
                  {Senator("cat", "Cat", "sc", Period(3, Open)), CatBefore, Cat, AnnBefore, Senator("ann", "Ann", "sa", Period(3, 3))},
                  {Senator("bob", "Bob", "sb", Period(3, Open)), Bob, Ann}, {AnnBefore, Bob}, {AnnBefore, Ann},
                  {Ann, [Bob EXCEPT !.name = "Ann"]}, {Ann, [Ann EXCEPT !.name = "Bob"]},
                  UNION {{Senator(m, m, Seat[m][1], Period(3, Open)), Membership(m, m, Seat[m][2], "t1", "p", Period(1, 2)),
                          Membership(m, m, Seat[m][3], "t2", "p", Period(3, Open))} : m \in {"dan", "eve", "fay", "guy"}}}],
   chronology |->
    [terms |-> {{}, {S1, T2}, {T1, T2}, {T2, [T2 EXCEPT !.period = Period(3, 4)]}, {T1, [T2 EXCEPT !.number = 9], T2}, {T1, Undated(T2)},
                {T1, T3, [T3 EXCEPT !.term = "t4", !.period = Period(5, 6)]}, {[T1 EXCEPT !.period = Period(1, Open)], T2},
                {[T1 EXCEPT !.period = Period(1, Open)], T3}, {T1, [T2 EXCEPT !.period = Period(4, Open)]},
                {[T1 EXCEPT !.period = Period(2, 1)], T2}}],
   dail |->
    [terms |-> {{T1, T2, T3}, {T1, S1}, {T2}},
     seats |-> {{}, {Seats("t2", 5), Seats("t2", 6)}, {Seats("t2", 0)}},
     parties |-> {{}, {PartyX, Party("pb", Nothing, "iy", "t2")}, {PartyX, Party("pa", "iy", "ix", "t2")},
                  {PartyX, Party("pb", "iy", "iy", "t1")}, {Party(p, p, p, "t2") : p \in {"pa", "pb", "pc"}}}],
   bills |->
    [members |-> {{Ann}, {Ann, [Bob EXCEPT !.name = "Ann"]}, {Ann, [Ann EXCEPT !.name = "Anne"]}, {Bob}},
     bills |-> {{}, {B1, B2}, {B1, [B2 EXCEPT !.title = {"x", "y"}]}, {B1, [B1 EXCEPT !.title = {"x", "y"}]},
                {[B1 EXCEPT !.title = Nothing]}, {[B1 EXCEPT !.title = {"y"}]}, {[B1 EXCEPT !.year = 2]},
                {B1, [B1 EXCEPT !.year = 2]}, {[B1 EXCEPT !.year = Nothing]},
                {B1, [B1 EXCEPT !.status = "enacted"]}, {B1, B2, [B2 EXCEPT !.status = Nothing]},
                {B1, [B1 EXCEPT !.status = Nothing, !.title = Nothing]}, {[B1 EXCEPT !.status = "odd"]}, {[B1 EXCEPT !.status = Nothing]},
                {[B1 EXCEPT !.graph = <<2, 3>>]}, {B1, [B2 EXCEPT !.participation = "p1"]},
                {B1, [B1 EXCEPT !.primary = "supporting"]}, {[B1 EXCEPT !.primary = Nothing]},
                {[B1 EXCEPT !.primary = "malformed"]},
                {[B1 EXCEPT !.published = Unknown]}, {B1, [B2 EXCEPT !.published = Nothing]}, {B1, [B2 EXCEPT !.published = 2]},
                {[B1 EXCEPT !.memo = "partial"]}, {[B1 EXCEPT !.memo = "none"]},
                {B1, [B1 EXCEPT !.participation = "p2", !.member = "cat", !.primary = "supporting"]},
                {B1, [B1 EXCEPT !.member = "bob"]},
                {[B1 EXCEPT !.participation = Nothing, !.member = Nothing, !.primary = Nothing]},
                {B1, [B1 EXCEPT !.title = {"x", "y"}], [B2 EXCEPT !.title = {"x"}]},
                {B1, [B1 EXCEPT !.status = "enacted"], [B1 EXCEPT !.status = "odd"]},
                {B1, B2, Sponsored(3), Sponsored(4)}, {Sponsored(n) : n \in 1..6}}],
   service |->
    [terms |-> {{T1, T2}, {T1, T2, S0, S1}, {[T1 EXCEPT !.period = Period(1, 3)], T2}, {T2, S1}},
     members |-> {{Ann}, {Ann, AnnBefore}, {AnnBefore, Again(Ann)}, {Ann, [Bob EXCEPT !.name = "Ann"]}, {Bob},
                  {Ann, [Bob EXCEPT !.name = "Ann"], [Cat EXCEPT !.name = "Ann"]},
                  {Senator("ann", "Ann", "sa", Period(3, Open))}, {SenatorBefore, Senator("ann", "Ann", "sa", Period(3, Open))},
                  {[SenatorBefore EXCEPT !.period = Period(1, Open)], Senator("ann", "Ann", "sa", Period(3, Open))},
                  {SenatorBefore, Senator("ann", "Ann", "sa", Period(3, Open)), Again(Senator("ann", "Ann", "sa", Period(3, Open)))},
                  {[SenatorBefore EXCEPT !.place = "panel"], Undated(Senator("ann", "Ann", "sa", Period(3, Open)))},
                  {Senator("ann", "Ann", "sa", Period(3, Open)), [Bob EXCEPT !.name = "Ann"]},
                  {[Senator("ann", "Ann", "sa", Period(3, Open)) EXCEPT !.place = "panel"],
                   [Senator("bob", "Ann", "sc", Period(3, Open)) EXCEPT !.place = "other"]},
                  {[Senator("ann", "Ann", "sa", Period(3, Open)) EXCEPT !.place = "panel"],
                   [Senator("ann", "Ann", "sc", Period(4, Open)) EXCEPT !.place = "other"]},
                  {Ann, [AnnBefore EXCEPT !.period = Period(2, 3)]}, {Ann, [AnnBefore EXCEPT !.period = Period(1, Open)]}},
     places |-> {{Place("p", "x", "t2"), Place("panel", "y", "s1")}, {Place("panel", Nothing, "s1"), Place("other", "y", "s1")}},
     episodes |-> {{InX, InY}, {InX, [InY EXCEPT !.period = Period(1, Open)]}, {InX, [InX EXCEPT !.party = "pb", !.episode = "ec"]},
                   {InX, [InX EXCEPT !.of = "mo"]}, {InX, Undated(InY)}, {}},
     parties |-> {{PartyX, Party("pb", "iy", "iy", "t1")}, {PartyX, Party("pb", "ix", "ix", "t1")}, {Party("pa", Nothing, "ix", "t2")}},
     committees |-> {{C1, C2}, {C1, [C2 EXCEPT !.term = "t2", !.period = Period(3, Open)]}, {C2}, {[C1 EXCEPT !.label = Nothing]},
                     {Undated(C1), C2}, {[C1 EXCEPT !.term = "t1"]}},
     sittings |-> {{}, {Sitting("ann", "c1"), Sitting("ann", "c2")}, {Sitting("ann", "c2"), Sitting("bob", "c1")},
                   {Sitting("ann", c) : c \in {"c1", "c2", "c3"}}}],
   tenures |->
    [terms |-> {{T1, T2}, {T2, [T2 EXCEPT !.period = Period(3, 4)]}, {[T1 EXCEPT !.period = Period(1, 3)], T2}},
     members |-> {{Ann}, {Ann, AnnBefore}, {Ann, Again(Ann)}, {Ann, [Ann EXCEPT !.name = "Anne"]}, {Ann, [Ann EXCEPT !.place = "p2"]},
                  {Ann, Undated(Bob)}, {AnnBefore, Bob}, {Ann, [Ann EXCEPT !.term = "t1"]}, {Ann, [Bob EXCEPT !.name = "Ann"]}},
     places |-> {{Place("p", "x", "t2"), Place("p2", "y", "t2")}, {Place("p2", "y", "t2")}},
     episodes |-> {{InX, Episode("bob", "eb", "mb", "pa", Period(3, 3))}, {InX, Again(InX)}, {},
                   {InX, Episode("ann", "ec", "ma", "pb", Period(4, Open))}},
     parties |-> {{PartyX, Party("pb", "iy", Nothing, "t2")}, {PartyX, Party("pa", "ix", "iy", "t2")}},
     holdings |-> {{}, {Holding("ann", "ha", Period(1, 2))}, {Holding("ann", "ha", Period(3, 4)), Holding("bob", "hb", Period(2, 3))},
                   {Holding("ann", "ha", Period(3, 4)), Holding("ann", "ha", Period(1, 2))},
                   {Holding("ann", "ha", Period(Unknown, 4)), Holding("bob", "hb", Period(3, Open))},
                   {Holding("ann", "ha", Period(3, Open)), Holding("bob", "hb", Period(5, 4))}},
     cabinets |-> {{Cabinet("ann", "ca", Period(3, Open)), Cabinet("bob", "cb", Period(3, 3))},
                   {Cabinet("ann", "ca", Period(3, Open)), Cabinet("ann", "ca", Period(1, 2))}}]]

Asking ==
  [members |->
     {[kind |-> "members", number |-> n, place |-> "x"] : n \in {1, 2, Nothing}}
     \cup {[kind |-> "date", number |-> n, place |-> "x", date |-> 3] : n \in {2, Nothing}}
     \cup {[kind |-> "previous", number |-> Previous, place |-> "x"], [kind |-> "terms", number |-> 1, other |-> 2]}
     \cup {[kind |-> "neighbours", number |-> n, name |-> "Ann"] : n \in {2, Previous}},
   parties |->
     {[kind |-> "party", number |-> n, places |-> p, identity |-> "ix"] : n \in {2, Nothing}, p \in {{"x"}, {"x", "y"}}}
     \cup {[kind |-> "parties", number |-> n, places |-> {"x"}] : n \in {2, Nothing}}
     \cup {[kind |-> "term_party", house |-> "dail", number |-> 2, identity |-> "ix"],
           [kind |-> "term_party", house |-> "seanad", number |-> Nothing, identity |-> "ix"]}
     \cup {[kind |-> "during_office", number |-> Nothing, identity |-> "ix", name |-> "Ann", office |-> "O"]},
   houses |-> {[kind |-> "shared", name |-> "Ann", second |-> "Bob"], [kind |-> "both"], [kind |-> "returned"],
               [kind |-> "listing"], [kind |-> "all_terms"], [kind |-> "seats", number |-> 2], [kind |-> "groups", number |-> 2]}
              \cup {[kind |-> "scope", from |-> x[1], to |-> x[2]] : x \in {<<3, 3>>, <<2, 3>>, <<3, 4>>}},
   service |-> {[kind |-> k, name |-> "Ann"] :
                  k \in {"served", "entry", "duration", "sat", "committees", "collection", "namesakes"}}
               \cup {[kind |-> "lookup", name |-> "Ann", house |-> h] : h \in {Nothing, "dail", "seanad"}}
               \cup {[kind |-> "panel", name |-> "Ann", number |-> 1], [kind |-> "committee", name |-> "Ann", committee |-> "C"]},
   tenures |->
     {[kind |-> "office", office |-> "O", from |-> x[1], to |-> x[2]] : x \in {<<2, 3>>, <<3, 3>>, <<2, 4>>}}
     \cup {[kind |-> "held", office |-> "O", name |-> "Ann", from |-> 2, to |-> 3],
           [kind |-> "episodes", office |-> "O", name |-> "Ann"], [kind |-> "government", identity |-> "ix"],
           [kind |-> "sitting", place |-> "x"]}
     \cup {[kind |-> k, name |-> "Ann"] : k \in {"affiliation", "seat", "latest", "career"}},
   bills |->
     {[kind |-> "bills", name |-> "Ann"], [kind |-> "billcount", name |-> "Ann", year |-> 3], [kind |-> "bill", bill |-> <<1, 3>>]}
     \cup {[kind |-> k, year |-> 3] : k \in {"published", "unenacted"}}
     \cup {[kind |-> k, title |-> "x"] : k \in {"titled", "status", "sponsors"}}]

Kinds(family) == {question.kind : question \in Asking[family]}

\* The graphs each kind of question reads.
Reads(kind) ==
  CASE kind = "terms" -> {"terms", "members"}
    [] kind \in {"members", "date", "neighbours", "previous"} -> {"terms", "places", "members"}
    [] kind = "party" -> {"members", "places", "episodes", "parties"}
    [] kind = "parties" -> {"members", "places", "episodes", "parties"}
    [] kind = "term_party" -> {"members", "episodes", "parties"}
    [] kind = "during_office" -> {"members", "episodes", "parties", "holdings"}
    [] kind \in {"office", "held", "episodes"} -> {"members", "holdings"}
    [] kind = "government" -> {"terms", "members", "episodes", "parties", "cabinets"}
    [] kind = "affiliation" -> {"members", "episodes", "parties"}
    [] kind \in {"seat", "sitting", "latest", "career"} -> {"terms", "members", "places"}
    [] kind \in {"listing", "scope", "all_terms"} -> {"terms"}
    [] kind = "panel" -> {"terms", "members", "places"}
    [] kind = "collection" -> {"terms", "members", "episodes", "parties"}
    [] kind = "committee" -> {"terms", "committees", "sittings"}
    [] kind = "committees" -> {"members", "sittings"}
    [] kind = "sat" -> {"members"}
    [] kind = "seats" -> {"terms", "seats"}
    [] kind = "groups" -> {"terms", "parties"}
    [] kind \in {"bills", "billcount", "sponsors"} -> {"members", "bills"}
    [] kind \in Kinds("bills") -> {"bills"}
    [] OTHER -> {"terms", "members"}

Published ==
  LET graphs(family, kind) == Restrict(Contents[family], Reads(kind))
      of(kind) ==
        CASE kind \in {"listing", "scope", "all_terms"} -> "chronology"
          [] kind \in {"seats", "groups"} -> "dail"
          [] OTHER -> CHOOSE family \in DOMAIN Asking : kind \in Kinds(family)
  IN [kind \in UNION {Kinds(family) : family \in DOMAIN Asking} |-> graphs(of(kind), kind)]

Initial ==
  LET base(kind) ==
        CASE kind = "committee" -> [Base EXCEPT !.committees = {C1, C2}]
          [] kind = "collection" -> [Base EXCEPT !.members = {Ann, AnnBefore}, !.parties = {PartyX, Party("pb", "iy", "iy", "t1")}]
          [] kind \in Kinds("parties") -> [Base EXCEPT !.episodes = {InX, Episode("bob", "eb", "mb", "pa", Period(3, 3))}]
          [] kind \in Kinds("houses") -> [Base EXCEPT !.terms = {T1, T2, S1}]
          [] OTHER -> Base
  IN [kind \in DOMAIN Published |-> Varied(base(kind), Published[kind])]

\* TLC evaluates what a constant is replaced by at every use, and these names once.
MCQuestions == Asking
MCGraphs == Published
MCStores == Initial
MCAliases == [i \in {"ix", "iy", "iz"} |-> IF i = "iz" THEN {"iz", "ix"} ELSE {i}]
=============================================================================
