--------------------------- MODULE Detection_proofs ---------------------------
(***************************************************************************)
(* What goes wrong is noticed: proofs about the validation of a debate for *)
(* any documents and published owners, and about the alerts of degraded    *)
(* runs for any sources, threshold, events and bounds.                     *)
(***************************************************************************)
EXTENDS DegradedAlerts, DebateValidation, FiniteSetTheorems, TLAPS

----------------------------------------------------------------------------
\* The rows of the report, slot by slot

\* Only what is neither absent nor malformed can be waiting for a target.
LEMMA DeferredRow ==
  ASSUME NEW slot, NEW node, NEW about, NEW raw
  PROVE  LET r == Deferred(slot, node, about, raw)
         IN /\ r.slot = slot /\ r.node = node /\ r.about = about /\ r.raw = raw
            /\ r.value = "absent" /\ r.target = None
            /\ r.status = IF Shape(raw) \in {"absent", "malformed"} THEN Shape(raw) ELSE "unresolved"
            /\ r.status # "resolved"
BY DEF Deferred, ReferenceRow, Shape

\* A person resolves to a published Member, or is deferred.
LEMMA PersonRowShape ==
  ASSUME NEW d, NEW o, NEW slot, NEW node, NEW about, NEW raw
  PROVE  LET r == PersonRow(d, o, slot, node, about, raw)
         IN /\ r.slot = slot /\ r.node = node /\ r.about = about /\ r.raw = raw
            /\ r.value = "absent"
            /\ \/ /\ raw \in DOMAIN d.ids /\ d.ids[raw].kind = "TLCPerson"
                  /\ d.ids[raw].href \in o.members
                  /\ r.status = "resolved" /\ r.target = d.ids[raw].href
               \/ r = Deferred(slot, node, about, raw)
BY DeferredRow DEF PersonRow, ReferenceRow

LEMMA JoinedShape ==
  ASSUME NEW d, NEW v, NEW slot, NEW node, NEW raw, NEW known
  PROVE  LET r == Joined(d, v, slot, node, raw, known)
         IN /\ r.slot = slot /\ r.node = node /\ r.raw = raw /\ r.value = "absent"
            /\ \/ /\ raw \in known /\ JoinOf(d, v) # None /\ r.about = JoinOf(d, v)
                  /\ r.status = "resolved" /\ r.target = JoinOf(d, v)
               \/ /\ ~(raw \in known /\ JoinOf(d, v) # None)
                  /\ r.status # "resolved" /\ r.target = None
                  /\ r.status = IF Shape(raw) \in {"absent", "malformed"} THEN Shape(raw) ELSE "unresolved"
<1> DEFINE join == JoinOf(d, v)
           about == IF join = None THEN "expression" ELSE join
<1>1. Joined(d, v, slot, node, raw, known) =
        IF raw \in known /\ join # None THEN ReferenceRow(slot, node, about, raw, "resolved", join)
        ELSE Deferred(slot, node, about, raw)
  BY DEF Joined
<1> HIDE DEF join
<1>2. CASE raw \in known /\ join # None
  BY <1>1, <1>2 DEF ReferenceRow, join
<1>3. CASE ~(raw \in known /\ join # None)
  BY <1>1, <1>3, DeferredRow DEF join
<1> QED BY <1>2, <1>3

SpeechesOf(d) == Mapped(d) \cap OfKind(d, {"speech"})
QuestionsOf(d) == Mapped(d) \cap OfKind(d, {"question"})
SectionsOf(d) == Mapped(d) \cap OfKind(d, Sections)

CountRow(d, v, c) == [Joined(d, v, "count", c.id, c.kind, CountKinds) EXCEPT !.value = c.value]

\* The slots of a report and what a row in each of them is of.
LEMMA SlotsOfReport ==
  ASSUME NEW d, NEW o, NEW r \in Report(d, o)
  PROVE  \/ /\ r.slot = "speaker"
            /\ \E n \in SpeechesOf(d) : r = PersonRow(d, o, "speaker", n, n, d.attr[n].by)
         \/ /\ r.slot = "role"
            /\ \E n \in SpeechesOf(d) : r = Deferred("role", n, n, d.attr[n].as)
         \/ /\ r.slot = "askedBy"
            /\ \E n \in QuestionsOf(d) : r = PersonRow(d, o, "askedBy", n, n, d.attr[n].by)
         \/ /\ r.slot = "directedTo"
            /\ \E n \in QuestionsOf(d) : r = Deferred("directedTo", n, n, d.attr[n].to)
         \/ /\ r.slot = "event"
            /\ \E n \in SectionsOf(d) : r = Deferred("event", n, n, d.attr[n].refersTo)
         \/ /\ r.slot \in Groups
            /\ \E b \in Ballots(d) : r = BallotRow(d, o, b)
         \/ /\ r.slot = "result"
            /\ \E v \in d.votings : r = Joined(d, v, "result", v.id, v.href, {v.href})
         \/ /\ r.slot = "outcome"
            /\ \E v \in d.votings : r = Joined(d, v, "outcome", v.id, v.outcome, Outcomes)
         \/ /\ r.slot = "proposal"
            /\ \E v \in d.votings : r = Joined(d, v, "proposal", v.id, v.refersTo, {})
         \/ /\ r.slot = "count"
            /\ \E v \in d.votings : \E c \in v.counts : r = CountRow(d, v, c)
         \/ /\ r.slot = "term"
            /\ \E a \in DOMAIN d.authors : r = TermRow(d, o, a)
         \/ /\ r.slot = "body"
            /\ \E a \in DOMAIN d.authors : r = BodyRow(d, o, a)
<1>1. CASE r \in BodyRows(d, o)
  <2>1. CASE \E n \in SpeechesOf(d) : r = PersonRow(d, o, "speaker", n, n, d.attr[n].by)
    <3>1. r.slot = "speaker"
      BY <2>1, PersonRowShape
    <3> QED BY <2>1, <3>1
  <2>2. CASE \E n \in SpeechesOf(d) : r = Deferred("role", n, n, d.attr[n].as)
    <3>1. r.slot = "role"
      BY <2>2, DeferredRow
    <3> QED BY <2>2, <3>1
  <2>3. CASE \E n \in QuestionsOf(d) : r = PersonRow(d, o, "askedBy", n, n, d.attr[n].by)
    <3>1. r.slot = "askedBy"
      BY <2>3, PersonRowShape
    <3> QED BY <2>3, <3>1
  <2>4. CASE \E n \in QuestionsOf(d) : r = Deferred("directedTo", n, n, d.attr[n].to)
    <3>1. r.slot = "directedTo"
      BY <2>4, DeferredRow
    <3> QED BY <2>4, <3>1
  <2>5. CASE \E n \in SectionsOf(d) : r = Deferred("event", n, n, d.attr[n].refersTo)
    <3>1. r.slot = "event"
      BY <2>5, DeferredRow
    <3> QED BY <2>5, <3>1
  <2>6. \/ \E n \in SpeechesOf(d) : r = PersonRow(d, o, "speaker", n, n, d.attr[n].by)
        \/ \E n \in SpeechesOf(d) : r = Deferred("role", n, n, d.attr[n].as)
        \/ \E n \in QuestionsOf(d) : r = PersonRow(d, o, "askedBy", n, n, d.attr[n].by)
        \/ \E n \in QuestionsOf(d) : r = Deferred("directedTo", n, n, d.attr[n].to)
        \/ \E n \in SectionsOf(d) : r = Deferred("event", n, n, d.attr[n].refersTo)
    BY <1>1, Zenon DEF BodyRows, SpeechesOf, QuestionsOf, SectionsOf
  <2> QED BY <2>1, <2>2, <2>3, <2>4, <2>5, <2>6
<1>2. CASE r \in {BallotRow(d, o, b) : b \in Ballots(d)}
  <2>1. PICK b \in Ballots(d) : r = BallotRow(d, o, b)
    BY <1>2
  <2>2. r.slot = d.kind[b[2]]
    BY <2>1, PersonRowShape DEF BallotRow
  <2>3. d.kind[b[2]] \in Groups
    BY DEF Ballots, OfKind
  <2>4. r.slot \in Groups /\ \E x \in Ballots(d) : r = BallotRow(d, o, x)
    BY <2>1, <2>2, <2>3
  <2> QED BY <2>4, Zenon
<1>3. CASE r \in UNION {VotingRows(d, v) : v \in d.votings}
  <2>1. PICK v \in d.votings : r \in VotingRows(d, v)
    BY <1>3
  <2>2. \/ r = Joined(d, v, "result", v.id, v.href, {v.href})
        \/ r = Joined(d, v, "outcome", v.id, v.outcome, Outcomes)
        \/ r = Joined(d, v, "proposal", v.id, v.refersTo, {})
        \/ \E c \in v.counts : r = CountRow(d, v, c)
    BY <2>1 DEF VotingRows, CountRow
  <2>3. CASE r = Joined(d, v, "result", v.id, v.href, {v.href})
    <3>1. r.slot = "result"
      BY <2>3, JoinedShape
    <3> QED BY <2>3, <3>1
  <2>4. CASE r = Joined(d, v, "outcome", v.id, v.outcome, Outcomes)
    <3>1. r.slot = "outcome"
      BY <2>4, JoinedShape
    <3> QED BY <2>4, <3>1
  <2>5. CASE r = Joined(d, v, "proposal", v.id, v.refersTo, {})
    <3>1. r.slot = "proposal"
      BY <2>5, JoinedShape
    <3> QED BY <2>5, <3>1
  <2>6. CASE \E c \in v.counts : r = CountRow(d, v, c)
    <3>1. r.slot = "count"
      BY <2>6 DEF CountRow, Joined, Deferred, ReferenceRow
    <3> QED BY <2>6, <3>1
  <2> QED BY <2>2, <2>3, <2>4, <2>5, <2>6
<1>4. CASE r \in {TermRow(d, o, a) : a \in DOMAIN d.authors}
  BY <1>4 DEF TermRow, ReferenceRow
<1>5. CASE r \in {BodyRow(d, o, a) : a \in DOMAIN d.authors}
  BY <1>5 DEF BodyRow, ReferenceRow
<1> QED BY <1>1, <1>2, <1>3, <1>4, <1>5 DEF Report

\* Every row of every kind is in the report.
LEMMA RowsOfReport ==
  ASSUME NEW d, NEW o
  PROVE  /\ \A n \in SpeechesOf(d) :
              {PersonRow(d, o, "speaker", n, n, d.attr[n].by),
               Deferred("role", n, n, d.attr[n].as)} \subseteq Report(d, o)
         /\ \A n \in QuestionsOf(d) :
              {PersonRow(d, o, "askedBy", n, n, d.attr[n].by),
               Deferred("directedTo", n, n, d.attr[n].to)} \subseteq Report(d, o)
         /\ \A n \in SectionsOf(d) : Deferred("event", n, n, d.attr[n].refersTo) \in Report(d, o)
         /\ \A b \in Ballots(d) : BallotRow(d, o, b) \in Report(d, o)
         /\ \A v \in d.votings :
              /\ {Joined(d, v, "result", v.id, v.href, {v.href}),
                  Joined(d, v, "outcome", v.id, v.outcome, Outcomes),
                  Joined(d, v, "proposal", v.id, v.refersTo, {})} \subseteq Report(d, o)
              /\ \A c \in v.counts : CountRow(d, v, c) \in Report(d, o)
         /\ \A a \in DOMAIN d.authors : {TermRow(d, o, a), BodyRow(d, o, a)} \subseteq Report(d, o)
<1>1. /\ \A n \in SpeechesOf(d) :
           /\ PersonRow(d, o, "speaker", n, n, d.attr[n].by) \in BodyRows(d, o)
           /\ Deferred("role", n, n, d.attr[n].as) \in BodyRows(d, o)
      /\ \A n \in QuestionsOf(d) :
           /\ PersonRow(d, o, "askedBy", n, n, d.attr[n].by) \in BodyRows(d, o)
           /\ Deferred("directedTo", n, n, d.attr[n].to) \in BodyRows(d, o)
      /\ \A n \in SectionsOf(d) : Deferred("event", n, n, d.attr[n].refersTo) \in BodyRows(d, o)
  BY Zenon DEF BodyRows, SpeechesOf, QuestionsOf, SectionsOf
<1>2. \A v \in d.votings : VotingRows(d, v) \subseteq Report(d, o)
  BY DEF Report
<1>3. \A v \in d.votings :
        /\ {Joined(d, v, "result", v.id, v.href, {v.href}),
            Joined(d, v, "outcome", v.id, v.outcome, Outcomes),
            Joined(d, v, "proposal", v.id, v.refersTo, {})} \subseteq VotingRows(d, v)
        /\ \A c \in v.counts : CountRow(d, v, c) \in VotingRows(d, v)
  BY DEF VotingRows, CountRow
<1>4. BodyRows(d, o) \subseteq Report(d, o)
  BY DEF Report
<1>5. /\ \A b \in Ballots(d) : BallotRow(d, o, b) \in Report(d, o)
      /\ \A a \in DOMAIN d.authors : {TermRow(d, o, a), BodyRow(d, o, a)} \subseteq Report(d, o)
  BY DEF Report
<1> QED BY <1>1, <1>2, <1>3, <1>4, <1>5

----------------------------------------------------------------------------
\* The items of the inventory, slot by slot

BallotItem(d, b) == VoteItem(d, b[2], b[3])

TermStatuses(d, a) ==
  LET shape == d.authors[a].shape
      alone == Cardinality(DOMAIN d.authors) <= 1
  IN CASE shape = "absent" -> {"absent"}
       [] shape = "malformed" /\ alone -> {"malformed"}
       [] shape = "term" /\ alone -> {"resolved", "unresolved"}
       [] OTHER -> {"unresolved"}

BodyStatuses(d, a) ==
  IF d.authors[a].shape = "absent" THEN {"absent"} ELSE {"resolved", "unresolved"}

LEMMA ItemFields ==
  ASSUME NEW slot, NEW node, NEW raw, NEW statuses
  PROVE  LET i == Item(slot, node, raw, statuses)
         IN /\ i.key = <<slot, node, raw>> /\ i.key[1] = slot
            /\ i.within = node /\ i.statuses = statuses
BY DEF Item

LEMMA BallotItemFields ==
  ASSUME NEW d, NEW b
  PROVE  LET i == BallotItem(d, b)
             raw == d.attr[b[3]].refersTo
         IN /\ i.key = <<d.kind[b[2]], b[3], raw>> /\ i.key[1] = d.kind[b[2]]
            /\ i.within = b[2] /\ i.statuses = PersonStatuses(d, raw)
BY DEF BallotItem, VoteItem, Item

\* The slots of an inventory and what an item in each of them is of.
LEMMA SlotsOfInventory ==
  ASSUME NEW d, NEW i \in Inventory(d)
  PROVE  \/ /\ i.key[1] = "speaker"
            /\ \E n \in SpeechesOf(d) :
                 i = Item("speaker", n, d.attr[n].by, PersonStatuses(d, d.attr[n].by))
         \/ /\ i.key[1] = "role"
            /\ \E n \in SpeechesOf(d) :
                 i = Item("role", n, d.attr[n].as, SourceStatuses(d.attr[n].as, {"unresolved"}))
         \/ /\ i.key[1] = "askedBy"
            /\ \E n \in QuestionsOf(d) :
                 i = Item("askedBy", n, d.attr[n].by, PersonStatuses(d, d.attr[n].by))
         \/ /\ i.key[1] = "directedTo"
            /\ \E n \in QuestionsOf(d) :
                 i = Item("directedTo", n, d.attr[n].to, SourceStatuses(d.attr[n].to, {"unresolved"}))
         \/ /\ i.key[1] = "event"
            /\ \E n \in SectionsOf(d) :
                 i = Item("event", n, d.attr[n].refersTo,
                          SourceStatuses(d.attr[n].refersTo, {"unresolved"}))
         \/ /\ i.key[1] \in Groups
            /\ \E b \in Ballots(d) : i = BallotItem(d, b)
         \/ /\ i.key[1] = "result"
            /\ \E v \in d.votings :
                 i = Item("result", v.id, v.href, JoinStatuses(d, v, v.href, {v.href}))
         \/ /\ i.key[1] = "outcome"
            /\ \E v \in d.votings :
                 i = Item("outcome", v.id, v.outcome, JoinStatuses(d, v, v.outcome, Outcomes))
         \/ /\ i.key[1] = "proposal"
            /\ \E v \in d.votings :
                 i = Item("proposal", v.id, v.refersTo, SourceStatuses(v.refersTo, {"unresolved"}))
         \/ /\ i.key[1] = "count"
            /\ \E v \in d.votings : \E c \in v.counts :
                 i = Item("count", c.id, c.kind, JoinStatuses(d, v, c.kind, CountKinds))
         \/ /\ i.key[1] = "term"
            /\ \E a \in DOMAIN d.authors : i = Item("term", a, d.authors[a].shape, TermStatuses(d, a))
         \/ /\ i.key[1] = "body"
            /\ \E a \in DOMAIN d.authors : i = Item("body", a, d.authors[a].shape, BodyStatuses(d, a))
<1>1. CASE i \in UNION {BodyItems(d, n) : n \in Mapped(d)}
  <2>1. PICK n \in Mapped(d) : i \in BodyItems(d, n)
    BY <1>1
  <2>2. n \in d.nodes
    BY DEF Mapped, OfKind
  <2>3. CASE d.kind[n] = "speech"
    <3>1. n \in SpeechesOf(d)
      BY <2>2, <2>3 DEF SpeechesOf, OfKind
    <3>2. \/ i = Item("speaker", n, d.attr[n].by, PersonStatuses(d, d.attr[n].by))
          \/ i = Item("role", n, d.attr[n].as, SourceStatuses(d.attr[n].as, {"unresolved"}))
      BY <2>1, <2>3 DEF BodyItems, Sections
    <3>3. \/ /\ i.key[1] = "speaker"
             /\ i = Item("speaker", n, d.attr[n].by, PersonStatuses(d, d.attr[n].by))
          \/ /\ i.key[1] = "role"
             /\ i = Item("role", n, d.attr[n].as, SourceStatuses(d.attr[n].as, {"unresolved"}))
      BY <3>2, ItemFields
    <3> QED BY <3>1, <3>3, Zenon
  <2>4. CASE d.kind[n] = "question"
    <3>1. n \in QuestionsOf(d)
      BY <2>2, <2>4 DEF QuestionsOf, OfKind
    <3>2. \/ i = Item("askedBy", n, d.attr[n].by, PersonStatuses(d, d.attr[n].by))
          \/ i = Item("directedTo", n, d.attr[n].to, SourceStatuses(d.attr[n].to, {"unresolved"}))
      BY <2>1, <2>4 DEF BodyItems, Sections
    <3>3. \/ /\ i.key[1] = "askedBy"
             /\ i = Item("askedBy", n, d.attr[n].by, PersonStatuses(d, d.attr[n].by))
          \/ /\ i.key[1] = "directedTo"
             /\ i = Item("directedTo", n, d.attr[n].to, SourceStatuses(d.attr[n].to, {"unresolved"}))
      BY <3>2, ItemFields
    <3> QED BY <3>1, <3>3, Zenon
  <2>5. CASE d.kind[n] \in Sections
    <3>1. n \in SectionsOf(d)
      BY <2>2, <2>5 DEF SectionsOf, OfKind
    <3>2. i = Item("event", n, d.attr[n].refersTo, SourceStatuses(d.attr[n].refersTo, {"unresolved"}))
      BY <2>1, <2>5 DEF BodyItems, Sections
    <3>3. i.key[1] = "event"
      BY <3>2, ItemFields
    <3> QED BY <3>1, <3>2, <3>3, Zenon
  <2>6. d.kind[n] = "speech" \/ d.kind[n] = "question" \/ d.kind[n] \in Sections
    BY <2>1 DEF BodyItems
  <2> QED BY <2>3, <2>4, <2>5, <2>6
<1>2. CASE i \in VoteItems(d)
  <2>1. PICK x \in OfKind(d, Groups) \X OfKind(d, {"person"}) :
          /\ x[1] \in Above(d)[x[2]]
          /\ d.parent[x[1]] \in Mapped(d) \cap OfKind(d, {"division"})
          /\ i = VoteItem(d, x[1], x[2])
    BY <1>2 DEF VoteItems
  <2> DEFINE b == <<d.parent[x[1]], x[1], x[2]>>
  <2>2. b \in Ballots(d)
    BY <2>1 DEF Ballots
  <2>3. i = BallotItem(d, b)
    BY <2>1 DEF BallotItem
  <2>4. d.kind[b[2]] \in Groups
    BY <2>1 DEF OfKind
  <2>5. i.key[1] \in Groups
    BY <2>3, <2>4, BallotItemFields
  <2> HIDE DEF b
  <2> QED BY <2>2, <2>3, <2>5, Zenon
<1>3. CASE i \in UNION {AuthorItems(d, a) : a \in DOMAIN d.authors}
  <2>1. PICK a \in DOMAIN d.authors : i \in AuthorItems(d, a)
    BY <1>3
  <2>2. \/ i = Item("term", a, d.authors[a].shape, TermStatuses(d, a))
        \/ i = Item("body", a, d.authors[a].shape, BodyStatuses(d, a))
    BY <2>1 DEF AuthorItems, TermStatuses, BodyStatuses
  <2>3. \/ /\ i.key[1] = "term"
           /\ i = Item("term", a, d.authors[a].shape, TermStatuses(d, a))
        \/ /\ i.key[1] = "body"
           /\ i = Item("body", a, d.authors[a].shape, BodyStatuses(d, a))
    BY <2>2, ItemFields
  <2> QED BY <2>3, Zenon
<1>4. CASE i \in UNION {VotingItems(d, v) : v \in d.votings}
  <2>1. PICK v \in d.votings : i \in VotingItems(d, v)
    BY <1>4
  <2>2. \/ i = Item("result", v.id, v.href, JoinStatuses(d, v, v.href, {v.href}))
        \/ i = Item("outcome", v.id, v.outcome, JoinStatuses(d, v, v.outcome, Outcomes))
        \/ i = Item("proposal", v.id, v.refersTo, SourceStatuses(v.refersTo, {"unresolved"}))
        \/ \E c \in v.counts : i = Item("count", c.id, c.kind, JoinStatuses(d, v, c.kind, CountKinds))
    BY <2>1, Zenon DEF VotingItems
  <2>3. \/ /\ i.key[1] = "result"
           /\ i = Item("result", v.id, v.href, JoinStatuses(d, v, v.href, {v.href}))
        \/ /\ i.key[1] = "outcome"
           /\ i = Item("outcome", v.id, v.outcome, JoinStatuses(d, v, v.outcome, Outcomes))
        \/ /\ i.key[1] = "proposal"
           /\ i = Item("proposal", v.id, v.refersTo, SourceStatuses(v.refersTo, {"unresolved"}))
        \/ /\ i.key[1] = "count"
           /\ \E c \in v.counts : i = Item("count", c.id, c.kind, JoinStatuses(d, v, c.kind, CountKinds))
    BY <2>2, ItemFields
  <2> QED BY <2>3, Zenon
<1> QED BY <1>1, <1>2, <1>3, <1>4 DEF Inventory

\* Every item of every kind is in the inventory.
LEMMA ItemsOfInventory ==
  ASSUME NEW d
  PROVE  /\ \A n \in SpeechesOf(d) :
              /\ Item("speaker", n, d.attr[n].by, PersonStatuses(d, d.attr[n].by)) \in Inventory(d)
              /\ Item("role", n, d.attr[n].as, SourceStatuses(d.attr[n].as, {"unresolved"}))
                   \in Inventory(d)
         /\ \A n \in QuestionsOf(d) :
              /\ Item("askedBy", n, d.attr[n].by, PersonStatuses(d, d.attr[n].by)) \in Inventory(d)
              /\ Item("directedTo", n, d.attr[n].to, SourceStatuses(d.attr[n].to, {"unresolved"}))
                   \in Inventory(d)
         /\ \A n \in SectionsOf(d) :
              Item("event", n, d.attr[n].refersTo, SourceStatuses(d.attr[n].refersTo, {"unresolved"}))
                \in Inventory(d)
         /\ \A b \in Ballots(d) : BallotItem(d, b) \in Inventory(d)
         /\ \A v \in d.votings :
              /\ Item("result", v.id, v.href, JoinStatuses(d, v, v.href, {v.href})) \in Inventory(d)
              /\ Item("outcome", v.id, v.outcome, JoinStatuses(d, v, v.outcome, Outcomes))
                   \in Inventory(d)
              /\ Item("proposal", v.id, v.refersTo, SourceStatuses(v.refersTo, {"unresolved"}))
                   \in Inventory(d)
              /\ \A c \in v.counts :
                   Item("count", c.id, c.kind, JoinStatuses(d, v, c.kind, CountKinds)) \in Inventory(d)
         /\ \A a \in DOMAIN d.authors :
              /\ Item("term", a, d.authors[a].shape, TermStatuses(d, a)) \in Inventory(d)
              /\ Item("body", a, d.authors[a].shape, BodyStatuses(d, a)) \in Inventory(d)
<1>1. /\ \A n \in Mapped(d) : BodyItems(d, n) \subseteq Inventory(d)
      /\ VoteItems(d) \subseteq Inventory(d)
      /\ \A v \in d.votings : VotingItems(d, v) \subseteq Inventory(d)
      /\ \A a \in DOMAIN d.authors : AuthorItems(d, a) \subseteq Inventory(d)
  BY DEF Inventory
<1>2. ASSUME NEW n \in SpeechesOf(d)
      PROVE  /\ n \in Mapped(d)
             /\ Item("speaker", n, d.attr[n].by, PersonStatuses(d, d.attr[n].by)) \in BodyItems(d, n)
             /\ Item("role", n, d.attr[n].as, SourceStatuses(d.attr[n].as, {"unresolved"}))
                  \in BodyItems(d, n)
  <2>1. n \in Mapped(d) /\ d.kind[n] = "speech"
    BY DEF SpeechesOf, OfKind
  <2> QED BY <2>1 DEF BodyItems, Sections
<1>3. ASSUME NEW n \in QuestionsOf(d)
      PROVE  /\ n \in Mapped(d)
             /\ Item("askedBy", n, d.attr[n].by, PersonStatuses(d, d.attr[n].by)) \in BodyItems(d, n)
             /\ Item("directedTo", n, d.attr[n].to, SourceStatuses(d.attr[n].to, {"unresolved"}))
                  \in BodyItems(d, n)
  <2>1. n \in Mapped(d) /\ d.kind[n] = "question"
    BY DEF QuestionsOf, OfKind
  <2> QED BY <2>1 DEF BodyItems, Sections
<1>4. ASSUME NEW n \in SectionsOf(d)
      PROVE  /\ n \in Mapped(d)
             /\ Item("event", n, d.attr[n].refersTo, SourceStatuses(d.attr[n].refersTo, {"unresolved"}))
                  \in BodyItems(d, n)
  <2>1. n \in Mapped(d) /\ d.kind[n] \in Sections
    BY DEF SectionsOf, OfKind
  <2> QED BY <2>1 DEF BodyItems, Sections
<1>5. ASSUME NEW b \in Ballots(d)
      PROVE  BallotItem(d, b) \in VoteItems(d)
  <2> DEFINE x == <<b[2], b[3]>>
  <2>1. /\ x \in OfKind(d, Groups) \X OfKind(d, {"person"})
        /\ x[1] \in Above(d)[x[2]]
        /\ d.parent[x[1]] \in Mapped(d) \cap OfKind(d, {"division"})
    BY DEF Ballots
  <2>2. BallotItem(d, b) = VoteItem(d, x[1], x[2])
    BY DEF BallotItem
  <2> HIDE DEF x
  <2> QED BY <2>1, <2>2, Zenon DEF VoteItems
<1>6. \A v \in d.votings :
        /\ Item("result", v.id, v.href, JoinStatuses(d, v, v.href, {v.href})) \in VotingItems(d, v)
        /\ Item("outcome", v.id, v.outcome, JoinStatuses(d, v, v.outcome, Outcomes))
             \in VotingItems(d, v)
        /\ Item("proposal", v.id, v.refersTo, SourceStatuses(v.refersTo, {"unresolved"}))
             \in VotingItems(d, v)
        /\ \A c \in v.counts :
             Item("count", c.id, c.kind, JoinStatuses(d, v, c.kind, CountKinds)) \in VotingItems(d, v)
  BY Zenon DEF VotingItems
<1>7. \A a \in DOMAIN d.authors :
        /\ Item("term", a, d.authors[a].shape, TermStatuses(d, a)) \in AuthorItems(d, a)
        /\ Item("body", a, d.authors[a].shape, BodyStatuses(d, a)) \in AuthorItems(d, a)
  BY DEF AuthorItems, TermStatuses, BodyStatuses
<1> QED BY <1>1, <1>2, <1>3, <1>4, <1>5, <1>6, <1>7

----------------------------------------------------------------------------
\* Rows and items of one key

LEMMA CountRowShape ==
  ASSUME NEW d, NEW v, NEW c
  PROVE  LET r == CountRow(d, v, c)
         IN /\ r.slot = "count" /\ r.node = c.id /\ r.raw = c.kind /\ r.value = c.value
            /\ \/ /\ c.kind \in CountKinds /\ JoinOf(d, v) # None /\ r.about = JoinOf(d, v)
                  /\ r.status = "resolved" /\ r.target = JoinOf(d, v)
               \/ /\ ~(c.kind \in CountKinds /\ JoinOf(d, v) # None)
                  /\ r.status # "resolved" /\ r.target = None
                  /\ r.status = IF Shape(c.kind) \in {"absent", "malformed"} THEN Shape(c.kind)
                                ELSE "unresolved"
<1> DEFINE r == CountRow(d, v, c)
           joined == Joined(d, v, "count", c.id, c.kind, CountKinds)
<1>1. /\ r.slot = joined.slot /\ r.node = joined.node /\ r.raw = joined.raw
      /\ r.about = joined.about /\ r.status = joined.status /\ r.target = joined.target
      /\ r.value = c.value
  BY DEF CountRow, Joined, Deferred, ReferenceRow
<1> HIDE DEF r
<1> QED BY <1>1, JoinedShape DEF r

\* Outside the lobbies, where one person may be read in several divisions, no
\* two rows have one place,
LEMMA RowIsUnique ==
  ASSUME NEW d \in Documents, NEW o, NEW r \in Report(d, o), NEW q \in Report(d, o),
         r.slot \notin Groups, r.slot = q.slot, r.node = q.node
  PROVE  r = q
<1>0. r.slot = q.slot /\ r.node = q.node
  OBVIOUS
<1>1. CASE r.slot = "speaker"
  <2>1. PICK n \in SpeechesOf(d) : r = PersonRow(d, o, "speaker", n, n, d.attr[n].by)
    BY <1>1, SlotsOfReport DEF Groups
  <2>2. PICK m \in SpeechesOf(d) : q = PersonRow(d, o, "speaker", m, m, d.attr[m].by)
    BY <1>0, <1>1, SlotsOfReport DEF Groups
  <2>3. r.node = n /\ q.node = m
    BY <2>1, <2>2, PersonRowShape
  <2> QED BY <1>0, <2>1, <2>2, <2>3
<1>2. CASE r.slot = "role"
  <2>1. PICK n \in SpeechesOf(d) : r = Deferred("role", n, n, d.attr[n].as)
    BY <1>2, SlotsOfReport DEF Groups
  <2>2. PICK m \in SpeechesOf(d) : q = Deferred("role", m, m, d.attr[m].as)
    BY <1>0, <1>2, SlotsOfReport DEF Groups
  <2>3. r.node = n /\ q.node = m
    BY <2>1, <2>2, DeferredRow
  <2> QED BY <1>0, <2>1, <2>2, <2>3
<1>3. CASE r.slot = "askedBy"
  <2>1. PICK n \in QuestionsOf(d) : r = PersonRow(d, o, "askedBy", n, n, d.attr[n].by)
    BY <1>3, SlotsOfReport DEF Groups
  <2>2. PICK m \in QuestionsOf(d) : q = PersonRow(d, o, "askedBy", m, m, d.attr[m].by)
    BY <1>0, <1>3, SlotsOfReport DEF Groups
  <2>3. r.node = n /\ q.node = m
    BY <2>1, <2>2, PersonRowShape
  <2> QED BY <1>0, <2>1, <2>2, <2>3
<1>4. CASE r.slot = "directedTo"
  <2>1. PICK n \in QuestionsOf(d) : r = Deferred("directedTo", n, n, d.attr[n].to)
    BY <1>4, SlotsOfReport DEF Groups
  <2>2. PICK m \in QuestionsOf(d) : q = Deferred("directedTo", m, m, d.attr[m].to)
    BY <1>0, <1>4, SlotsOfReport DEF Groups
  <2>3. r.node = n /\ q.node = m
    BY <2>1, <2>2, DeferredRow
  <2> QED BY <1>0, <2>1, <2>2, <2>3
<1>5. CASE r.slot = "event"
  <2>1. PICK n \in SectionsOf(d) : r = Deferred("event", n, n, d.attr[n].refersTo)
    BY <1>5, SlotsOfReport DEF Groups
  <2>2. PICK m \in SectionsOf(d) : q = Deferred("event", m, m, d.attr[m].refersTo)
    BY <1>0, <1>5, SlotsOfReport DEF Groups
  <2>3. r.node = n /\ q.node = m
    BY <2>1, <2>2, DeferredRow
  <2> QED BY <1>0, <2>1, <2>2, <2>3
<1>6. CASE r.slot = "result"
  <2>1. PICK v \in d.votings : r = Joined(d, v, "result", v.id, v.href, {v.href})
    BY <1>6, SlotsOfReport DEF Groups
  <2>2. PICK w \in d.votings : q = Joined(d, w, "result", w.id, w.href, {w.href})
    BY <1>0, <1>6, SlotsOfReport DEF Groups
  <2>3. r.node = v.id /\ q.node = w.id
    BY <2>1, <2>2, JoinedShape
  <2> QED BY <1>0, <2>1, <2>2, <2>3, PlacesAreApart
<1>7. CASE r.slot = "outcome"
  <2>1. PICK v \in d.votings : r = Joined(d, v, "outcome", v.id, v.outcome, Outcomes)
    BY <1>7, SlotsOfReport DEF Groups
  <2>2. PICK w \in d.votings : q = Joined(d, w, "outcome", w.id, w.outcome, Outcomes)
    BY <1>0, <1>7, SlotsOfReport DEF Groups
  <2>3. r.node = v.id /\ q.node = w.id
    BY <2>1, <2>2, JoinedShape
  <2> QED BY <1>0, <2>1, <2>2, <2>3, PlacesAreApart
<1>8. CASE r.slot = "proposal"
  <2>1. PICK v \in d.votings : r = Joined(d, v, "proposal", v.id, v.refersTo, {})
    BY <1>8, SlotsOfReport DEF Groups
  <2>2. PICK w \in d.votings : q = Joined(d, w, "proposal", w.id, w.refersTo, {})
    BY <1>0, <1>8, SlotsOfReport DEF Groups
  <2>3. r.node = v.id /\ q.node = w.id
    BY <2>1, <2>2, JoinedShape
  <2> QED BY <1>0, <2>1, <2>2, <2>3, PlacesAreApart
<1>9. CASE r.slot = "count"
  <2>1a. PICK v \in d.votings : \E c \in v.counts :
          r = CountRow(d, v, c)
    BY <1>9, SlotsOfReport DEF Groups
  <2>1. PICK c \in v.counts :
          r = CountRow(d, v, c)
    BY <2>1a
  <2>2a. PICK w \in d.votings : \E e \in w.counts :
          q = CountRow(d, w, e)
    BY <1>0, <1>9, SlotsOfReport DEF Groups
  <2>2. PICK e \in w.counts :
          q = CountRow(d, w, e)
    BY <2>2a
  <2>3. r.node = c.id /\ q.node = e.id
    BY <2>1, <2>2, CountRowShape
  <2>4. c.id = e.id
    BY <1>0, <2>3
  <2>5. v = w /\ c = e
    BY <2>4, PlacesAreApart
  <2> QED BY <2>1, <2>2, <2>5
<1>10. CASE r.slot = "term"
  <2>1. PICK a \in DOMAIN d.authors : r = TermRow(d, o, a)
    BY <1>10, SlotsOfReport DEF Groups
  <2>2. PICK e \in DOMAIN d.authors : q = TermRow(d, o, e)
    BY <1>0, <1>10, SlotsOfReport DEF Groups
  <2>3. r.node = a /\ q.node = e
    BY <2>1, <2>2 DEF TermRow, ReferenceRow
  <2> QED BY <1>0, <2>1, <2>2, <2>3
<1>11. CASE r.slot = "body"
  <2>1. PICK a \in DOMAIN d.authors : r = BodyRow(d, o, a)
    BY <1>11, SlotsOfReport DEF Groups
  <2>2. PICK e \in DOMAIN d.authors : q = BodyRow(d, o, e)
    BY <1>0, <1>11, SlotsOfReport DEF Groups
  <2>3. r.node = a /\ q.node = e
    BY <2>1, <2>2 DEF BodyRow, ReferenceRow
  <2> QED BY <1>0, <2>1, <2>2, <2>3
<1>12. r.slot \in {"speaker", "role", "askedBy", "directedTo", "event", "result", "outcome",
                   "proposal", "count", "term", "body"}
  BY SlotsOfReport, Zenon
<1> QED BY <1>1, <1>2, <1>3, <1>4, <1>5, <1>6, <1>7, <1>8, <1>9, <1>10, <1>11, <1>12

\* and no two items have one key.
LEMMA ItemIsUnique ==
  ASSUME NEW d \in Documents, NEW i \in Inventory(d), NEW j \in Inventory(d),
         i.key[1] \notin Groups, i.key = j.key
  PROVE  i = j
<1>0. i.key[1] = j.key[1] /\ i.key[2] = j.key[2]
  OBVIOUS
<1>1. CASE i.key[1] = "speaker"
  <2>1. PICK n \in SpeechesOf(d) :
          i = Item("speaker", n, d.attr[n].by, PersonStatuses(d, d.attr[n].by))
    BY <1>1, SlotsOfInventory DEF Groups
  <2>2. PICK m \in SpeechesOf(d) :
          j = Item("speaker", m, d.attr[m].by, PersonStatuses(d, d.attr[m].by))
    BY <1>0, <1>1, SlotsOfInventory DEF Groups
  <2>3. i.key[2] = n /\ j.key[2] = m
    BY <2>1, <2>2, ItemFields
  <2> QED BY <1>0, <2>1, <2>2, <2>3
<1>2. CASE i.key[1] = "role"
  <2>1. PICK n \in SpeechesOf(d) :
          i = Item("role", n, d.attr[n].as, SourceStatuses(d.attr[n].as, {"unresolved"}))
    BY <1>2, SlotsOfInventory DEF Groups
  <2>2. PICK m \in SpeechesOf(d) :
          j = Item("role", m, d.attr[m].as, SourceStatuses(d.attr[m].as, {"unresolved"}))
    BY <1>0, <1>2, SlotsOfInventory DEF Groups
  <2>3. i.key[2] = n /\ j.key[2] = m
    BY <2>1, <2>2, ItemFields
  <2> QED BY <1>0, <2>1, <2>2, <2>3
<1>3. CASE i.key[1] = "askedBy"
  <2>1. PICK n \in QuestionsOf(d) :
          i = Item("askedBy", n, d.attr[n].by, PersonStatuses(d, d.attr[n].by))
    BY <1>3, SlotsOfInventory DEF Groups
  <2>2. PICK m \in QuestionsOf(d) :
          j = Item("askedBy", m, d.attr[m].by, PersonStatuses(d, d.attr[m].by))
    BY <1>0, <1>3, SlotsOfInventory DEF Groups
  <2>3. i.key[2] = n /\ j.key[2] = m
    BY <2>1, <2>2, ItemFields
  <2> QED BY <1>0, <2>1, <2>2, <2>3
<1>4. CASE i.key[1] = "directedTo"
  <2>1. PICK n \in QuestionsOf(d) :
          i = Item("directedTo", n, d.attr[n].to, SourceStatuses(d.attr[n].to, {"unresolved"}))
    BY <1>4, SlotsOfInventory DEF Groups
  <2>2. PICK m \in QuestionsOf(d) :
          j = Item("directedTo", m, d.attr[m].to, SourceStatuses(d.attr[m].to, {"unresolved"}))
    BY <1>0, <1>4, SlotsOfInventory DEF Groups
  <2>3. i.key[2] = n /\ j.key[2] = m
    BY <2>1, <2>2, ItemFields
  <2> QED BY <1>0, <2>1, <2>2, <2>3
<1>5. CASE i.key[1] = "event"
  <2>1. PICK n \in SectionsOf(d) :
          i = Item("event", n, d.attr[n].refersTo, SourceStatuses(d.attr[n].refersTo, {"unresolved"}))
    BY <1>5, SlotsOfInventory DEF Groups
  <2>2. PICK m \in SectionsOf(d) :
          j = Item("event", m, d.attr[m].refersTo, SourceStatuses(d.attr[m].refersTo, {"unresolved"}))
    BY <1>0, <1>5, SlotsOfInventory DEF Groups
  <2>3. i.key[2] = n /\ j.key[2] = m
    BY <2>1, <2>2, ItemFields
  <2> QED BY <1>0, <2>1, <2>2, <2>3
<1>6. CASE i.key[1] = "result"
  <2>1. PICK n \in d.votings :
          i = Item("result", n.id, n.href, JoinStatuses(d, n, n.href, {n.href}))
    BY <1>6, SlotsOfInventory DEF Groups
  <2>2. PICK m \in d.votings :
          j = Item("result", m.id, m.href, JoinStatuses(d, m, m.href, {m.href}))
    BY <1>0, <1>6, SlotsOfInventory DEF Groups
  <2>3. i.key[2] = n.id /\ j.key[2] = m.id
    BY <2>1, <2>2, ItemFields
  <2> QED BY <1>0, <2>1, <2>2, <2>3, PlacesAreApart
<1>7. CASE i.key[1] = "outcome"
  <2>1. PICK n \in d.votings :
          i = Item("outcome", n.id, n.outcome, JoinStatuses(d, n, n.outcome, Outcomes))
    BY <1>7, SlotsOfInventory DEF Groups
  <2>2. PICK m \in d.votings :
          j = Item("outcome", m.id, m.outcome, JoinStatuses(d, m, m.outcome, Outcomes))
    BY <1>0, <1>7, SlotsOfInventory DEF Groups
  <2>3. i.key[2] = n.id /\ j.key[2] = m.id
    BY <2>1, <2>2, ItemFields
  <2> QED BY <1>0, <2>1, <2>2, <2>3, PlacesAreApart
<1>8. CASE i.key[1] = "proposal"
  <2>1. PICK n \in d.votings :
          i = Item("proposal", n.id, n.refersTo, SourceStatuses(n.refersTo, {"unresolved"}))
    BY <1>8, SlotsOfInventory DEF Groups
  <2>2. PICK m \in d.votings :
          j = Item("proposal", m.id, m.refersTo, SourceStatuses(m.refersTo, {"unresolved"}))
    BY <1>0, <1>8, SlotsOfInventory DEF Groups
  <2>3. i.key[2] = n.id /\ j.key[2] = m.id
    BY <2>1, <2>2, ItemFields
  <2> QED BY <1>0, <2>1, <2>2, <2>3, PlacesAreApart
<1>9. CASE i.key[1] = "term"
  <2>1. PICK n \in DOMAIN d.authors :
          i = Item("term", n, d.authors[n].shape, TermStatuses(d, n))
    BY <1>9, SlotsOfInventory DEF Groups
  <2>2. PICK m \in DOMAIN d.authors :
          j = Item("term", m, d.authors[m].shape, TermStatuses(d, m))
    BY <1>0, <1>9, SlotsOfInventory DEF Groups
  <2>3. i.key[2] = n /\ j.key[2] = m
    BY <2>1, <2>2, ItemFields
  <2> QED BY <1>0, <2>1, <2>2, <2>3
<1>10. CASE i.key[1] = "body"
  <2>1. PICK n \in DOMAIN d.authors :
          i = Item("body", n, d.authors[n].shape, BodyStatuses(d, n))
    BY <1>10, SlotsOfInventory DEF Groups
  <2>2. PICK m \in DOMAIN d.authors :
          j = Item("body", m, d.authors[m].shape, BodyStatuses(d, m))
    BY <1>0, <1>10, SlotsOfInventory DEF Groups
  <2>3. i.key[2] = n /\ j.key[2] = m
    BY <2>1, <2>2, ItemFields
  <2> QED BY <1>0, <2>1, <2>2, <2>3
<1>11. CASE i.key[1] = "count"
  <2>1a. PICK v \in d.votings : \E c \in v.counts :
          i = Item("count", c.id, c.kind, JoinStatuses(d, v, c.kind, CountKinds))
    BY <1>11, SlotsOfInventory DEF Groups
  <2>1. PICK c \in v.counts :
          i = Item("count", c.id, c.kind, JoinStatuses(d, v, c.kind, CountKinds))
    BY <2>1a
  <2>2a. PICK w \in d.votings : \E e \in w.counts :
          j = Item("count", e.id, e.kind, JoinStatuses(d, w, e.kind, CountKinds))
    BY <1>0, <1>11, SlotsOfInventory DEF Groups
  <2>2. PICK e \in w.counts :
          j = Item("count", e.id, e.kind, JoinStatuses(d, w, e.kind, CountKinds))
    BY <2>2a
  <2>3. i.key[2] = c.id /\ j.key[2] = e.id
    BY <2>1, <2>2, ItemFields
  <2>4. v = w /\ c = e
    BY <1>0, <2>3, PlacesAreApart
  <2> QED BY <2>1, <2>2, <2>4
<1>12. i.key[1] \in {"speaker", "role", "askedBy", "directedTo", "event", "result", "outcome",
                   "proposal", "count", "term", "body"}
  BY SlotsOfInventory
<1> QED BY <1>1, <1>2, <1>3, <1>4, <1>5, <1>6, <1>7, <1>8, <1>9, <1>10, <1>11, <1>12

----------------------------------------------------------------------------
\* The two readings give each row its item, with a status the item allows

\* Transform and validator find the same votings joined to a result.
LEMMA JoinAgrees ==
  ASSUME NEW d \in Documents, NEW v
  PROVE  /\ (JoinOf(d, v) # None) = ResultIsJoined(d, v)
         /\ JoinOf(d, v) # None => v.href \in DOMAIN d.ids /\ JoinOf(d, v) \in d.nodes
<1> DEFINE at == d.ids[v.href].at
           named == v.href \in DOMAIN d.ids /\ d.ids[v.href].kind = "summary" /\ at \in Mapped(d)
           D == Divisions(d, at)
<1>1. D \subseteq d.nodes /\ IsFiniteSet(D) /\ None \notin d.nodes
  <2>1. D \subseteq d.nodes
    BY DEF Divisions, OfKind
  <2>2. IsFiniteSet(d.nodes) /\ None \notin d.nodes
    BY DocumentsAreTrees
  <2> QED BY <2>1, <2>2, FS_Subset
<1>2. JoinOf(d, v) = IF named /\ Cardinality(D) = 1 THEN CHOOSE x \in D : TRUE ELSE None
  BY DEF JoinOf
<1>3. ResultIsJoined(d, v) = (named /\ \E x \in d.nodes : D = {x})
  BY DEF ResultIsJoined
<1>4. (Cardinality(D) = 1) = (\E x : D = {x})
  BY <1>1, FS_Singleton
<1> HIDE DEF D
<1>5. CASE named /\ Cardinality(D) = 1
  <2>1. PICK x : D = {x}
    BY <1>4, <1>5
  <2>2. JoinOf(d, v) = x /\ x \in d.nodes
    BY <1>1, <1>2, <1>5, <2>1
  <2> QED BY <1>1, <1>3, <1>5, <2>1, <2>2
<1>6. CASE ~(named /\ Cardinality(D) = 1)
  BY <1>2, <1>3, <1>4, <1>6
<1> QED BY <1>5, <1>6

LEMMA DeferredStatus ==
  ASSUME NEW raw, NEW found, "unresolved" \in found
  PROVE  (IF Shape(raw) \in {"absent", "malformed"} THEN Shape(raw) ELSE "unresolved")
           \in SourceStatuses(raw, found)
BY DEF SourceStatuses, Shape

LEMMA PersonStatus ==
  ASSUME NEW d \in Documents, NEW o \in OwnerSets, NEW slot, NEW node, NEW about, NEW raw
  PROVE  PersonRow(d, o, slot, node, about, raw).status \in PersonStatuses(d, raw)
<1> DEFINE r == PersonRow(d, o, slot, node, about, raw)
<1>1. CASE r = Deferred(slot, node, about, raw)
  <2>1. r.status = IF Shape(raw) \in {"absent", "malformed"} THEN Shape(raw) ELSE "unresolved"
    BY <1>1, DeferredRow
  <2> QED BY <2>1, DeferredStatus DEF PersonStatuses
<1>2. CASE /\ raw \in DOMAIN d.ids /\ d.ids[raw].kind = "TLCPerson"
           /\ d.ids[raw].href \in o.members /\ r.status = "resolved"
  <2>1. raw \notin {"absent", "malformed", "#"} /\ d.ids[raw].href # "absent"
    BY <1>2, PlacesAreApart, OwnersAreApart
  <2>2. PersonStatuses(d, raw) = {"resolved", "unresolved"}
    BY <1>2, <2>1 DEF PersonStatuses, SourceStatuses, Shape
  <2> QED BY <1>2, <2>2
<1> QED BY <1>1, <1>2, PersonRowShape

LEMMA JoinedStatus ==
  ASSUME NEW d \in Documents, NEW v, NEW slot, NEW node, NEW raw, NEW known,
         known \in {{v.href}, Outcomes, CountKinds, {}}
  PROVE  /\ Joined(d, v, slot, node, raw, known).status \in JoinStatuses(d, v, raw, known)
         /\ JoinStatuses(d, v, raw, known) = {Joined(d, v, slot, node, raw, known).status}
         /\ known = {} => JoinStatuses(d, v, raw, known) = SourceStatuses(raw, {"unresolved"})
<1> DEFINE r == Joined(d, v, slot, node, raw, known)
<1>1. CASE raw \in known /\ JoinOf(d, v) # None
  <2>1. r.status = "resolved" /\ ResultIsJoined(d, v) /\ v.href \in DOMAIN d.ids
    <3>1. r.status = "resolved"
      BY <1>1, JoinedShape
    <3>2. ResultIsJoined(d, v) /\ v.href \in DOMAIN d.ids
      BY <1>1, JoinAgrees
    <3> QED BY <3>1, <3>2
  <2>2. raw \notin {"absent", "malformed", "#"}
    <3>1. raw = v.href \/ raw \in Outcomes \/ raw \in CountKinds
      BY <1>1
    <3>2. CASE raw = v.href
      BY <2>1, <3>2, PlacesAreApart
    <3> QED BY <3>1, <3>2 DEF Outcomes, CountKinds
  <2>3. JoinStatuses(d, v, raw, known) = {"resolved"}
    BY <1>1, <2>1, <2>2 DEF JoinStatuses, SourceStatuses, Shape
  <2> QED BY <1>1, <2>1, <2>3
<1>2. CASE ~(raw \in known /\ JoinOf(d, v) # None)
  <2>1. r.status = IF Shape(raw) \in {"absent", "malformed"} THEN Shape(raw) ELSE "unresolved"
    BY <1>2, JoinedShape
  <2>2. JoinStatuses(d, v, raw, known) = SourceStatuses(raw, {"unresolved"})
    BY <1>2, JoinAgrees DEF JoinStatuses
  <2>3. SourceStatuses(raw, {"unresolved"}) =
          {IF Shape(raw) \in {"absent", "malformed"} THEN Shape(raw) ELSE "unresolved"}
    BY DEF SourceStatuses, Shape
  <2> QED BY <2>1, <2>2, <2>3
<1> QED BY <1>1, <1>2

\* An author alone, or one of several.
LEMMA AuthorsCount ==
  ASSUME NEW d \in Documents, NEW a \in DOMAIN d.authors
  PROVE  Cardinality(DOMAIN d.authors) = 1 <=> Cardinality(DOMAIN d.authors) <= 1
<1>1. IsFiniteSet(DOMAIN d.authors) /\ DOMAIN d.authors # {}
  BY DocumentsAreTrees
<1>2. Cardinality(DOMAIN d.authors) \in Nat /\ Cardinality(DOMAIN d.authors) # 0
  BY <1>1, FS_CardinalityType, FS_EmptySet
<1> QED BY <1>2

LEMMA TermRowShape ==
  ASSUME NEW d \in Documents, NEW o \in OwnerSets, NEW a \in DOMAIN d.authors
  PROVE  LET r == TermRow(d, o, a)
             by == d.authors[a]
         IN /\ r.slot = "term" /\ r.node = a /\ r.about = "work" /\ r.raw = by.shape
            /\ r.value = "absent" /\ r.status \in TermStatuses(d, a)
            /\ r.status = "absent" <=> by.shape = "absent"
            /\ r.status = "resolved" <=> /\ by.shape = "term" /\ Cardinality(DOMAIN d.authors) = 1
                                        /\ by.key \in DOMAIN o.terms
            /\ r.target = IF r.status = "resolved" THEN by.key ELSE None
            /\ r.status = "resolved" => r.target # None
<1> DEFINE by == d.authors[a]
           alone == Cardinality(DOMAIN d.authors) = 1
           status == CASE by.shape = "absent" -> "absent"
                       [] by.shape = "malformed" /\ alone -> "malformed"
                       [] by.shape = "term" /\ alone /\ by.key \in DOMAIN o.terms -> "resolved"
                       [] OTHER -> "unresolved"
<1>1. TermRow(d, o, a) =
        ReferenceRow("term", a, "work", by.shape, status, IF status = "resolved" THEN by.key ELSE None)
  BY DEF TermRow
<1>2. status \in TermStatuses(d, a)
  BY AuthorsCount DEF TermStatuses
<1>3. /\ status = "absent" <=> by.shape = "absent"
      /\ status = "resolved" <=> by.shape = "term" /\ alone /\ by.key \in DOMAIN o.terms
  OBVIOUS
<1>4. status = "resolved" => by.key # None
  BY <1>3, OwnersAreApart
<1> HIDE DEF status, by, alone
<1> QED BY <1>1, <1>2, <1>3, <1>4 DEF ReferenceRow, by, alone

LEMMA BodyRowShape ==
  ASSUME NEW d \in Documents, NEW o \in OwnerSets, NEW a \in DOMAIN d.authors
  PROVE  LET r == BodyRow(d, o, a)
             by == d.authors[a]
             body == IF Cardinality(DOMAIN d.authors) = 1 THEN BodyOf(d, o, by) ELSE None
         IN /\ r.slot = "body" /\ r.node = a /\ r.about = "work" /\ r.raw = by.shape
            /\ r.value = "absent" /\ r.status \in BodyStatuses(d, a)
            /\ r.status = "absent" <=> by.shape = "absent"
            /\ r.status = "resolved" <=> body # None
            /\ r.target = body
<1> DEFINE by == d.authors[a]
           body == IF Cardinality(DOMAIN d.authors) = 1 THEN BodyOf(d, o, by) ELSE None
           status == IF by.shape = "absent" THEN "absent"
                     ELSE IF body # None THEN "resolved" ELSE "unresolved"
<1>1. BodyRow(d, o, a) = ReferenceRow("body", a, "work", by.shape, status, body)
  BY DEF BodyRow
<1>2. by.shape = "absent" => body = None
  BY DEF BodyOf
<1>3. status \in BodyStatuses(d, a)
  BY DEF BodyStatuses
<1>4. status = "absent" <=> by.shape = "absent"
  OBVIOUS
<1>5. status = "resolved" <=> body # None
  BY <1>2
<1> HIDE DEF status, by, body
<1> QED BY <1>1, <1>3, <1>4, <1>5 DEF ReferenceRow, by, body

\* A ballot is read as one row and one item.
LEMMA BallotRowShape ==
  ASSUME NEW d, NEW o, NEW b
  PROVE  LET r == BallotRow(d, o, b)
         IN /\ Key(r) = BallotItem(d, b).key
            /\ r.slot = d.kind[b[2]] /\ r.node = b[3] /\ r.about = b[1] /\ r.value = "absent"
BY PersonRowShape, BallotItemFields DEF BallotRow, Key

LEMMA RowHasItem ==
  ASSUME NEW d \in Documents, NEW o \in OwnerSets, NEW r \in Report(d, o)
  PROVE  \E i \in Inventory(d) : i.key = Key(r) /\ r.status \in i.statuses
<1>1. CASE r.slot = "speaker"
  <2>1. PICK n \in SpeechesOf(d) : r = PersonRow(d, o, "speaker", n, n, d.attr[n].by)
    BY <1>1, SlotsOfReport DEF Groups
  <2> DEFINE i == Item("speaker", n, d.attr[n].by, PersonStatuses(d, d.attr[n].by))
  <2>2. i \in Inventory(d)
    BY ItemsOfInventory
  <2>3. i.key = Key(r)
    BY <2>1, PersonRowShape, ItemFields DEF Key
  <2>4. r.status \in i.statuses
    BY <2>1, PersonRowShape, PersonStatus, ItemFields
  <2> QED BY <2>2, <2>3, <2>4
<1>2. CASE r.slot = "role"
  <2>1. PICK n \in SpeechesOf(d) : r = Deferred("role", n, n, d.attr[n].as)
    BY <1>2, SlotsOfReport DEF Groups
  <2> DEFINE i == Item("role", n, d.attr[n].as, SourceStatuses(d.attr[n].as, {"unresolved"}))
  <2>2. i \in Inventory(d)
    BY ItemsOfInventory
  <2>3. i.key = Key(r)
    BY <2>1, DeferredRow, ItemFields DEF Key
  <2>4. r.status \in i.statuses
    BY <2>1, DeferredRow, DeferredStatus, ItemFields
  <2> QED BY <2>2, <2>3, <2>4
<1>3. CASE r.slot = "askedBy"
  <2>1. PICK n \in QuestionsOf(d) : r = PersonRow(d, o, "askedBy", n, n, d.attr[n].by)
    BY <1>3, SlotsOfReport DEF Groups
  <2> DEFINE i == Item("askedBy", n, d.attr[n].by, PersonStatuses(d, d.attr[n].by))
  <2>2. i \in Inventory(d)
    BY ItemsOfInventory
  <2>3. i.key = Key(r)
    BY <2>1, PersonRowShape, ItemFields DEF Key
  <2>4. r.status \in i.statuses
    BY <2>1, PersonRowShape, PersonStatus, ItemFields
  <2> QED BY <2>2, <2>3, <2>4
<1>4. CASE r.slot = "directedTo"
  <2>1. PICK n \in QuestionsOf(d) : r = Deferred("directedTo", n, n, d.attr[n].to)
    BY <1>4, SlotsOfReport DEF Groups
  <2> DEFINE i == Item("directedTo", n, d.attr[n].to, SourceStatuses(d.attr[n].to, {"unresolved"}))
  <2>2. i \in Inventory(d)
    BY ItemsOfInventory
  <2>3. i.key = Key(r)
    BY <2>1, DeferredRow, ItemFields DEF Key
  <2>4. r.status \in i.statuses
    BY <2>1, DeferredRow, DeferredStatus, ItemFields
  <2> QED BY <2>2, <2>3, <2>4
<1>5. CASE r.slot = "event"
  <2>1. PICK n \in SectionsOf(d) : r = Deferred("event", n, n, d.attr[n].refersTo)
    BY <1>5, SlotsOfReport DEF Groups
  <2> DEFINE i == Item("event", n, d.attr[n].refersTo, SourceStatuses(d.attr[n].refersTo, {"unresolved"}))
  <2>2. i \in Inventory(d)
    BY ItemsOfInventory
  <2>3. i.key = Key(r)
    BY <2>1, DeferredRow, ItemFields DEF Key
  <2>4. r.status \in i.statuses
    BY <2>1, DeferredRow, DeferredStatus, ItemFields
  <2> QED BY <2>2, <2>3, <2>4
<1>6. CASE r.slot = "result"
  <2>1. PICK n \in d.votings : r = Joined(d, n, "result", n.id, n.href, {n.href})
    BY <1>6, SlotsOfReport DEF Groups
  <2> DEFINE i == Item("result", n.id, n.href, JoinStatuses(d, n, n.href, {n.href}))
  <2>2. i \in Inventory(d)
    BY ItemsOfInventory
  <2>3. i.key = Key(r)
    BY <2>1, JoinedShape, ItemFields DEF Key
  <2>4. r.status \in i.statuses
    BY <2>1, JoinedShape, JoinedStatus, ItemFields
  <2> QED BY <2>2, <2>3, <2>4
<1>7. CASE r.slot = "outcome"
  <2>1. PICK n \in d.votings : r = Joined(d, n, "outcome", n.id, n.outcome, Outcomes)
    BY <1>7, SlotsOfReport DEF Groups
  <2> DEFINE i == Item("outcome", n.id, n.outcome, JoinStatuses(d, n, n.outcome, Outcomes))
  <2>2. i \in Inventory(d)
    BY ItemsOfInventory
  <2>3. i.key = Key(r)
    BY <2>1, JoinedShape, ItemFields DEF Key
  <2>4. r.status \in i.statuses
    BY <2>1, JoinedShape, JoinedStatus, ItemFields
  <2> QED BY <2>2, <2>3, <2>4
<1>8. CASE r.slot = "proposal"
  <2>1. PICK n \in d.votings : r = Joined(d, n, "proposal", n.id, n.refersTo, {})
    BY <1>8, SlotsOfReport DEF Groups
  <2> DEFINE i == Item("proposal", n.id, n.refersTo, SourceStatuses(n.refersTo, {"unresolved"}))
  <2>2. i \in Inventory(d)
    BY ItemsOfInventory
  <2>3. i.key = Key(r)
    BY <2>1, JoinedShape, ItemFields DEF Key
  <2>4. r.status \in i.statuses
    BY <2>1, JoinedShape, JoinedStatus, ItemFields
  <2> QED BY <2>2, <2>3, <2>4
<1>9. CASE r.slot = "term"
  <2>1. PICK n \in DOMAIN d.authors : r = TermRow(d, o, n)
    BY <1>9, SlotsOfReport DEF Groups
  <2> DEFINE i == Item("term", n, d.authors[n].shape, TermStatuses(d, n))
  <2>2. i \in Inventory(d)
    BY ItemsOfInventory
  <2>3. i.key = Key(r)
    BY <2>1, TermRowShape, ItemFields DEF Key
  <2>4. r.status \in i.statuses
    BY <2>1, TermRowShape, ItemFields
  <2> QED BY <2>2, <2>3, <2>4
<1>10. CASE r.slot = "body"
  <2>1. PICK n \in DOMAIN d.authors : r = BodyRow(d, o, n)
    BY <1>10, SlotsOfReport DEF Groups
  <2> DEFINE i == Item("body", n, d.authors[n].shape, BodyStatuses(d, n))
  <2>2. i \in Inventory(d)
    BY ItemsOfInventory
  <2>3. i.key = Key(r)
    BY <2>1, BodyRowShape, ItemFields DEF Key
  <2>4. r.status \in i.statuses
    BY <2>1, BodyRowShape, ItemFields
  <2> QED BY <2>2, <2>3, <2>4
<1>11. CASE r.slot = "count"
  <2>1. PICK v \in d.votings : \E c \in v.counts : r = CountRow(d, v, c)
    BY <1>11, SlotsOfReport DEF Groups
  <2>2. PICK c \in v.counts : r = CountRow(d, v, c)
    BY <2>1
  <2> DEFINE i == Item("count", c.id, c.kind, JoinStatuses(d, v, c.kind, CountKinds))
  <2>3. i \in Inventory(d)
    BY ItemsOfInventory
  <2>4. i.key = Key(r)
    BY <2>2, CountRowShape, ItemFields DEF Key
  <2>5. r.status = Joined(d, v, "count", c.id, c.kind, CountKinds).status
    BY <2>2, CountRowShape, JoinedShape
  <2>6. r.status \in i.statuses
    BY <2>5, JoinedStatus, ItemFields
  <2> QED BY <2>3, <2>4, <2>6
<1>12. CASE r.slot \in Groups
  <2>1. PICK b \in Ballots(d) : r = BallotRow(d, o, b)
    BY <1>12, SlotsOfReport DEF Groups
  <2>2. BallotItem(d, b) \in Inventory(d)
    BY ItemsOfInventory
  <2>3. BallotItem(d, b).key = Key(r)
    BY <2>1, BallotRowShape
  <2>4. r.status \in BallotItem(d, b).statuses
    BY <2>1, PersonStatus, BallotItemFields DEF BallotRow
  <2> QED BY <2>2, <2>3, <2>4
<1>13. r.slot \in {"speaker", "role", "askedBy", "directedTo", "event", "result", "outcome",
                  "proposal", "count", "term", "body"} \cup Groups
  BY SlotsOfReport
<1> QED BY <1>1, <1>2, <1>3, <1>4, <1>5, <1>6, <1>7, <1>8, <1>9, <1>10, <1>11, <1>12, <1>13

LEMMA ItemHasRow ==
  ASSUME NEW d \in Documents, NEW o \in OwnerSets, NEW i \in Inventory(d)
  PROVE  \E r \in Report(d, o) : i.key = Key(r)
<1>1. CASE i.key[1] = "speaker"
  <2>1. PICK n \in SpeechesOf(d) :
          i = Item("speaker", n, d.attr[n].by, PersonStatuses(d, d.attr[n].by))
    BY <1>1, SlotsOfInventory DEF Groups
  <2> DEFINE r == PersonRow(d, o, "speaker", n, n, d.attr[n].by)
  <2>2. r \in Report(d, o)
    BY RowsOfReport
  <2>3. i.key = Key(r)
    BY <2>1, PersonRowShape, ItemFields DEF Key
  <2> QED BY <2>2, <2>3
<1>2. CASE i.key[1] = "role"
  <2>1. PICK n \in SpeechesOf(d) :
          i = Item("role", n, d.attr[n].as, SourceStatuses(d.attr[n].as, {"unresolved"}))
    BY <1>2, SlotsOfInventory DEF Groups
  <2> DEFINE r == Deferred("role", n, n, d.attr[n].as)
  <2>2. r \in Report(d, o)
    BY RowsOfReport
  <2>3. i.key = Key(r)
    BY <2>1, DeferredRow, ItemFields DEF Key
  <2> QED BY <2>2, <2>3
<1>3. CASE i.key[1] = "askedBy"
  <2>1. PICK n \in QuestionsOf(d) :
          i = Item("askedBy", n, d.attr[n].by, PersonStatuses(d, d.attr[n].by))
    BY <1>3, SlotsOfInventory DEF Groups
  <2> DEFINE r == PersonRow(d, o, "askedBy", n, n, d.attr[n].by)
  <2>2. r \in Report(d, o)
    BY RowsOfReport
  <2>3. i.key = Key(r)
    BY <2>1, PersonRowShape, ItemFields DEF Key
  <2> QED BY <2>2, <2>3
<1>4. CASE i.key[1] = "directedTo"
  <2>1. PICK n \in QuestionsOf(d) :
          i = Item("directedTo", n, d.attr[n].to, SourceStatuses(d.attr[n].to, {"unresolved"}))
    BY <1>4, SlotsOfInventory DEF Groups
  <2> DEFINE r == Deferred("directedTo", n, n, d.attr[n].to)
  <2>2. r \in Report(d, o)
    BY RowsOfReport
  <2>3. i.key = Key(r)
    BY <2>1, DeferredRow, ItemFields DEF Key
  <2> QED BY <2>2, <2>3
<1>5. CASE i.key[1] = "event"
  <2>1. PICK n \in SectionsOf(d) :
          i = Item("event", n, d.attr[n].refersTo, SourceStatuses(d.attr[n].refersTo, {"unresolved"}))
    BY <1>5, SlotsOfInventory DEF Groups
  <2> DEFINE r == Deferred("event", n, n, d.attr[n].refersTo)
  <2>2. r \in Report(d, o)
    BY RowsOfReport
  <2>3. i.key = Key(r)
    BY <2>1, DeferredRow, ItemFields DEF Key
  <2> QED BY <2>2, <2>3
<1>6. CASE i.key[1] = "result"
  <2>1. PICK n \in d.votings :
          i = Item("result", n.id, n.href, JoinStatuses(d, n, n.href, {n.href}))
    BY <1>6, SlotsOfInventory DEF Groups
  <2> DEFINE r == Joined(d, n, "result", n.id, n.href, {n.href})
  <2>2. r \in Report(d, o)
    BY RowsOfReport
  <2>3. i.key = Key(r)
    BY <2>1, JoinedShape, ItemFields DEF Key
  <2> QED BY <2>2, <2>3
<1>7. CASE i.key[1] = "outcome"
  <2>1. PICK n \in d.votings :
          i = Item("outcome", n.id, n.outcome, JoinStatuses(d, n, n.outcome, Outcomes))
    BY <1>7, SlotsOfInventory DEF Groups
  <2> DEFINE r == Joined(d, n, "outcome", n.id, n.outcome, Outcomes)
  <2>2. r \in Report(d, o)
    BY RowsOfReport
  <2>3. i.key = Key(r)
    BY <2>1, JoinedShape, ItemFields DEF Key
  <2> QED BY <2>2, <2>3
<1>8. CASE i.key[1] = "proposal"
  <2>1. PICK n \in d.votings :
          i = Item("proposal", n.id, n.refersTo, SourceStatuses(n.refersTo, {"unresolved"}))
    BY <1>8, SlotsOfInventory DEF Groups
  <2> DEFINE r == Joined(d, n, "proposal", n.id, n.refersTo, {})
  <2>2. r \in Report(d, o)
    BY RowsOfReport
  <2>3. i.key = Key(r)
    BY <2>1, JoinedShape, ItemFields DEF Key
  <2> QED BY <2>2, <2>3
<1>9. CASE i.key[1] = "term"
  <2>1. PICK n \in DOMAIN d.authors :
          i = Item("term", n, d.authors[n].shape, TermStatuses(d, n))
    BY <1>9, SlotsOfInventory DEF Groups
  <2> DEFINE r == TermRow(d, o, n)
  <2>2. r \in Report(d, o)
    BY RowsOfReport
  <2>3. i.key = Key(r)
    BY <2>1, TermRowShape, ItemFields DEF Key
  <2> QED BY <2>2, <2>3
<1>10. CASE i.key[1] = "body"
  <2>1. PICK n \in DOMAIN d.authors :
          i = Item("body", n, d.authors[n].shape, BodyStatuses(d, n))
    BY <1>10, SlotsOfInventory DEF Groups
  <2> DEFINE r == BodyRow(d, o, n)
  <2>2. r \in Report(d, o)
    BY RowsOfReport
  <2>3. i.key = Key(r)
    BY <2>1, BodyRowShape, ItemFields DEF Key
  <2> QED BY <2>2, <2>3
<1>11. CASE i.key[1] = "count"
  <2>1. PICK v \in d.votings : \E c \in v.counts :
          i = Item("count", c.id, c.kind, JoinStatuses(d, v, c.kind, CountKinds))
    BY <1>11, SlotsOfInventory DEF Groups
  <2>2. PICK c \in v.counts : i = Item("count", c.id, c.kind, JoinStatuses(d, v, c.kind, CountKinds))
    BY <2>1
  <2>3. CountRow(d, v, c) \in Report(d, o)
    BY RowsOfReport
  <2>4. i.key = Key(CountRow(d, v, c))
    BY <2>2, CountRowShape, ItemFields DEF Key
  <2> QED BY <2>3, <2>4
<1>12. CASE i.key[1] \in Groups
  <2>1. PICK b \in Ballots(d) : i = BallotItem(d, b)
    BY <1>12, SlotsOfInventory DEF Groups
  <2>2. BallotRow(d, o, b) \in Report(d, o)
    BY RowsOfReport
  <2>3. i.key = Key(BallotRow(d, o, b))
    BY <2>1, BallotRowShape
  <2> QED BY <2>2, <2>3
<1>13. i.key[1] \in {"speaker", "role", "askedBy", "directedTo", "event", "result", "outcome",
                    "proposal", "count", "term", "body"} \cup Groups
  BY SlotsOfInventory
<1> QED BY <1>1, <1>2, <1>3, <1>4, <1>5, <1>6, <1>7, <1>8, <1>9, <1>10, <1>11, <1>12, <1>13

----------------------------------------------------------------------------
\* Each key as often in the report as in the inventory

RowsFor(rs, k) == {r \in rs : Key(r) = k}
ItemsFor(d, k) == {i \in Inventory(d) : i.key = k}

\* No two ballots are read as one row, or as one item of one key.
LEMMA BallotsAreApart ==
  ASSUME NEW d \in Documents, NEW o, NEW b \in Ballots(d), NEW c \in Ballots(d),
         \/ BallotRow(d, o, b) = BallotRow(d, o, c)
         \/ BallotItem(d, b) = BallotItem(d, c)
         \/ b[1] = c[1] /\ b[3] = c[3]
  PROVE  b = c
<1>1. /\ b = <<b[1], b[2], b[3]>> /\ c = <<c[1], c[2], c[3]>>
      /\ d.parent[b[2]] = b[1] /\ b[2] \in Above(d)[b[3]]
      /\ d.parent[c[2]] = c[1] /\ c[2] \in Above(d)[c[3]]
      /\ b[3] \in d.nodes
  BY DEF Ballots, OfKind
<1>2. b[1] = c[1] /\ b[3] = c[3]
  <2>1. CASE BallotRow(d, o, b) = BallotRow(d, o, c)
    BY <2>1, BallotRowShape
  <2>2. CASE BallotItem(d, b) = BallotItem(d, c)
    <3>1. b[2] = c[2]
      BY <2>2, BallotItemFields
    <3>2. BallotItem(d, b).key[2] = b[3] /\ BallotItem(d, c).key[2] = c[3]
      BY BallotItemFields
    <3> QED BY <1>1, <2>2, <3>1, <3>2
  <2> QED BY <2>1, <2>2
<1>3. b[2] = c[2]
  BY <1>1, <1>2, DocumentsAreTrees
<1> QED BY <1>1, <1>2, <1>3

LEMMA BallotsAreFinite ==
  ASSUME NEW d \in Documents
  PROVE  IsFiniteSet(Ballots(d))
<1>1. IsFiniteSet(d.nodes)
  BY DocumentsAreTrees
<1>2. IsFiniteSet((d.nodes \X d.nodes) \X d.nodes)
  BY <1>1, FS_Product
<1> DEFINE T == (d.nodes \X d.nodes) \X d.nodes
           f == [b \in Ballots(d) |-> <<<<b[1], b[2]>>, b[3]>>]
<1>3. f \in Injection(Ballots(d), T)
  <2>1. \A b \in Ballots(d) :
          b = <<b[1], b[2], b[3]>> /\ b[1] \in d.nodes /\ b[2] \in d.nodes /\ b[3] \in d.nodes
    BY DEF Ballots, OfKind
  <2>2. f \in [Ballots(d) -> T]
    BY <2>1
  <2>3. ASSUME NEW b \in Ballots(d), NEW c \in Ballots(d), f[b] = f[c]
        PROVE  b = c
    <3>1. <<<<b[1], b[2]>>, b[3]>> = <<<<c[1], c[2]>>, c[3]>>
      BY <2>3
    <3>2. b[1] = c[1] /\ b[2] = c[2] /\ b[3] = c[3]
      BY <3>1
    <3> QED BY <2>1, <3>2
  <2> HIDE DEF f
  <2> QED BY <2>2, <2>3 DEF Injection, IsInjective
<1> HIDE DEF f, T
<1>4. IsFiniteSet(T)
  BY <1>2 DEF T
<1> QED BY <1>3, <1>4, FS_Injection

\* A Counter of the report's keys is a Counter of the inventory's.
LEMMA KeysAsOften ==
  ASSUME NEW d \in Documents, NEW o \in OwnerSets, NEW k
  PROVE  /\ IsFiniteSet(RowsFor(Report(d, o), k)) /\ IsFiniteSet(ItemsFor(d, k))
         /\ Cardinality(RowsFor(Report(d, o), k)) = Cardinality(ItemsFor(d, k))
<1> DEFINE R == RowsFor(Report(d, o), k)
           I == ItemsFor(d, k)
<1>1. CASE k[1] \notin Groups
  <2>1. \A r \in R, q \in R : r = q
    <3>1. ASSUME NEW r \in R, NEW q \in R PROVE r = q
      <4>1. r \in Report(d, o) /\ q \in Report(d, o) /\ Key(r) = k /\ Key(q) = k
        BY DEF RowsFor
      <4>2. r.slot \notin Groups /\ r.slot = q.slot /\ r.node = q.node
        BY <1>1, <4>1 DEF Key
      <4> QED BY <4>1, <4>2, RowIsUnique
    <3> QED BY <3>1
  <2>2. \A i \in I, j \in I : i = j
    BY <1>1, ItemIsUnique DEF ItemsFor
  <2>3. CASE R = {}
    <3>1. I = {}
      BY <2>3, ItemHasRow DEF RowsFor, ItemsFor
    <3> QED BY <2>3, <3>1, FS_EmptySet
  <2>4. CASE R # {}
    <3>1. PICK r \in R : TRUE
      BY <2>4
    <3>2. r \in Report(d, o) /\ Key(r) = k
      BY DEF RowsFor
    <3>3. PICK i \in Inventory(d) : i.key = k
      BY <3>2, RowHasItem
    <3>4. i \in I
      BY <3>3 DEF ItemsFor
    <3>5. R = {r} /\ I = {i}
      BY <2>1, <2>2, <3>1, <3>4
    <3> HIDE DEF R, I
    <3>6. IsFiniteSet(R) /\ IsFiniteSet(I) /\ Cardinality(R) = 1 /\ Cardinality(I) = 1
      BY <3>5, FS_Singleton
    <3> QED BY <3>6 DEF R, I
  <2> QED BY <2>3, <2>4
<1>2. CASE k[1] \in Groups
  <2> DEFINE B == {b \in Ballots(d) : BallotItem(d, b).key = k}
             row == [b \in B |-> BallotRow(d, o, b)]
             item == [b \in B |-> BallotItem(d, b)]
  <2>1. B \subseteq Ballots(d) /\ IsFiniteSet(B)
    BY BallotsAreFinite, FS_Subset
  <2>2. row \in Bijection(B, R)
    <3>1. row \in [B -> R]
      BY RowsOfReport, BallotRowShape DEF RowsFor
    <3>2. ASSUME NEW b \in B, NEW c \in B, row[b] = row[c] PROVE b = c
      <4>1. BallotRow(d, o, b) = BallotRow(d, o, c)
        BY <3>2
      <4> QED BY <4>1, BallotsAreApart
    <3>3. ASSUME NEW r \in R PROVE \E b \in B : row[b] = r
      <4>1. r \in Report(d, o) /\ Key(r) = k /\ r.slot \in Groups
        BY <1>2 DEF RowsFor, Key
      <4>2. PICK b \in Ballots(d) : r = BallotRow(d, o, b)
        BY <4>1, SlotsOfReport DEF Groups
      <4>3. b \in B
        BY <4>1, <4>2, BallotRowShape
      <4> QED BY <4>2, <4>3
    <3> HIDE DEF row, B, R
    <3> QED BY <3>1, <3>2, <3>3 DEF Bijection, Injection, IsInjective, Surjection
  <2>3. item \in Bijection(B, I)
    <3>1. item \in [B -> I]
      BY ItemsOfInventory DEF ItemsFor
    <3>2. ASSUME NEW b \in B, NEW c \in B, item[b] = item[c] PROVE b = c
      <4>1. BallotItem(d, b) = BallotItem(d, c)
        BY <3>2
      <4> QED BY <4>1, BallotsAreApart
    <3>3. ASSUME NEW i \in I PROVE \E b \in B : item[b] = i
      <4>1. i \in Inventory(d) /\ i.key = k /\ i.key[1] \in Groups
        BY <1>2 DEF ItemsFor
      <4>2. PICK b \in Ballots(d) : i = BallotItem(d, b)
        BY <4>1, SlotsOfInventory DEF Groups
      <4>3. b \in B
        BY <4>1, <4>2
      <4> QED BY <4>2, <4>3
    <3> HIDE DEF item, B, I
    <3> QED BY <3>1, <3>2, <3>3 DEF Bijection, Injection, IsInjective, Surjection
  <2> HIDE DEF row, item, B, R, I
  <2>4. IsFiniteSet(R) /\ Cardinality(R) = Cardinality(B)
    BY <2>1, <2>2, FS_Bijection DEF ExistsBijection
  <2>5. IsFiniteSet(I) /\ Cardinality(I) = Cardinality(B)
    BY <2>1, <2>3, FS_Bijection DEF ExistsBijection
  <2> QED BY <2>4, <2>5 DEF R, I
<1> QED BY <1>1, <1>2

\* What the transform reports is what the validator expects.
LEMMA ReportCoversInventory ==
  ASSUME NEW d \in Documents, NEW o \in OwnerSets
  PROVE  InventoryIsCovered(d, Report(d, o))
<1> DEFINE R == Report(d, o)
<1>1. \A k : Cardinality(RowsFor(R, k)) = Cardinality(ItemsFor(d, k))
  BY KeysAsOften
<1>2. \A r \in R : \E i \in ItemsFor(d, Key(r)) : r.status \in i.statuses
  BY RowHasItem DEF ItemsFor
<1> HIDE DEF R
<1>3. InventoryIsCovered(d, R)
  BY <1>1, <1>2 DEF InventoryIsCovered, RowsFor, ItemsFor
<1> QED BY <1>3 DEF R

----------------------------------------------------------------------------
\* The rows that resolve, and their edges

Alone(d) == Cardinality(DOMAIN d.authors) = 1

\* Which rows resolve, and to what.
LEMMA ResolvedRow ==
  ASSUME NEW d \in Documents, NEW o \in OwnerSets, NEW r \in Report(d, o), r.status = "resolved"
  PROVE  \/ /\ r.slot \in {"speaker", "askedBy"} /\ r \in BodyRows(d, o)
            /\ r.about = r.node /\ r.target \in o.members
         \/ /\ r.slot \in Groups
            /\ \E b \in Ballots(d) : r = BallotRow(d, o, b) /\ r.about = b[1] /\ r.target \in o.members
         \/ /\ r.slot = "result" /\ r.about = r.target /\ r.target # None
         \/ /\ r.slot = "outcome" /\ r.about = r.target /\ r.target # None
            /\ \E v \in d.votings : r.target = JoinOf(d, v) /\ r.raw = v.outcome /\ v.outcome \in Outcomes
         \/ /\ r.slot = "count" /\ r.about = r.target /\ r.target # None
            /\ \E v \in d.votings : \E c \in v.counts :
                 /\ r = CountRow(d, v, c) /\ r.target = JoinOf(d, v)
                 /\ r.raw = c.kind /\ c.kind \in CountKinds /\ r.value = c.value
         \/ /\ r.slot = "term" /\ r.about = "work" /\ r.target # None
            /\ \E a \in DOMAIN d.authors :
                 /\ r = TermRow(d, o, a) /\ Alone(d) /\ d.authors[a].shape = "term"
                 /\ r.target = d.authors[a].key /\ r.target \in DOMAIN o.terms
         \/ /\ r.slot = "body" /\ r.about = "work" /\ r.target # None
            /\ \E a \in DOMAIN d.authors :
                 r = BodyRow(d, o, a) /\ Alone(d) /\ r.target = BodyOf(d, o, d.authors[a])
<1>1. CASE r.slot = "speaker"
  <2>1. PICK n \in SpeechesOf(d) : r = PersonRow(d, o, "speaker", n, n, d.attr[n].by)
    BY <1>1, SlotsOfReport DEF Groups
  <2>2. r \in BodyRows(d, o)
    BY <2>1, Zenon DEF BodyRows, SpeechesOf
  <2>3. r.about = r.node /\ r.target \in o.members
    BY <2>1, PersonRowShape, DeferredRow
  <2> QED BY <1>1, <2>2, <2>3
<1>2. CASE r.slot = "askedBy"
  <2>1. PICK n \in QuestionsOf(d) : r = PersonRow(d, o, "askedBy", n, n, d.attr[n].by)
    BY <1>2, SlotsOfReport DEF Groups
  <2>2. r \in BodyRows(d, o)
    BY <2>1, Zenon DEF BodyRows, QuestionsOf
  <2>3. r.about = r.node /\ r.target \in o.members
    BY <2>1, PersonRowShape, DeferredRow
  <2> QED BY <1>2, <2>2, <2>3
<1>3. CASE r.slot \in Groups
  <2>1. PICK b \in Ballots(d) : r = BallotRow(d, o, b)
    BY <1>3, SlotsOfReport DEF Groups
  <2>2. r.about = b[1] /\ r.target \in o.members
    BY <2>1, PersonRowShape, DeferredRow DEF BallotRow
  <2>3. r.slot \in Groups /\ \E x \in Ballots(d) : r = BallotRow(d, o, x) /\ r.about = x[1] /\ r.target \in o.members
    BY <1>3, <2>1, <2>2
  <2> QED BY <2>3, Zenon
<1>4. CASE r.slot = "result"
  <2>1. PICK v \in d.votings : r = Joined(d, v, "result", v.id, v.href, {v.href})
    BY <1>4, SlotsOfReport DEF Groups
  <2>2. r.about = r.target /\ r.target # None
    BY <2>1, JoinedShape
  <2> QED BY <1>4, <2>2
<1>5. CASE r.slot = "outcome"
  <2>1. PICK v \in d.votings : r = Joined(d, v, "outcome", v.id, v.outcome, Outcomes)
    BY <1>5, SlotsOfReport DEF Groups
  <2>2. /\ r.about = r.target /\ r.target # None /\ r.target = JoinOf(d, v)
        /\ r.raw = v.outcome /\ v.outcome \in Outcomes
    BY <2>1, JoinedShape
  <2> QED BY <1>5, <2>2
<1>6. CASE r.slot = "count"
  <2>1. PICK v \in d.votings : \E c \in v.counts : r = CountRow(d, v, c)
    BY <1>6, SlotsOfReport DEF Groups
  <2>2. PICK c \in v.counts : r = CountRow(d, v, c)
    BY <2>1
  <2>3. /\ r.about = r.target /\ r.target # None /\ r.target = JoinOf(d, v)
        /\ r.raw = c.kind /\ c.kind \in CountKinds /\ r.value = c.value
    BY <2>2, CountRowShape
  <2>4. \E w \in d.votings : \E e \in w.counts :
          /\ r = CountRow(d, w, e) /\ r.target = JoinOf(d, w)
          /\ r.raw = e.kind /\ e.kind \in CountKinds /\ r.value = e.value
    BY <2>2, <2>3
  <2> QED BY <1>6, <2>3, <2>4
<1>7. CASE r.slot = "term"
  <2>1. PICK a \in DOMAIN d.authors : r = TermRow(d, o, a)
    BY <1>7, SlotsOfReport DEF Groups
  <2>2. /\ r.about = "work" /\ r.target # None /\ Alone(d) /\ d.authors[a].shape = "term"
        /\ r.target = d.authors[a].key /\ r.target \in DOMAIN o.terms
    BY <2>1, TermRowShape DEF Alone
  <2> QED BY <1>7, <2>1, <2>2
<1>8. CASE r.slot = "body"
  <2>1. PICK a \in DOMAIN d.authors : r = BodyRow(d, o, a)
    BY <1>8, SlotsOfReport DEF Groups
  <2>2. r.about = "work" /\ r.target # None /\ Alone(d) /\ r.target = BodyOf(d, o, d.authors[a])
    BY <2>1, BodyRowShape DEF Alone
  <2> QED BY <1>8, <2>1, <2>2
<1>9. r.slot \notin Deferrals
  <2>1. CASE r.slot = "role"
    <3>1. PICK n \in SpeechesOf(d) : r = Deferred("role", n, n, d.attr[n].as)
      BY <2>1, SlotsOfReport DEF Groups
    <3> QED BY <3>1, DeferredRow
  <2>2. CASE r.slot = "directedTo"
    <3>1. PICK n \in QuestionsOf(d) : r = Deferred("directedTo", n, n, d.attr[n].to)
      BY <2>2, SlotsOfReport DEF Groups
    <3> QED BY <3>1, DeferredRow
  <2>3. CASE r.slot = "event"
    <3>1. PICK n \in SectionsOf(d) : r = Deferred("event", n, n, d.attr[n].refersTo)
      BY <2>3, SlotsOfReport DEF Groups
    <3> QED BY <3>1, DeferredRow
  <2>4. CASE r.slot = "proposal"
    <3>1. PICK v \in d.votings : r = Joined(d, v, "proposal", v.id, v.refersTo, {})
      BY <2>4, SlotsOfReport DEF Groups
    <3> QED BY <3>1, JoinedShape
  <2> QED BY <2>1, <2>2, <2>3, <2>4 DEF Deferrals
<1>10. r.slot \in {"speaker", "askedBy", "result", "outcome", "count", "term", "body"} \cup Groups \cup Deferrals
  BY SlotsOfReport DEF Deferrals
<1> QED BY <1>1, <1>2, <1>3, <1>4, <1>5, <1>6, <1>7, <1>8, <1>9, <1>10

\* A status and a target, or no target; no reference, no status but "absent".
LEMMA ReportCoheres ==
  ASSUME NEW d \in Documents, NEW o \in OwnerSets
  PROVE  ReportIsCoherent(Report(d, o))
<1> SUFFICES ASSUME NEW r \in Report(d, o)
             PROVE  /\ (r.status = "resolved") = (r.target # None)
                    /\ (r.status = "absent") = (r.raw = "absent")
  BY DEF ReportIsCoherent
<1>1. ASSUME NEW slot, NEW node, NEW about, NEW raw, r = Deferred(slot, node, about, raw)
      PROVE  /\ (r.status = "resolved") = (r.target # None)
             /\ (r.status = "absent") = (r.raw = "absent")
  BY <1>1, DeferredRow DEF Shape
<1>2. ASSUME NEW slot, NEW node, NEW about, NEW raw, r = PersonRow(d, o, slot, node, about, raw)
      PROVE  /\ (r.status = "resolved") = (r.target # None)
             /\ (r.status = "absent") = (r.raw = "absent")
  <2>1. CASE r = Deferred(slot, node, about, raw)
    BY <1>1, <2>1
  <2>2. CASE /\ raw \in DOMAIN d.ids /\ d.ids[raw].href \in o.members
             /\ r.status = "resolved" /\ r.target = d.ids[raw].href /\ r.raw = raw
    <3>1. raw # "absent" /\ r.target # None
      BY <2>2, PlacesAreApart, OwnersAreApart
    <3> QED BY <2>2, <3>1
  <2> QED BY <1>2, <2>1, <2>2, PersonRowShape
<1>3. ASSUME NEW v, NEW slot, NEW node, NEW raw, NEW known, r.raw = raw,
             known \in {{v.href}, Outcomes, CountKinds, {}},
             \E x \in {Joined(d, v, slot, node, raw, known)} : r.status = x.status /\ r.target = x.target
      PROVE  /\ (r.status = "resolved") = (r.target # None)
             /\ (r.status = "absent") = (r.raw = "absent")
  <2> DEFINE x == Joined(d, v, slot, node, raw, known)
  <2>1. CASE raw \in known /\ JoinOf(d, v) # None
    <3>1. r.status = "resolved" /\ r.target = JoinOf(d, v)
      BY <1>3, <2>1, JoinedShape
    <3>2. raw = v.href \/ raw \in Outcomes \/ raw \in CountKinds
      BY <1>3, <2>1
    <3>3. v.href # "absent"
      BY <2>1, JoinAgrees, PlacesAreApart
    <3>4. raw # "absent"
      BY <3>2, <3>3 DEF Outcomes, CountKinds
    <3> QED BY <1>3, <2>1, <3>1, <3>4
  <2>2. CASE ~(raw \in known /\ JoinOf(d, v) # None)
    <3>1. /\ r.status = IF Shape(raw) \in {"absent", "malformed"} THEN Shape(raw) ELSE "unresolved"
          /\ r.target = None
      BY <1>3, <2>2, JoinedShape
    <3> QED BY <1>3, <3>1 DEF Shape
  <2> QED BY <2>1, <2>2
<1>4. CASE r.slot \in {"speaker", "askedBy"}
  BY <1>2, <1>4, SlotsOfReport DEF Groups
<1>5. CASE r.slot \in {"role", "directedTo", "event"}
  BY <1>1, <1>5, SlotsOfReport DEF Groups
<1>6. CASE r.slot \in Groups
  <2>1. PICK b \in Ballots(d) : r = BallotRow(d, o, b)
    BY <1>6, SlotsOfReport DEF Groups
  <2> QED BY <1>2, <2>1 DEF BallotRow
<1>7. CASE r.slot = "result"
  <2>1. PICK v \in d.votings : r = Joined(d, v, "result", v.id, v.href, {v.href})
    BY <1>7, SlotsOfReport DEF Groups
  <2>2. r.raw = v.href
    BY <2>1, JoinedShape
  <2> QED BY <1>3, <2>1, <2>2
<1>8. CASE r.slot = "outcome"
  <2>1. PICK v \in d.votings : r = Joined(d, v, "outcome", v.id, v.outcome, Outcomes)
    BY <1>8, SlotsOfReport DEF Groups
  <2>2. r.raw = v.outcome
    BY <2>1, JoinedShape
  <2> QED BY <1>3, <2>1, <2>2
<1>9. CASE r.slot = "proposal"
  <2>1. PICK v \in d.votings : r = Joined(d, v, "proposal", v.id, v.refersTo, {})
    BY <1>9, SlotsOfReport DEF Groups
  <2>2. r.raw = v.refersTo
    BY <2>1, JoinedShape
  <2> QED BY <1>3, <2>1, <2>2
<1>10. CASE r.slot = "count"
  <2>1. PICK v \in d.votings : \E c \in v.counts : r = CountRow(d, v, c)
    BY <1>10, SlotsOfReport DEF Groups
  <2>2. PICK c \in v.counts : r = CountRow(d, v, c)
    BY <2>1
  <2> DEFINE x == Joined(d, v, "count", c.id, c.kind, CountKinds)
  <2>3. r.raw = c.kind /\ r.status = x.status /\ r.target = x.target
    BY <2>2, CountRowShape, JoinedShape
  <2> QED BY <1>3, <2>3
<1>11. CASE r.slot = "term"
  <2>1. PICK a \in DOMAIN d.authors : r = TermRow(d, o, a)
    BY <1>11, SlotsOfReport DEF Groups
  <2> QED BY <2>1, TermRowShape
<1>12. CASE r.slot = "body"
  <2>1. PICK a \in DOMAIN d.authors : r = BodyRow(d, o, a)
    BY <1>12, SlotsOfReport DEF Groups
  <2> QED BY <2>1, BodyRowShape
<1>13. r.slot \in {"speaker", "role", "askedBy", "directedTo", "event", "result", "outcome",
                  "proposal", "count", "term", "body"} \cup Groups
  BY SlotsOfReport
<1> QED BY <1>4, <1>5, <1>6, <1>7, <1>8, <1>9, <1>10, <1>11, <1>12, <1>13

\* The edges of one resolved row.
EdgesOf(r) ==
  CASE r.slot = "speaker" -> {<<r.about, "speaker", r.target>>, <<r.about, "participant", r.target>>}
    [] r.slot = "outcome" -> {<<r.target, "outcome", r.raw>>}
    [] r.slot = "count" -> IF r.value = "absent" THEN {} ELSE {<<r.target, r.raw, r.value>>}
    [] r.slot = "result" -> {}
    [] OTHER -> {<<r.about, r.slot, r.target>>}

LEMMA ExpectedIsOfRows ==
  ASSUME NEW rs
  PROVE  /\ \A r \in rs : r.status = "resolved" => EdgesOf(r) \subseteq ExpectedEdges(rs)
         /\ \A e \in ExpectedEdges(rs) : \E r \in rs : r.status = "resolved" /\ e \in EdgesOf(r)
<1>1. ExpectedEdges(rs) = UNION {EdgesOf(r) : r \in {x \in rs : x.status = "resolved"}}
  BY DEF ExpectedEdges, EdgesOf
<1> QED BY <1>1

\* What the transform emits is what its report leads one to expect.
LEMMA EmittedIsExpected ==
  ASSUME NEW d \in Documents, NEW o \in OwnerSets
  PROVE  ExpectedEdges(Report(d, o)) = Emitted(d, o)
<1> DEFINE R == Report(d, o)
           E == Emitted(d, o)
           body == {r \in BodyRows(d, o) : r.status = "resolved"}
<1>1. E = {<<r.node, r.slot, r.target>> : r \in body}
          \cup {<<r.node, "participant", r.target>> : r \in {x \in body : x.slot = "speaker"}}
          \cup (UNION {{<<b[1], r.slot, r.target>> :
                         r \in {x \in {BallotRow(d, o, b)} : x.status = "resolved"}} : b \in Ballots(d)})
          \cup {<<JoinOf(d, v), "outcome", v.outcome>> :
                  v \in {x \in d.votings : JoinOf(d, x) # None /\ x.outcome \in Outcomes}}
          \cup Counts(d)
          \cup (UNION {{<<"work", r.slot, r.target>> :
                         r \in {x \in {TermRow(d, o, a), BodyRow(d, o, a)} : x.status = "resolved"}} :
                       a \in DOMAIN d.authors})
  BY DEF Emitted
<1>2. BodyRows(d, o) \subseteq R
  BY DEF Report
<1>3. \A r \in body : r.slot \in {"speaker", "askedBy"} /\ r.about = r.node
  <2>1. ASSUME NEW r \in body
        PROVE  r.slot \in {"speaker", "askedBy"} /\ r.about = r.node
    <3>1. r.slot \notin {"outcome", "result", "count", "term", "body"} \cup Groups
      <4>1. \/ \E n \in SpeechesOf(d) : r = PersonRow(d, o, "speaker", n, n, d.attr[n].by)
            \/ \E n \in SpeechesOf(d) : r = Deferred("role", n, n, d.attr[n].as)
            \/ \E n \in QuestionsOf(d) : r = PersonRow(d, o, "askedBy", n, n, d.attr[n].by)
            \/ \E n \in QuestionsOf(d) : r = Deferred("directedTo", n, n, d.attr[n].to)
            \/ \E n \in SectionsOf(d) : r = Deferred("event", n, n, d.attr[n].refersTo)
        BY Zenon DEF BodyRows, SpeechesOf, QuestionsOf, SectionsOf
      <4>2. r.slot \in {"speaker", "role", "askedBy", "directedTo", "event"}
        BY <4>1, PersonRowShape, DeferredRow
      <4> QED BY <4>2 DEF Groups
    <3>2. r \in R /\ r.status = "resolved"
      BY <1>2
    <3> QED BY <3>1, <3>2, ResolvedRow
  <2> QED BY <2>1
<1>4. ASSUME NEW r \in R, r.status = "resolved", NEW e \in EdgesOf(r)
      PROVE  e \in E
  <2>1. CASE r.slot = "speaker"
    <3>1. r \in body /\ r.about = r.node
      BY <1>4, <2>1, ResolvedRow DEF Groups
    <3>2. e = <<r.node, r.slot, r.target>> \/ e = <<r.node, "participant", r.target>>
      BY <1>4, <2>1, <3>1 DEF EdgesOf
    <3>3. r \in {x \in body : x.slot = "speaker"}
      BY <2>1, <3>1
    <3> HIDE DEF body, E
    <3> QED BY <1>1, <3>1, <3>2, <3>3
  <2>2. CASE r.slot = "askedBy"
    <3>1. r \in body /\ r.about = r.node
      BY <1>4, <2>2, ResolvedRow DEF Groups
    <3>2. e = <<r.node, r.slot, r.target>>
      BY <1>4, <2>2, <3>1 DEF EdgesOf
    <3> HIDE DEF body, E
    <3> QED BY <1>1, <3>1, <3>2
  <2>3. CASE r.slot \in Groups
    <3>1. PICK b \in Ballots(d) : r = BallotRow(d, o, b) /\ r.about = b[1]
      BY <1>4, <2>3, ResolvedRow DEF Groups
    <3>2. e = <<b[1], r.slot, r.target>>
      BY <1>4, <2>3, <3>1 DEF EdgesOf, Groups
    <3>3. e \in {<<b[1], x.slot, x.target>> :
                   x \in {y \in {BallotRow(d, o, b)} : y.status = "resolved"}}
      BY <1>4, <3>1, <3>2
    <3> HIDE DEF E
    <3> QED BY <1>1, <3>3
  <2>4. CASE r.slot = "result"
    BY <1>4, <2>4 DEF EdgesOf
  <2>5. CASE r.slot = "outcome"
    <3>1. PICK v \in d.votings : r.target = JoinOf(d, v) /\ r.raw = v.outcome /\ v.outcome \in Outcomes
      BY <1>4, <2>5, ResolvedRow DEF Groups
    <3>2. r.target # None
      BY <1>4, <2>5, ResolvedRow DEF Groups
    <3>3. e = <<JoinOf(d, v), "outcome", v.outcome>>
      BY <1>4, <2>5, <3>1 DEF EdgesOf
    <3> HIDE DEF E
    <3> QED BY <1>1, <3>1, <3>2, <3>3
  <2>6. CASE r.slot = "count"
    <3>1. PICK v \in d.votings : \E c \in v.counts :
            /\ r = CountRow(d, v, c) /\ r.target = JoinOf(d, v)
            /\ r.raw = c.kind /\ c.kind \in CountKinds /\ r.value = c.value
      BY <1>4, <2>6, ResolvedRow DEF Groups
    <3>2. PICK c \in v.counts :
            r.target = JoinOf(d, v) /\ r.raw = c.kind /\ c.kind \in CountKinds /\ r.value = c.value
      BY <3>1
    <3>3. r.target # None
      BY <1>4, <2>6, ResolvedRow DEF Groups
    <3>4. r.value # "absent" /\ e = <<JoinOf(d, v), c.kind, c.value>>
      BY <1>4, <2>6, <3>2 DEF EdgesOf
    <3>5. e \in Counts(d)
      BY <3>2, <3>3, <3>4 DEF Counts
    <3> HIDE DEF E
    <3> QED BY <1>1, <3>5
  <2>7. CASE r.slot \in {"term", "body"}
    <3>1. PICK a \in DOMAIN d.authors : r \in {TermRow(d, o, a), BodyRow(d, o, a)}
      BY <1>4, <2>7, ResolvedRow DEF Groups
    <3>2. r.about = "work"
      BY <1>4, <2>7, ResolvedRow DEF Groups
    <3>3. e = <<"work", r.slot, r.target>>
      BY <1>4, <2>7, <3>2 DEF EdgesOf
    <3>4. e \in {<<"work", x.slot, x.target>> :
                   x \in {y \in {TermRow(d, o, a), BodyRow(d, o, a)} : y.status = "resolved"}}
      BY <1>4, <3>1, <3>3
    <3> HIDE DEF E
    <3> QED BY <1>1, <3>4
  <2>8. r.slot \in {"speaker", "askedBy", "result", "outcome", "count", "term", "body"} \cup Groups
    BY <1>4, ResolvedRow
  <2> QED BY <2>1, <2>2, <2>3, <2>4, <2>5, <2>6, <2>7, <2>8
<1>5. ASSUME NEW e \in E
      PROVE  \E r \in R : r.status = "resolved" /\ e \in EdgesOf(r)
  <2>1. CASE \E r \in body : e = <<r.node, r.slot, r.target>>
    <3>1. PICK r \in body : e = <<r.node, r.slot, r.target>>
      BY <2>1
    <3>2. r \in R /\ r.status = "resolved" /\ r.slot \in {"speaker", "askedBy"} /\ r.about = r.node
      BY <1>2, <1>3
    <3>3. e \in EdgesOf(r)
      BY <3>1, <3>2 DEF EdgesOf
    <3> QED BY <3>2, <3>3
  <2>2. CASE \E r \in body : r.slot = "speaker" /\ e = <<r.node, "participant", r.target>>
    <3>1. PICK r \in body : r.slot = "speaker" /\ e = <<r.node, "participant", r.target>>
      BY <2>2
    <3>2. r \in R /\ r.status = "resolved" /\ r.about = r.node
      BY <1>2, <1>3
    <3>3. e \in EdgesOf(r)
      BY <3>1, <3>2 DEF EdgesOf
    <3> QED BY <3>2, <3>3
  <2>3. CASE \E b \in Ballots(d) : LET r == BallotRow(d, o, b)
                                  IN r.status = "resolved" /\ e = <<b[1], r.slot, r.target>>
    <3>1. PICK b \in Ballots(d) : LET r == BallotRow(d, o, b)
                                  IN r.status = "resolved" /\ e = <<b[1], r.slot, r.target>>
      BY <2>3
    <3> DEFINE r == BallotRow(d, o, b)
    <3>2. r \in R /\ r.about = b[1]
      BY RowsOfReport, BallotRowShape
    <3>3. r.slot \in Groups
      BY BallotRowShape DEF Ballots, OfKind
    <3>4. e = <<r.about, r.slot, r.target>>
      BY <3>1, <3>2
    <3>5. r.status = "resolved"
      BY <3>1
    <3> HIDE DEF r
    <3>6. e \in EdgesOf(r)
      BY <3>3, <3>4 DEF EdgesOf, Groups
    <3> QED BY <3>2, <3>5, <3>6
  <2>4. CASE \E v \in d.votings :
               JoinOf(d, v) # None /\ v.outcome \in Outcomes /\ e = <<JoinOf(d, v), "outcome", v.outcome>>
    <3>1. PICK v \in d.votings :
            JoinOf(d, v) # None /\ v.outcome \in Outcomes /\ e = <<JoinOf(d, v), "outcome", v.outcome>>
      BY <2>4
    <3> DEFINE r == Joined(d, v, "outcome", v.id, v.outcome, Outcomes)
    <3>2. r \in R
      BY RowsOfReport
    <3>3. r.slot = "outcome" /\ r.status = "resolved" /\ r.target = JoinOf(d, v) /\ r.raw = v.outcome
      BY <3>1, JoinedShape
    <3> HIDE DEF r
    <3>4. e \in EdgesOf(r)
      BY <3>1, <3>3 DEF EdgesOf
    <3> QED BY <3>2, <3>3, <3>4
  <2>5. CASE e \in Counts(d)
    <3>1. PICK v \in d.votings :
            /\ JoinOf(d, v) # None
            /\ \E c \in v.counts : /\ c.kind \in CountKinds /\ c.value # "absent"
                                  /\ e = <<JoinOf(d, v), c.kind, c.value>>
      BY <2>5 DEF Counts
    <3>2. PICK c \in v.counts : /\ c.kind \in CountKinds /\ c.value # "absent"
                                /\ e = <<JoinOf(d, v), c.kind, c.value>>
      BY <3>1
    <3> DEFINE r == CountRow(d, v, c)
    <3>3. r \in R
      BY RowsOfReport
    <3>4. /\ r.slot = "count" /\ r.status = "resolved" /\ r.target = JoinOf(d, v)
          /\ r.raw = c.kind /\ r.value = c.value
      BY <3>1, <3>2, CountRowShape
    <3> HIDE DEF r
    <3>5. e \in EdgesOf(r)
      BY <3>2, <3>4 DEF EdgesOf
    <3> QED BY <3>3, <3>4, <3>5
  <2>6. CASE \E a \in DOMAIN d.authors : \E r \in {TermRow(d, o, a), BodyRow(d, o, a)} :
               r.status = "resolved" /\ e = <<"work", r.slot, r.target>>
    <3>1. PICK a \in DOMAIN d.authors : \E r \in {TermRow(d, o, a), BodyRow(d, o, a)} :
               r.status = "resolved" /\ e = <<"work", r.slot, r.target>>
      BY <2>6
    <3>2. PICK r \in {TermRow(d, o, a), BodyRow(d, o, a)} :
               r.status = "resolved" /\ e = <<"work", r.slot, r.target>>
      BY <3>1
    <3>3. r \in R
      BY RowsOfReport
    <3>4. r.slot \in {"term", "body"} /\ r.about = "work"
      BY TermRowShape, BodyRowShape
    <3>5. e \in EdgesOf(r)
      BY <3>2, <3>4 DEF EdgesOf
    <3> QED BY <3>2, <3>3, <3>5
  <2>7. \/ \E r \in body : e = <<r.node, r.slot, r.target>>
        \/ \E r \in body : r.slot = "speaker" /\ e = <<r.node, "participant", r.target>>
        \/ \E b \in Ballots(d) : LET r == BallotRow(d, o, b)
                                  IN r.status = "resolved" /\ e = <<b[1], r.slot, r.target>>
        \/ \E v \in d.votings :
               JoinOf(d, v) # None /\ v.outcome \in Outcomes /\ e = <<JoinOf(d, v), "outcome", v.outcome>>
        \/ e \in Counts(d)
        \/ \E a \in DOMAIN d.authors : \E r \in {TermRow(d, o, a), BodyRow(d, o, a)} :
               r.status = "resolved" /\ e = <<"work", r.slot, r.target>>
    <3> HIDE DEF E, body
    <3> QED BY <1>1, <1>5
  <2> QED BY <2>1, <2>2, <2>3, <2>4, <2>5, <2>6, <2>7
<1> HIDE DEF R, E
<1>6. ExpectedEdges(R) = E
  BY <1>4, <1>5, ExpectedIsOfRows
<1> QED BY <1>6 DEF R, E

----------------------------------------------------------------------------
\* What the validator makes of the edges of a faithful transformation

\* Which edges there are, by their names.
LEMMA NamesOfEdges ==
  ASSUME NEW d \in Documents, NEW o \in OwnerSets, NEW e \in Emitted(d, o)
  PROVE  \/ e[2] \in {"speaker", "participant", "askedBy"} /\ e[3] \in o.members
         \/ /\ e[2] \in Groups /\ e[3] \in o.members
            /\ \E b \in Ballots(d) : LET r == BallotRow(d, o, b)
                                   IN r.status = "resolved" /\ e = <<b[1], d.kind[b[2]], r.target>>
         \/ /\ e[2] = "outcome"
            /\ \E v \in d.votings : /\ JoinOf(d, v) # None /\ v.outcome \in Outcomes
                                   /\ e = <<JoinOf(d, v), "outcome", v.outcome>>
         \/ e[2] \in CountKinds
         \/ /\ e[2] = "term" /\ Alone(d)
            /\ \E a \in DOMAIN d.authors : /\ d.authors[a].shape = "term" /\ e[3] = d.authors[a].key
                                         /\ e[3] \in DOMAIN o.terms
         \/ /\ e[2] = "body" /\ e[3] # None /\ Alone(d)
            /\ \E a \in DOMAIN d.authors : e[3] = BodyOf(d, o, d.authors[a])
<1>1. PICK r \in Report(d, o) : r.status = "resolved" /\ e \in EdgesOf(r)
  BY EmittedIsExpected, ExpectedIsOfRows
<1>2. CASE r.slot \in {"speaker", "askedBy"}
  <2>1. r.target \in o.members
    BY <1>1, <1>2, ResolvedRow DEF Groups
  <2>2. e[2] \in {"speaker", "participant", "askedBy"} /\ e[3] = r.target
    BY <1>1, <1>2 DEF EdgesOf
  <2> QED BY <2>1, <2>2
<1>3. CASE r.slot \in Groups
  <2>1. PICK b \in Ballots(d) : r = BallotRow(d, o, b) /\ r.about = b[1] /\ r.target \in o.members
    BY <1>1, <1>3, ResolvedRow DEF Groups
  <2>2. r.slot = d.kind[b[2]]
    BY <2>1, BallotRowShape
  <2>3. e = <<r.about, r.slot, r.target>>
    BY <1>1, <1>3 DEF EdgesOf, Groups
  <2>4. /\ e[2] \in Groups /\ e[3] \in o.members
        /\ \E x \in Ballots(d) : /\ BallotRow(d, o, x).status = "resolved"
                               /\ e = <<x[1], d.kind[x[2]], BallotRow(d, o, x).target>>
    BY <1>1, <1>3, <2>1, <2>2, <2>3
  <2> QED BY <2>4, Zenon
<1>4. CASE r.slot = "result"
  BY <1>1, <1>4 DEF EdgesOf
<1>5. CASE r.slot = "outcome"
  <2>1. PICK v \in d.votings : r.target = JoinOf(d, v) /\ r.raw = v.outcome /\ v.outcome \in Outcomes
    BY <1>1, <1>5, ResolvedRow DEF Groups
  <2>2. r.target # None
    BY <1>1, <1>5, ResolvedRow DEF Groups
  <2>3. e = <<r.target, "outcome", r.raw>>
    BY <1>1, <1>5 DEF EdgesOf
  <2> QED BY <2>1, <2>2, <2>3
<1>6. CASE r.slot = "count"
  <2>1. r.raw \in CountKinds
    BY <1>1, <1>6, ResolvedRow DEF Groups
  <2>2. e = <<r.target, r.raw, r.value>>
    BY <1>1, <1>6 DEF EdgesOf
  <2> QED BY <2>1, <2>2
<1>7. CASE r.slot = "term"
  <2>1. PICK a \in DOMAIN d.authors :
          /\ r = TermRow(d, o, a) /\ Alone(d) /\ d.authors[a].shape = "term"
          /\ r.target = d.authors[a].key /\ r.target \in DOMAIN o.terms
    BY <1>1, <1>7, ResolvedRow DEF Groups
  <2>2. e = <<r.about, r.slot, r.target>>
    BY <1>1, <1>7 DEF EdgesOf
  <2> QED BY <1>7, <2>1, <2>2
<1>8. CASE r.slot = "body"
  <2>1. PICK a \in DOMAIN d.authors :
          r = BodyRow(d, o, a) /\ Alone(d) /\ r.target = BodyOf(d, o, d.authors[a])
    BY <1>1, <1>8, ResolvedRow DEF Groups
  <2>2. e = <<r.about, r.slot, r.target>> /\ r.target # None
    BY <1>1, <1>8, ResolvedRow DEF EdgesOf, Groups
  <2> QED BY <1>8, <2>1, <2>2
<1>9. r.slot \in {"speaker", "askedBy", "result", "outcome", "count", "term", "body"} \cup Groups
  BY <1>1, ResolvedRow
<1> QED BY <1>2, <1>3, <1>4, <1>5, <1>6, <1>7, <1>8, <1>9

\* The vote, outcome, term and body edges that there must be.
LEMMA EdgesOfKinds ==
  ASSUME NEW d \in Documents, NEW o \in OwnerSets
  PROVE  /\ \A b \in Ballots(d) : LET r == BallotRow(d, o, b)
                                IN r.target # None => <<b[1], d.kind[b[2]], r.target>> \in Emitted(d, o)
         /\ \A v \in d.votings : JoinOf(d, v) # None /\ v.outcome \in Outcomes
                                => <<JoinOf(d, v), "outcome", v.outcome>> \in Emitted(d, o)
         /\ \A a \in DOMAIN d.authors : Alone(d) =>
              /\ d.authors[a].shape = "term" /\ d.authors[a].key \in DOMAIN o.terms
                   => <<"work", "term", d.authors[a].key>> \in Emitted(d, o)
              /\ BodyOf(d, o, d.authors[a]) # None
                   => <<"work", "body", BodyOf(d, o, d.authors[a])>> \in Emitted(d, o)
<1>1. ASSUME NEW r \in Report(d, o), r.status = "resolved", NEW e \in EdgesOf(r)
      PROVE  e \in Emitted(d, o)
  BY <1>1, EmittedIsExpected, ExpectedIsOfRows
<1>2. ASSUME NEW b \in Ballots(d), BallotRow(d, o, b).target # None
      PROVE  <<b[1], d.kind[b[2]], BallotRow(d, o, b).target>> \in Emitted(d, o)
  <2> DEFINE r == BallotRow(d, o, b)
  <2>1. r \in Report(d, o) /\ r.about = b[1] /\ r.slot = d.kind[b[2]]
    BY RowsOfReport, BallotRowShape
  <2>2. r.status = "resolved"
    BY <1>2, <2>1, ReportCoheres DEF ReportIsCoherent
  <2>3. d.kind[b[2]] \in Groups
    BY DEF Ballots, OfKind
  <2> HIDE DEF r
  <2>4. <<b[1], d.kind[b[2]], r.target>> \in EdgesOf(r)
    BY <2>1, <2>3 DEF EdgesOf, Groups
  <2>5. <<b[1], d.kind[b[2]], r.target>> \in Emitted(d, o)
    BY <1>1, <2>1, <2>2, <2>4
  <2> QED BY <2>5 DEF r
<1>3. ASSUME NEW v \in d.votings, JoinOf(d, v) # None, v.outcome \in Outcomes
      PROVE  <<JoinOf(d, v), "outcome", v.outcome>> \in Emitted(d, o)
  <2> DEFINE r == Joined(d, v, "outcome", v.id, v.outcome, Outcomes)
  <2>1. r \in Report(d, o)
    BY RowsOfReport
  <2>2. r.slot = "outcome" /\ r.status = "resolved" /\ r.target = JoinOf(d, v) /\ r.raw = v.outcome
    BY <1>3, JoinedShape
  <2> HIDE DEF r
  <2>3. <<JoinOf(d, v), "outcome", v.outcome>> \in EdgesOf(r)
    BY <2>2 DEF EdgesOf
  <2> QED BY <1>1, <2>1, <2>2, <2>3
<1>4. ASSUME NEW a \in DOMAIN d.authors, Alone(d),
             d.authors[a].shape = "term", d.authors[a].key \in DOMAIN o.terms
      PROVE  <<"work", "term", d.authors[a].key>> \in Emitted(d, o)
  <2> DEFINE r == TermRow(d, o, a)
  <2>1. r \in Report(d, o)
    BY RowsOfReport
  <2>2. r.slot = "term" /\ r.about = "work" /\ r.status = "resolved" /\ r.target = d.authors[a].key
    BY <1>4, TermRowShape DEF Alone
  <2> HIDE DEF r
  <2>3. <<"work", "term", d.authors[a].key>> \in EdgesOf(r)
    BY <2>2 DEF EdgesOf
  <2> QED BY <1>1, <2>1, <2>2, <2>3
<1>5. ASSUME NEW a \in DOMAIN d.authors, Alone(d), BodyOf(d, o, d.authors[a]) # None
      PROVE  <<"work", "body", BodyOf(d, o, d.authors[a])>> \in Emitted(d, o)
  <2> DEFINE r == BodyRow(d, o, a)
  <2>1. r \in Report(d, o)
    BY RowsOfReport
  <2>2. r.slot = "body" /\ r.about = "work" /\ r.status = "resolved" /\ r.target = BodyOf(d, o, d.authors[a])
    BY <1>5, BodyRowShape DEF Alone
  <2> HIDE DEF r
  <2>3. <<"work", "body", BodyOf(d, o, d.authors[a])>> \in EdgesOf(r)
    BY <2>2 DEF EdgesOf
  <2> QED BY <1>1, <2>1, <2>2, <2>3
<1> QED BY <1>2, <1>3, <1>4, <1>5

\* A faithful report matches its edges unless it counts below zero.
LEMMA NegativeIsRefused ==
  ASSUME doc \in Documents, owners \in OwnerSets
  PROVE  EdgesMatchReport(Report(doc, owners), Emitted(doc, owners)) <=> ~CountIsNegative
<1> DEFINE R == Report(doc, owners)
<1>1. \A r \in R : r.status = "resolved" =>
        r.slot \notin Deferrals /\ (r.slot \in {"result", "outcome", "count"} => r.about = r.target)
  BY ResolvedRow DEF Deferrals, Groups
<1>2. ASSUME NEW r \in R, r.status = "resolved", r.slot = "count", r.value = "negative"
      PROVE  CountIsNegative
  <2>1. PICK v \in doc.votings : \E c \in v.counts :
          r.target = JoinOf(doc, v) /\ c.kind \in CountKinds /\ r.value = c.value
    BY <1>2, ResolvedRow DEF Groups
  <2>2. PICK c \in v.counts : c.kind \in CountKinds /\ c.value = "negative"
    BY <1>2, <2>1
  <2>3. JoinOf(doc, v) # None
    BY <1>2, <2>1, ResolvedRow DEF Groups
  <2>4. <<JoinOf(doc, v), c.kind, c.value>> \in Counts(doc)
    BY <2>2, <2>3 DEF Counts
  <2> QED BY <2>2, <2>4 DEF CountIsNegative
<1>3. ASSUME CountIsNegative
      PROVE  \E r \in R : r.status = "resolved" /\ r.slot = "count" /\ r.value = "negative"
  <2>1. PICK x \in Counts(doc) : x[3] = "negative"
    BY <1>3 DEF CountIsNegative
  <2>2. PICK v \in doc.votings :
          /\ JoinOf(doc, v) # None
          /\ \E c \in v.counts : c.kind \in CountKinds /\ x = <<JoinOf(doc, v), c.kind, c.value>>
    BY DEF Counts
  <2>3. PICK c \in v.counts : c.kind \in CountKinds /\ c.value = "negative"
    BY <2>1, <2>2
  <2>4. CountRow(doc, v, c) \in R
    BY RowsOfReport
  <2>5. LET r == CountRow(doc, v, c)
        IN r.status = "resolved" /\ r.slot = "count" /\ r.value = "negative"
    BY <2>2, <2>3, CountRowShape
  <2> QED BY <2>4, <2>5
<1>4. ExpectedEdges(R) = Emitted(doc, owners)
  BY EmittedIsExpected
<1> HIDE DEF R
<1>5. EdgesMatchReport(R, Emitted(doc, owners)) <=> ~CountIsNegative
  BY <1>1, <1>2, <1>3, <1>4 DEF EdgesMatchReport
<1> QED BY <1>5 DEF R

\* Its votes are consistent unless a Member votes twice or two results differ.
LEMMA DoubleVotesAreRefused ==
  ASSUME doc \in Documents, owners \in OwnerSets
  PROVE  VotesAreConsistent(Emitted(doc, owners)) <=> ~VotesTwice /\ ~ResultsDiffer
<1> DEFINE E == Emitted(doc, owners)
<1>1. ASSUME VotesTwice PROVE ~VotesAreConsistent(E)
  <2>1. PICK b \in Ballots(doc), c \in Ballots(doc) :
          /\ b[1] = c[1] /\ doc.kind[b[2]] # doc.kind[c[2]]
          /\ BallotRow(doc, owners, b).target # None
          /\ BallotRow(doc, owners, b).target = BallotRow(doc, owners, c).target
    BY <1>1 DEF VotesTwice
  <2> DEFINE t == BallotRow(doc, owners, b).target
             x == <<b[1], doc.kind[b[2]], t>>
             y == <<c[1], doc.kind[c[2]], t>>
  <2>2. x \in E /\ y \in E
    BY <2>1, EdgesOfKinds
  <2>3. doc.kind[b[2]] \in Groups /\ doc.kind[c[2]] \in Groups
    BY DEF Ballots, OfKind
  <2> HIDE DEF E, t
  <2>4. x[1] = y[1] /\ {x[2], y[2]} \subseteq Groups /\ x[3] = y[3] /\ x # y
    BY <2>1, <2>3
  <2> HIDE DEF x, y
  <2> QED BY <2>2, <2>4 DEF VotesAreConsistent
<1>2. ASSUME ResultsDiffer PROVE ~VotesAreConsistent(E)
  <2>1. PICK v \in doc.votings, w \in doc.votings :
          /\ JoinOf(doc, v) # None /\ JoinOf(doc, v) = JoinOf(doc, w)
          /\ v.outcome # w.outcome /\ {v.outcome, w.outcome} \subseteq Outcomes
    BY <1>2 DEF ResultsDiffer
  <2> DEFINE x == <<JoinOf(doc, v), "outcome", v.outcome>>
             y == <<JoinOf(doc, w), "outcome", w.outcome>>
  <2>2. x \in E /\ y \in E
    BY <2>1, EdgesOfKinds
  <2>3. x[1] = y[1] /\ x[2] = "outcome" /\ y[2] = "outcome" /\ x # y
    BY <2>1
  <2> HIDE DEF E, x, y
  <2> QED BY <2>2, <2>3 DEF VotesAreConsistent
<1>3. ASSUME ~VotesTwice, ~ResultsDiffer, NEW x \in E, NEW y \in E
      PROVE  /\ x[1] = y[1] /\ x[2] = "outcome" /\ y[2] = "outcome" => x = y
             /\ x[1] = y[1] /\ {x[2], y[2]} \subseteq Groups /\ x[3] = y[3] => x = y
  <2>1. ASSUME x[1] = y[1], x[2] = "outcome", y[2] = "outcome" PROVE x = y
    <3>1. PICK v \in doc.votings : /\ JoinOf(doc, v) # None /\ v.outcome \in Outcomes
                                  /\ x = <<JoinOf(doc, v), "outcome", v.outcome>>
      BY <2>1, NamesOfEdges DEF Groups, CountKinds
    <3>2. PICK w \in doc.votings : /\ JoinOf(doc, w) # None /\ w.outcome \in Outcomes
                                  /\ y = <<JoinOf(doc, w), "outcome", w.outcome>>
      BY <2>1, NamesOfEdges DEF Groups, CountKinds
    <3>3. JoinOf(doc, v) = JoinOf(doc, w)
      BY <2>1, <3>1, <3>2
    <3>4. v.outcome = w.outcome
      BY <1>3, <3>1, <3>2, <3>3 DEF ResultsDiffer
    <3> QED BY <3>1, <3>2, <3>3, <3>4
  <2>2. ASSUME x[1] = y[1], x[2] \in Groups, y[2] \in Groups, x[3] = y[3] PROVE x = y
    <3>1. PICK b \in Ballots(doc) : /\ BallotRow(doc, owners, b).status = "resolved"
                                   /\ x = <<b[1], doc.kind[b[2]], BallotRow(doc, owners, b).target>>
      BY <2>2, NamesOfEdges DEF Groups, CountKinds
    <3>2. PICK c \in Ballots(doc) : /\ BallotRow(doc, owners, c).status = "resolved"
                                   /\ y = <<c[1], doc.kind[c[2]], BallotRow(doc, owners, c).target>>
      BY <2>2, NamesOfEdges DEF Groups, CountKinds
    <3>3. /\ b[1] = c[1]
          /\ BallotRow(doc, owners, b).target = BallotRow(doc, owners, c).target
      BY <2>2, <3>1, <3>2
    <3>4. BallotRow(doc, owners, b).target # None
      BY <3>1, RowsOfReport, ReportCoheres DEF ReportIsCoherent
    <3>5. doc.kind[b[2]] = doc.kind[c[2]]
      BY <1>3, <3>3, <3>4 DEF VotesTwice
    <3> QED BY <3>1, <3>2, <3>3, <3>5
  <2> QED BY <2>1, <2>2
<1> HIDE DEF E
<1>4. ASSUME ~VotesTwice, ~ResultsDiffer PROVE VotesAreConsistent(E)
  BY <1>3, <1>4 DEF VotesAreConsistent
<1>5. VotesAreConsistent(E) <=> ~VotesTwice /\ ~ResultsDiffer
  BY <1>1, <1>2, <1>4
<1> QED BY <1>5 DEF E

\* Its links have owners unless its host is not published with its House.
LEMMA UnpublishedHostIsRefused ==
  ASSUME doc \in Documents, owners \in OwnerSets
  PROVE  LinksAreOwned(owners, Emitted(doc, owners)) <=> ~HostIsUnpublished
<1> DEFINE E == Emitted(doc, owners)
           T == Objects(E, {"term"})
           B == Objects(E, {"body"})
<1>1. Objects(E, {"speaker", "participant", "askedBy"} \cup Groups) \subseteq owners.members
  <2>1. ASSUME NEW e \in E, e[2] \in {"speaker", "participant", "askedBy"} \cup Groups
        PROVE  e[3] \in owners.members
    BY <2>1, NamesOfEdges DEF Groups, CountKinds
  <2> HIDE DEF E
  <2> QED BY <2>1 DEF Objects
<1>2. ASSUME NEW t \in T
      PROVE  Alone(doc) /\ \E a \in DOMAIN doc.authors :
               doc.authors[a].shape = "term" /\ t = doc.authors[a].key /\ t \in DOMAIN owners.terms
  <2>1. PICK e \in E : e[2] = "term" /\ t = e[3]
    BY DEF Objects
  <2> QED BY <2>1, NamesOfEdges DEF Groups, CountKinds
<1>3. ASSUME NEW b \in B
      PROVE  b # None /\ Alone(doc) /\ \E a \in DOMAIN doc.authors : b = BodyOf(doc, owners, doc.authors[a])
  <2>1. PICK e \in E : e[2] = "body" /\ b = e[3]
    BY DEF Objects
  <2> QED BY <2>1, NamesOfEdges DEF Groups, CountKinds
<1>4. LinksAreOwned(owners, E) <=>
        /\ \A t \in T : TermIsOwned(owners, t)
        /\ \A b \in B :
             \/ /\ b \in owners.houses \ DOMAIN owners.committees
                /\ \A t \in T : owners.terms[t] = b
             \/ /\ b \in DOMAIN owners.committees \ owners.houses
                /\ TermIsOwned(owners, owners.committees[b])
                /\ T \subseteq {owners.committees[b]}
  BY <1>1 DEF LinksAreOwned
<1>5. CASE ~Alone(doc)
  <2>1. T = {} /\ B = {}
    BY <1>2, <1>3, <1>5
  <2>2. ~HostIsUnpublished
    BY <1>5 DEF HostIsUnpublished, Alone
  <2> QED BY <1>4, <2>1, <2>2
<1>6. CASE Alone(doc)
  <2>1. PICK a : DOMAIN doc.authors = {a}
    BY <1>6, DocumentsAreTrees, FS_Singleton DEF Alone
  <2> DEFINE by == doc.authors[a]
             body == BodyOf(doc, owners, by)
             ofTerm == by.shape = "term" /\ by.key \in DOMAIN owners.terms
  <2>2. T = IF ofTerm THEN {by.key} ELSE {}
    <3>1. \A t \in T : ofTerm /\ t = by.key
      BY <1>2, <2>1
    <3>2. ofTerm => <<"work", "term", by.key>> \in E
      BY <1>6, <2>1, EdgesOfKinds
    <3>3. ofTerm => by.key \in T
      <4> HIDE DEF E, by
      <4>1. ASSUME <<"work", "term", by.key>> \in E PROVE by.key \in T
        <5> DEFINE e == <<"work", "term", by.key>>
        <5>1. e \in E /\ e[2] = "term" /\ e[3] = by.key
          BY <4>1
        <5> HIDE DEF e
        <5> QED BY <5>1 DEF Objects
      <4> QED BY <3>2, <4>1
    <3> HIDE DEF T, ofTerm
    <3> QED BY <3>1, <3>3
  <2>3. B = IF body # None THEN {body} ELSE {}
    <3>1. \A b \in B : b # None /\ b = body
      BY <1>3, <2>1
    <3>2. body # None => <<"work", "body", body>> \in E
      BY <1>6, <2>1, EdgesOfKinds
    <3>3. body # None => body \in B
      <4> HIDE DEF E, body
      <4>1. ASSUME <<"work", "body", body>> \in E PROVE body \in B
        <5> DEFINE e == <<"work", "body", body>>
        <5>1. e \in E /\ e[2] = "body" /\ e[3] = body
          BY <4>1
        <5> HIDE DEF e
        <5> QED BY <5>1 DEF Objects
      <4> QED BY <3>2, <4>1
    <3> HIDE DEF B, body
    <3> QED BY <3>1, <3>3
  <2>4. HostIsUnpublished <=>
          \/ by.shape = "generic" /\ body \notin owners.houses \cup {None}
          \/ by.shape = "term" /\ by.key \in DOMAIN owners.terms /\ ~TermIsOwned(owners, by.key)
          \/ by.shape = "committee" /\ body # None /\ ~TermIsOwned(owners, owners.committees[body])
    BY <1>6, <2>1 DEF HostIsUnpublished, Alone
  <2>5. /\ (DOMAIN owners.committees) \cap (Chambers \cup owners.houses) = {}
        /\ None \notin DOMAIN owners.committees
    BY OwnersAreApart
  <2>6. CASE by.shape = "generic"
    <3>1. body = IF doc.venue \in Chambers THEN doc.venue ELSE None
      BY <2>6 DEF BodyOf
    <3>2. body # None => body \in Chambers
      BY <3>1
    <3>3. T = {}
      BY <2>2, <2>6
    <3>4. HostIsUnpublished <=> body # None /\ body \notin owners.houses
      BY <2>4, <2>6
    <3> HIDE DEF E, T, B, body, by
    <3>5. LinksAreOwned(owners, E) <=> (body # None => body \in owners.houses)
      BY <1>4, <2>3, <2>5, <3>2, <3>3
    <3> QED BY <3>4, <3>5 DEF E
  <2>7. CASE by.shape = "term"
    <3>1. body = IF ofTerm /\ doc.venue \in Chambers /\ owners.terms[by.key] = doc.venue
                THEN doc.venue ELSE None
      BY <2>7 DEF BodyOf
    <3>2. body # None => ofTerm /\ body \in Chambers /\ owners.terms[by.key] = body
      BY <3>1
    <3>3. HostIsUnpublished <=> ofTerm /\ ~TermIsOwned(owners, by.key)
      BY <2>4, <2>7
    <3>4. ofTerm /\ TermIsOwned(owners, by.key) => owners.terms[by.key] \in owners.houses
      BY DEF TermIsOwned
    <3> HIDE DEF E, T, B, body, ofTerm, by
    <3>5. CASE ofTerm /\ TermIsOwned(owners, by.key)
      <4>1. \A t \in T : TermIsOwned(owners, t)
        BY <2>2, <3>5
      <4>2. \A b \in B : /\ b \in owners.houses \ DOMAIN owners.committees
                         /\ \A t \in T : owners.terms[t] = b
        BY <2>2, <2>3, <2>5, <3>2, <3>4, <3>5
      <4> QED BY <1>4, <3>3, <3>5, <4>1, <4>2 DEF E
    <3>6. CASE ofTerm /\ ~TermIsOwned(owners, by.key)
      <4>1. \E t \in T : ~TermIsOwned(owners, t)
        BY <2>2, <3>6
      <4> QED BY <1>4, <3>3, <3>6, <4>1 DEF E
    <3>7. CASE ~ofTerm
      <4>1. T = {} /\ B = {}
        BY <2>2, <2>3, <3>2, <3>7
      <4> QED BY <1>4, <3>3, <3>7, <4>1 DEF E
    <3> QED BY <3>5, <3>6, <3>7
  <2>8. CASE by.shape = "committee"
    <3>1. body = IF by.key \in DOMAIN owners.committees THEN by.key ELSE None
      BY <2>8 DEF BodyOf
    <3>2. body # None => body \in DOMAIN owners.committees /\ body \notin owners.houses
      BY <2>5, <3>1
    <3>3. T = {}
      BY <2>2, <2>8
    <3>4. HostIsUnpublished <=> body # None /\ ~TermIsOwned(owners, owners.committees[body])
      BY <2>4, <2>8
    <3> HIDE DEF E, T, B, body, by
    <3>5. LinksAreOwned(owners, E) <=> (body # None => TermIsOwned(owners, owners.committees[body]))
      BY <1>4, <2>3, <3>2, <3>3
    <3> QED BY <3>4, <3>5 DEF E
  <2>9. CASE by.shape \notin {"generic", "term", "committee"}
    <3>1. body = None
      BY <2>9 DEF BodyOf
    <3>2. T = {} /\ B = {}
      BY <2>2, <2>3, <2>9, <3>1
    <3>3. ~HostIsUnpublished
      BY <2>4, <2>9
    <3> HIDE DEF E, T, B, body, by
    <3> QED BY <1>4, <3>2, <3>3 DEF E
  <2> QED BY <2>6, <2>7, <2>8, <2>9
<1> QED BY <1>5, <1>6

\* The two readings of a document agree on all that is not contested.
LEMMA ReadingsAgree ==
  ASSUME doc \in Documents, owners \in OwnerSets
  PROVE  Validates(doc, owners, Report(doc, owners), Emitted(doc, owners)) <=> ~Contested
BY NegativeIsRefused, DoubleVotesAreRefused, UnpublishedHostIsRefused, ReportCoheres, ReportCoversInventory
   DEF Validates, Contested

----------------------------------------------------------------------------
\* An altered transformation

LEMMA RowIsRecord ==
  ASSUME NEW d, NEW o, NEW r \in Report(d, o)
  PROVE  r = [slot |-> r.slot, node |-> r.node, about |-> r.about, raw |-> r.raw,
              status |-> r.status, target |-> r.target, value |-> r.value]
<1>1. ASSUME NEW slot, NEW node, NEW about, NEW raw, NEW status, NEW target,
             r = ReferenceRow(slot, node, about, raw, status, target)
      PROVE  r = [slot |-> r.slot, node |-> r.node, about |-> r.about, raw |-> r.raw,
                  status |-> r.status, target |-> r.target, value |-> r.value]
  BY <1>1 DEF ReferenceRow
<1>2. ASSUME NEW slot, NEW node, NEW about, NEW raw, r = Deferred(slot, node, about, raw)
      PROVE  r = [slot |-> r.slot, node |-> r.node, about |-> r.about, raw |-> r.raw,
                  status |-> r.status, target |-> r.target, value |-> r.value]
  BY <1>1, <1>2 DEF Deferred
<1>3. ASSUME NEW slot, NEW node, NEW about, NEW raw, r = PersonRow(d, o, slot, node, about, raw)
      PROVE  r = [slot |-> r.slot, node |-> r.node, about |-> r.about, raw |-> r.raw,
                  status |-> r.status, target |-> r.target, value |-> r.value]
  BY <1>1, <1>2, <1>3 DEF PersonRow
<1>4. ASSUME NEW v, NEW slot, NEW node, NEW raw, NEW known, r = Joined(d, v, slot, node, raw, known)
      PROVE  r = [slot |-> r.slot, node |-> r.node, about |-> r.about, raw |-> r.raw,
                  status |-> r.status, target |-> r.target, value |-> r.value]
  BY <1>1, <1>2, <1>4 DEF Joined
<1>5. ASSUME NEW v, NEW c, r = CountRow(d, v, c)
      PROVE  r = [slot |-> r.slot, node |-> r.node, about |-> r.about, raw |-> r.raw,
                  status |-> r.status, target |-> r.target, value |-> r.value]
  BY <1>5 DEF CountRow, Joined, Deferred, ReferenceRow
<1>6. CASE r.slot \in {"speaker", "role", "askedBy", "directedTo", "event"}
  BY <1>2, <1>3, <1>6, SlotsOfReport DEF Groups
<1>7. CASE r.slot \in Groups
  <2>1. PICK b \in Ballots(d) : r = BallotRow(d, o, b)
    BY <1>7, SlotsOfReport DEF Groups
  <2> QED BY <1>3, <2>1 DEF BallotRow
<1>8. CASE r.slot \in {"result", "outcome", "proposal"}
  BY <1>4, <1>8, SlotsOfReport DEF Groups
<1>9. CASE r.slot = "count"
  BY <1>5, <1>9, SlotsOfReport DEF Groups
<1>10. CASE r.slot = "term"
  <2>1. PICK a \in DOMAIN d.authors : r = TermRow(d, o, a)
    BY <1>10, SlotsOfReport DEF Groups
  <2> QED BY <1>1, <2>1 DEF TermRow
<1>11. CASE r.slot = "body"
  <2>1. PICK a \in DOMAIN d.authors : r = BodyRow(d, o, a)
    BY <1>11, SlotsOfReport DEF Groups
  <2> QED BY <1>1, <2>1 DEF BodyRow
<1>12. r.slot \in {"speaker", "role", "askedBy", "directedTo", "event", "result", "outcome",
                  "proposal", "count", "term", "body"} \cup Groups
  BY SlotsOfReport
<1> QED BY <1>6, <1>7, <1>8, <1>9, <1>10, <1>11, <1>12

\* An item leaves open at most whether its reference resolves.
LEMMA OneStatusUnresolved ==
  ASSUME NEW d \in Documents, NEW i \in Inventory(d), NEW x \in i.statuses, NEW y \in i.statuses,
         x # "resolved", y # "resolved"
  PROVE  x = y
<1>a. ASSUME NEW raw, NEW found, found \in {{"resolved"}, {"unresolved"}, {"resolved", "unresolved"}},
             x \in SourceStatuses(raw, found), y \in SourceStatuses(raw, found)
      PROVE  x = y
  BY <1>a DEF SourceStatuses
<1>b. ASSUME NEW raw, x \in PersonStatuses(d, raw), y \in PersonStatuses(d, raw)
      PROVE  x = y
  BY <1>b DEF PersonStatuses, SourceStatuses
<1>1. CASE i.key[1] = "speaker"
  <2>1. PICK n \in SpeechesOf(d) :
          i = Item("speaker", n, d.attr[n].by, PersonStatuses(d, d.attr[n].by))
    BY <1>1, SlotsOfInventory DEF Groups
  <2> QED BY <2>1, <1>b, ItemFields
<1>2. CASE i.key[1] = "role"
  <2>1. PICK n \in SpeechesOf(d) :
          i = Item("role", n, d.attr[n].as, SourceStatuses(d.attr[n].as, {"unresolved"}))
    BY <1>2, SlotsOfInventory DEF Groups
  <2> QED BY <2>1, <1>a, ItemFields
<1>3. CASE i.key[1] = "askedBy"
  <2>1. PICK n \in QuestionsOf(d) :
          i = Item("askedBy", n, d.attr[n].by, PersonStatuses(d, d.attr[n].by))
    BY <1>3, SlotsOfInventory DEF Groups
  <2> QED BY <2>1, <1>b, ItemFields
<1>4. CASE i.key[1] = "directedTo"
  <2>1. PICK n \in QuestionsOf(d) :
          i = Item("directedTo", n, d.attr[n].to, SourceStatuses(d.attr[n].to, {"unresolved"}))
    BY <1>4, SlotsOfInventory DEF Groups
  <2> QED BY <2>1, <1>a, ItemFields
<1>5. CASE i.key[1] = "event"
  <2>1. PICK n \in SectionsOf(d) :
          i = Item("event", n, d.attr[n].refersTo, SourceStatuses(d.attr[n].refersTo, {"unresolved"}))
    BY <1>5, SlotsOfInventory DEF Groups
  <2> QED BY <2>1, <1>a, ItemFields
<1>6. CASE i.key[1] = "result"
  <2>1. PICK n \in d.votings :
          i = Item("result", n.id, n.href, JoinStatuses(d, n, n.href, {n.href}))
    BY <1>6, SlotsOfInventory DEF Groups
  <2> QED BY <2>1, <1>a, ItemFields DEF JoinStatuses
<1>7. CASE i.key[1] = "outcome"
  <2>1. PICK n \in d.votings :
          i = Item("outcome", n.id, n.outcome, JoinStatuses(d, n, n.outcome, Outcomes))
    BY <1>7, SlotsOfInventory DEF Groups
  <2> QED BY <2>1, <1>a, ItemFields DEF JoinStatuses
<1>8. CASE i.key[1] = "proposal"
  <2>1. PICK n \in d.votings :
          i = Item("proposal", n.id, n.refersTo, SourceStatuses(n.refersTo, {"unresolved"}))
    BY <1>8, SlotsOfInventory DEF Groups
  <2> QED BY <2>1, <1>a, ItemFields
<1>9. CASE i.key[1] = "count"
  <2>1. PICK v \in d.votings : \E c \in v.counts :
          i = Item("count", c.id, c.kind, JoinStatuses(d, v, c.kind, CountKinds))
    BY <1>9, SlotsOfInventory DEF Groups
  <2>2. PICK c \in v.counts : i = Item("count", c.id, c.kind, JoinStatuses(d, v, c.kind, CountKinds))
    BY <2>1
  <2> QED BY <2>2, <1>a, ItemFields DEF JoinStatuses
<1>10. CASE i.key[1] = "term"
  <2>1. PICK a \in DOMAIN d.authors : i = Item("term", a, d.authors[a].shape, TermStatuses(d, a))
    BY <1>10, SlotsOfInventory DEF Groups
  <2>2. x \in TermStatuses(d, a) /\ y \in TermStatuses(d, a)
    BY <2>1, ItemFields
  <2> QED BY <2>2 DEF TermStatuses
<1>11. CASE i.key[1] = "body"
  <2>1. PICK a \in DOMAIN d.authors : i = Item("body", a, d.authors[a].shape, BodyStatuses(d, a))
    BY <1>11, SlotsOfInventory DEF Groups
  <2>2. x \in BodyStatuses(d, a) /\ y \in BodyStatuses(d, a)
    BY <2>1, ItemFields
  <2> QED BY <2>2 DEF BodyStatuses
<1>12. CASE i.key[1] \in Groups
  <2>1. PICK b \in Ballots(d) : i = BallotItem(d, b)
    BY <1>12, SlotsOfInventory DEF Groups
  <2> QED BY <2>1, <1>b, BallotItemFields
<1>13. i.key[1] \in {"speaker", "role", "askedBy", "directedTo", "event", "result", "outcome",
                    "proposal", "count", "term", "body"} \cup Groups
  BY SlotsOfInventory
<1> QED BY <1>1, <1>2, <1>3, <1>4, <1>5, <1>6, <1>7, <1>8, <1>9, <1>10, <1>11, <1>12, <1>13

\* Where a row is the only one of its slot about something, its edge is.
LEMMA RowIsSole ==
  ASSUME NEW d \in Documents, NEW o \in OwnerSets, NEW r \in Report(d, o), NEW q \in Report(d, o),
         r.slot \in {"speaker", "askedBy", "term", "body"}, q.slot = r.slot, q.about = r.about,
         q.status = "resolved"
  PROVE  q = r
<1>1. CASE r.slot = "speaker"
  <2>1. PICK n \in SpeechesOf(d) : r = PersonRow(d, o, "speaker", n, n, d.attr[n].by)
    BY <1>1, SlotsOfReport DEF Groups
  <2>2. PICK m \in SpeechesOf(d) : q = PersonRow(d, o, "speaker", m, m, d.attr[m].by)
    BY <1>1, SlotsOfReport DEF Groups
  <2>3. r.about = n /\ q.about = m
    BY <2>1, <2>2, PersonRowShape
  <2> QED BY <2>1, <2>2, <2>3
<1>2. CASE r.slot = "askedBy"
  <2>1. PICK n \in QuestionsOf(d) : r = PersonRow(d, o, "askedBy", n, n, d.attr[n].by)
    BY <1>2, SlotsOfReport DEF Groups
  <2>2. PICK m \in QuestionsOf(d) : q = PersonRow(d, o, "askedBy", m, m, d.attr[m].by)
    BY <1>2, SlotsOfReport DEF Groups
  <2>3. r.about = n /\ q.about = m
    BY <2>1, <2>2, PersonRowShape
  <2> QED BY <2>1, <2>2, <2>3
<1>3. CASE r.slot \in {"term", "body"}
  <2>1. Alone(d)
    BY <1>3, ResolvedRow DEF Groups
  <2>2. PICK a : DOMAIN d.authors = {a}
    BY <2>1, DocumentsAreTrees, FS_Singleton DEF Alone
  <2>3. CASE r.slot = "term"
    BY <2>2, <2>3, SlotsOfReport DEF Groups
  <2>4. CASE r.slot = "body"
    BY <2>2, <2>4, SlotsOfReport DEF Groups
  <2> QED BY <1>3, <2>3, <2>4
<1> QED BY <1>1, <1>2, <1>3

LEMMA MisreportedFields ==
  ASSUME NEW r, NEW s, NEW t
  PROVE  LET q == Misreported(r, s, t)
         IN /\ q.slot = r.slot /\ q.node = r.node /\ q.about = r.about /\ q.raw = r.raw
            /\ q.value = r.value /\ q.status = s /\ q.target = t /\ Key(q) = Key(r)
BY DEF Misreported, ReferenceRow, Key

\* A row misreported as what it says is the row.
LEMMA MisreportedAsItself ==
  ASSUME NEW d, NEW o, NEW r \in Report(d, o)
  PROVE  Misreported(r, r.status, r.target) = r
<1>1. PICK slot, node, about, raw, status, target, value :
        r = [slot |-> slot, node |-> node, about |-> about, raw |-> raw,
             status |-> status, target |-> target, value |-> value]
  BY RowIsRecord
<1> QED BY <1>1 DEF Misreported, ReferenceRow

\* A report that lost a row covers the inventory no more.
LEMMA LostRowIsRefused ==
  ASSUME NEW d \in Documents, NEW o \in OwnerSets, NEW r \in Report(d, o)
  PROVE  ~InventoryIsCovered(d, Report(d, o) \ {r})
<1> DEFINE R == Report(d, o)
           k == Key(r)
           I == ItemsFor(d, k)
<1>1. IsFiniteSet(RowsFor(R, k)) /\ Cardinality(RowsFor(R, k)) = Cardinality(I)
  BY KeysAsOften
<1>2. RowsFor(R \ {r}, k) = RowsFor(R, k) \ {r} /\ r \in RowsFor(R, k)
  BY DEF RowsFor
<1>3. k \in {i.key : i \in Inventory(d)}
  BY RowHasItem
<1> HIDE DEF R, k, I
<1>4. Cardinality(RowsFor(R \ {r}, k)) # Cardinality(I)
  <2> DEFINE S == RowsFor(R, k)
  <2> HIDE DEF S
  <2>1. IsFiniteSet(S) /\ Cardinality(S) = Cardinality(I) /\ r \in S
    BY <1>1, <1>2 DEF S
  <2>2. Cardinality(S) \in Nat /\ Cardinality(S \ {r}) = Cardinality(S) - 1
    BY <2>1, FS_RemoveElement, FS_CardinalityType
  <2>3. RowsFor(R \ {r}, k) = S \ {r}
    BY <1>2 DEF S
  <2> QED BY <2>1, <2>2, <2>3
<1>5. ~InventoryIsCovered(d, R \ {r})
  BY <1>3, <1>4 DEF InventoryIsCovered, RowsFor, ItemsFor, I
<1> QED BY <1>5 DEF R

\* The edges of one slot about one thing name the targets of its rows.
LEMMA EdgeOfSlot ==
  ASSUME NEW x, NEW y, x.slot \in {"speaker", "askedBy", "term", "body"} \cup Groups,
         <<x.about, x.slot, x.target>> \in EdgesOf(y),
         y.slot = "count" => y.raw \in CountKinds
  PROVE  y.slot = x.slot /\ y.about = x.about /\ y.target = x.target
<1> DEFINE e == <<x.about, x.slot, x.target>>
<1>1. CASE y.slot = "speaker"
  <2>1. e = <<y.about, "speaker", y.target>> \/ e = <<y.about, "participant", y.target>>
    BY <1>1 DEF EdgesOf
  <2> QED BY <1>1, <2>1 DEF Groups
<1>2. CASE y.slot = "outcome"
  <2>1. e = <<y.target, "outcome", y.raw>>
    BY <1>2 DEF EdgesOf
  <2> QED BY <2>1 DEF Groups
<1>3. CASE y.slot = "count"
  <2>1. e = <<y.target, y.raw, y.value>> /\ y.raw \in CountKinds
    BY <1>3 DEF EdgesOf
  <2> QED BY <2>1 DEF Groups, CountKinds
<1>4. CASE y.slot = "result"
  BY <1>4 DEF EdgesOf
<1>5. CASE y.slot \notin {"speaker", "outcome", "count", "result"}
  <2>1. e = <<y.about, y.slot, y.target>>
    BY <1>5 DEF EdgesOf
  <2> QED BY <2>1
<1> QED BY <1>1, <1>2, <1>3, <1>4, <1>5

\* The items of one key allow the same statuses.
LEMMA KeyHasStatuses ==
  ASSUME NEW d \in Documents, NEW i \in Inventory(d), NEW j \in Inventory(d), i.key = j.key
  PROVE  i.statuses = j.statuses
<1>1. CASE i.key[1] \notin Groups
  BY <1>1, ItemIsUnique
<1>2. CASE i.key[1] \in Groups
  <2>1. PICK b \in Ballots(d) : i = BallotItem(d, b)
    BY <1>2, SlotsOfInventory DEF Groups
  <2>2. PICK c \in Ballots(d) : j = BallotItem(d, c)
    BY <1>2, SlotsOfInventory DEF Groups
  <2>3. /\ i.key[3] = d.attr[b[3]].refersTo /\ i.statuses = PersonStatuses(d, d.attr[b[3]].refersTo)
        /\ j.key[3] = d.attr[c[3]].refersTo /\ j.statuses = PersonStatuses(d, d.attr[c[3]].refersTo)
    <3>2. i.key = <<d.kind[b[2]], b[3], d.attr[b[3]].refersTo>>
          /\ i.statuses = PersonStatuses(d, d.attr[b[3]].refersTo)
      BY <2>1, BallotItemFields
    <3>3. j.key = <<d.kind[c[2]], c[3], d.attr[c[3]].refersTo>>
          /\ j.statuses = PersonStatuses(d, d.attr[c[3]].refersTo)
      BY <2>2, BallotItemFields
    <3>4. i.key[3] = d.attr[b[3]].refersTo
      BY <3>2
    <3>5. j.key[3] = d.attr[c[3]].refersTo
      BY <3>3
    <3> QED BY <3>2, <3>3, <3>4, <3>5
  <2> QED BY <2>3
<1> QED BY <1>1, <1>2

\* A row misreported with a status its source allows is resolved, or was.
LEMMA MisreportResolves ==
  ASSUME NEW d \in Documents, NEW o \in OwnerSets, NEW r \in Report(d, o), NEW s, NEW t,
         <<s, t>> # <<r.status, r.target>>,
         LET q == Misreported(r, s, t) rs == (Report(d, o) \ {r}) \cup {q}
         IN ReportIsCoherent(rs) /\ InventoryIsCovered(d, rs)
  PROVE  /\ s = "resolved" \/ r.status = "resolved"
         /\ \A i \in Inventory(d) : i.key = Key(r) => s \in i.statuses /\ r.status \in i.statuses
<1> DEFINE q == Misreported(r, s, t)
           rs == (Report(d, o) \ {r}) \cup {q}
<1>1. q.status = s /\ q.target = t /\ Key(q) = Key(r)
  BY MisreportedFields
<1>2. q \in rs
  OBVIOUS
<1> HIDE DEF q, rs
<1>3. ReportIsCoherent(rs) /\ InventoryIsCovered(d, rs)
  BY DEF q, rs
<1>4. PICK i \in Inventory(d) : i.key = Key(q) /\ q.status \in i.statuses
  BY <1>2, <1>3 DEF InventoryIsCovered
<1>5. PICK j \in Inventory(d) : j.key = Key(r) /\ r.status \in j.statuses
  BY RowHasItem
<1>6. i.statuses = j.statuses
  BY <1>1, <1>4, <1>5, KeyHasStatuses
<1>7. s = "resolved" \/ r.status = "resolved"
  <2>1. SUFFICES ASSUME s # "resolved", r.status # "resolved" PROVE FALSE
    OBVIOUS
  <2>2. s = r.status
    BY <1>1, <1>4, <1>5, <1>6, <2>1, OneStatusUnresolved
  <2>3. t = None
    BY <1>1, <1>2, <1>3, <2>1 DEF ReportIsCoherent
  <2>4. r.target = None
    BY <2>1, ReportCoheres DEF ReportIsCoherent
  <2> QED BY <2>2, <2>3, <2>4
<1>8. \A k \in Inventory(d) : k.key = Key(r) => s \in k.statuses /\ r.status \in k.statuses
  BY <1>1, <1>4, <1>5, <1>6, KeyHasStatuses
<1> QED BY <1>7, <1>8

\* What a voting says is joined or not, and to one division.
LEMMA JoinIsNotMisreported ==
  ASSUME NEW d \in Documents, NEW o \in OwnerSets, NEW r \in Report(d, o),
         r.slot \in {"result", "outcome", "count"},
         NEW i \in Inventory(d), i.key = Key(r)
  PROVE  i.statuses = {r.status}
<1>1. ASSUME NEW v, NEW slot, NEW node, NEW raw, NEW known,
             Key(r) = <<slot, node, raw>>, r.status = Joined(d, v, slot, node, raw, known).status,
             known \in {{v.href}, Outcomes, CountKinds, {}},
             Item(slot, node, raw, JoinStatuses(d, v, raw, known)) \in Inventory(d)
      PROVE  i.statuses = {r.status}
  <2> DEFINE j == Item(slot, node, raw, JoinStatuses(d, v, raw, known))
  <2>1. j.key = Key(r) /\ j.statuses = JoinStatuses(d, v, raw, known) /\ j \in Inventory(d)
    BY <1>1, ItemFields
  <2> HIDE DEF j
  <2>2. i.statuses = j.statuses
    BY <2>1, KeyHasStatuses
  <2> QED BY <1>1, <2>1, <2>2, JoinedStatus
<1>2. CASE r.slot = "result"
  <2>1. PICK v \in d.votings : r = Joined(d, v, "result", v.id, v.href, {v.href})
    BY <1>2, SlotsOfReport DEF Groups
  <2>2. Item("result", v.id, v.href, JoinStatuses(d, v, v.href, {v.href})) \in Inventory(d)
    BY ItemsOfInventory
  <2>6. Key(r) = <<"result", v.id, v.href>>
    <3>1. r.slot = "result" /\ r.node = v.id /\ r.raw = v.href
      BY <2>1, JoinedShape
    <3> QED BY <3>1 DEF Key
  <2>3. /\ r.status = Joined(d, v, "result", v.id, v.href, {v.href}).status
        /\ {v.href} \in {{v.href}, Outcomes, CountKinds, {}}
    BY <2>1
  <2> QED BY <1>1, <2>2, <2>3, <2>6, Zenon
<1>3. CASE r.slot = "outcome"
  <2>1. PICK v \in d.votings : r = Joined(d, v, "outcome", v.id, v.outcome, Outcomes)
    BY <1>3, SlotsOfReport DEF Groups
  <2>2. Item("outcome", v.id, v.outcome, JoinStatuses(d, v, v.outcome, Outcomes)) \in Inventory(d)
    BY ItemsOfInventory
  <2>6. Key(r) = <<"outcome", v.id, v.outcome>>
    <3>1. r.slot = "outcome" /\ r.node = v.id /\ r.raw = v.outcome
      BY <2>1, JoinedShape
    <3> QED BY <3>1 DEF Key
  <2>3. /\ r.status = Joined(d, v, "outcome", v.id, v.outcome, Outcomes).status
        /\ Outcomes \in {{v.href}, Outcomes, CountKinds, {}}
    BY <2>1
  <2> QED BY <1>1, <2>2, <2>3, <2>6, Zenon
<1>4. CASE r.slot = "count"
  <2>1. PICK v \in d.votings : \E c \in v.counts : r = CountRow(d, v, c)
    BY <1>4, SlotsOfReport DEF Groups
  <2>2. PICK c \in v.counts : r = CountRow(d, v, c)
    BY <2>1
  <2>3. r.status = Joined(d, v, "count", c.id, c.kind, CountKinds).status
    BY <2>2 DEF CountRow, Joined, Deferred, ReferenceRow
  <2>4. Item("count", c.id, c.kind, JoinStatuses(d, v, c.kind, CountKinds)) \in Inventory(d)
    BY ItemsOfInventory
  <2>6. Key(r) = <<"count", c.id, c.kind>>
    <3>1. r.slot = "count" /\ r.node = c.id /\ r.raw = c.kind
      BY <2>2, CountRowShape
    <3> QED BY <3>1 DEF Key
  <2>5. CountKinds \in {{v.href}, Outcomes, CountKinds, {}}
    OBVIOUS
  <2> QED BY <1>1, <2>3, <2>4, <2>5, <2>6, Zenon
<1> QED BY <1>2, <1>3, <1>4

\* The row r and its place among the others, misreported with an edge that the
\* rest of the report accounts for: another row of its slot and subject names it.
LEMMA MisreportHasDouble ==
  ASSUME NEW d \in Documents, NEW o \in OwnerSets, NEW r \in Report(d, o), NEW s, NEW t,
         <<s, t>> # <<r.status, r.target>>, s = "resolved" \/ r.status = "resolved",
         r.slot \in {"speaker", "askedBy", "term", "body"} \cup Groups,
         LET q == Misreported(r, s, t) IN
         ExpectedEdges((Report(d, o) \ {r}) \cup {q}) = Emitted(d, o)
  PROVE  \E y \in Report(d, o) :
           /\ y # r /\ y.slot = r.slot /\ y.about = r.about /\ y.status = "resolved"
           /\ y.target \in {r.target, t}
<1> DEFINE R == Report(d, o)
           q == Misreported(r, s, t)
           Q == (R \ {r}) \cup {q}
<1>1. q.slot = r.slot /\ q.about = r.about /\ q.status = s /\ q.target = t
  BY MisreportedFields
<1>2. ExpectedEdges(Q) = ExpectedEdges(R)
  BY EmittedIsExpected
<1>3. \A y \in R : y.status = "resolved" /\ y.slot = "count" => y.raw \in CountKinds
  BY ResolvedRow DEF Groups
<1>4. r \in R /\ q \in Q /\ \A y \in Q : y = q \/ (y \in R /\ y # r)
  OBVIOUS
<1> HIDE DEF R, q, Q
<1>5. CASE s = "resolved"
  <2>1. <<q.about, q.slot, q.target>> \in EdgesOf(q)
    BY <1>1 DEF EdgesOf, Groups
  <2>2. <<q.about, q.slot, q.target>> \in ExpectedEdges(Q)
    BY <1>1, <1>4, <1>5, <2>1, ExpectedIsOfRows
  <2>3. PICK y \in R : y.status = "resolved" /\ <<q.about, q.slot, q.target>> \in EdgesOf(y)
    BY <1>2, <2>2, ExpectedIsOfRows
  <2>4. y.slot = q.slot /\ y.about = q.about /\ y.target = q.target
    BY <1>1, <1>3, <2>3, EdgeOfSlot
  <2>5. y # r
    BY <1>1, <1>5, <2>3, <2>4
  <2> QED BY <1>1, <1>5, <2>3, <2>4, <2>5 DEF R
<1>6. CASE s # "resolved"
  <2>0. r.status = "resolved"
    BY <1>6
  <2>1. <<r.about, r.slot, r.target>> \in EdgesOf(r)
    BY DEF EdgesOf, Groups
  <2>2. <<r.about, r.slot, r.target>> \in ExpectedEdges(R)
    BY <1>4, <2>0, <2>1, ExpectedIsOfRows
  <2>3. PICK y \in Q : y.status = "resolved" /\ <<r.about, r.slot, r.target>> \in EdgesOf(y)
    BY <1>2, <2>2, ExpectedIsOfRows
  <2>4. y \in R /\ y # r
    BY <1>1, <1>4, <1>6, <2>3
  <2>5. y.slot = r.slot /\ y.about = r.about /\ y.target = r.target
    BY <1>3, <2>3, <2>4, EdgeOfSlot
  <2> QED BY <2>0, <2>3, <2>4, <2>5 DEF R
<1> QED BY <1>5, <1>6

\* A misreported row is refused, unless it is a vote that another one of its side
\* and division hides.
LEMMA MisreportIsRefused ==
  ASSUME NEW d \in Documents, NEW o \in OwnerSets, NEW r \in Report(d, o), NEW s, NEW t,
         <<s, t>> # <<r.status, r.target>>,
         LET q == Misreported(r, s, t)
         IN Validates(d, o, (Report(d, o) \ {r}) \cup {q}, Emitted(d, o))
  PROVE  \E b, c \in Ballots(d) :
           /\ b # c /\ b[1] = c[1] /\ d.kind[b[2]] = d.kind[c[2]]
           /\ r = BallotRow(d, o, b)
           /\ BallotRow(d, o, c).target \in {r.target, t} \ {None}
<1> DEFINE q == Misreported(r, s, t)
           Q == (Report(d, o) \ {r}) \cup {q}
<1>1. /\ q.slot = r.slot /\ q.about = r.about /\ q.status = s /\ q.target = t
      /\ q \in Q
  BY MisreportedFields
<1>2. ReportIsCoherent(Q) /\ EdgesMatchReport(Q, Emitted(d, o)) /\ InventoryIsCovered(d, Q)
  BY DEF Validates
<1>3. s = "resolved" \/ r.status = "resolved"
  BY <1>2, MisreportResolves
<1>4. \E i \in Inventory(d) : i.key = Key(r) /\ s \in i.statuses
  <2>1. \E i \in Inventory(d) : i.key = Key(r)
    BY RowHasItem
  <2> QED BY <1>2, <2>1, MisreportResolves
<1>5. ExpectedEdges(Q) = Emitted(d, o)
  BY <1>2 DEF EdgesMatchReport
<1>6. CASE r.slot \in {"speaker", "askedBy", "term", "body"} \cup Groups
  <2>1. PICK y \in Report(d, o) :
          /\ y # r /\ y.slot = r.slot /\ y.about = r.about /\ y.status = "resolved"
          /\ y.target \in {r.target, t}
    BY <1>3, <1>5, <1>6, MisreportHasDouble
  <2>2. r.slot \in Groups
    BY <1>6, <2>1, RowIsSole
  <2>3. PICK b \in Ballots(d) : r = BallotRow(d, o, b)
    BY <2>2, SlotsOfReport DEF Groups
  <2>4. PICK c \in Ballots(d) : y = BallotRow(d, o, c)
    BY <2>1, <2>2, SlotsOfReport DEF Groups
  <2>5. b # c /\ b[1] = c[1] /\ d.kind[b[2]] = d.kind[c[2]]
    BY <2>1, <2>3, <2>4, BallotRowShape
  <2>6. y.target # None
    BY <2>1, ReportCoheres DEF ReportIsCoherent
  <2> QED BY <2>1, <2>3, <2>4, <2>5, <2>6
<1>7. CASE r.slot \in Deferrals
  <2>1. r.status # "resolved"
    BY <1>7, ResolvedRow DEF Deferrals, Groups
  <2>2. s # "resolved"
    BY <1>1, <1>2, <1>7 DEF EdgesMatchReport
  <2> QED BY <1>3, <2>1, <2>2
<1>8. CASE r.slot \in {"result", "outcome", "count"}
  <2>1. s = r.status
    BY <1>4, <1>8, JoinIsNotMisreported
  <2>2. s = "resolved" /\ r.status = "resolved"
    BY <1>3, <2>1
  <2>3. q.about = t
    BY <1>1, <1>2, <1>8, <2>2 DEF EdgesMatchReport
  <2>4. r.about = r.target
    BY <1>8, <2>2, ResolvedRow DEF Groups
  <2> QED BY <1>1, <2>1, <2>3, <2>4
<1>9. r.slot \in {"speaker", "askedBy", "term", "body"} \cup Groups \cup Deferrals
              \cup {"result", "outcome", "count"}
  BY SlotsOfReport DEF Deferrals
<1> QED BY <1>6, <1>7, <1>8, <1>9

----------------------------------------------------------------------------
\* The specification

Statuses == {"resolved", "unresolved", "absent", "malformed"}

\* What became of a transformation: nothing, or one alteration.
Untouched == rows = Report(doc, owners) /\ edges = Emitted(doc, owners)

AlteredOnce ==
  \/ /\ edges = Emitted(doc, owners)
     /\ \E r \in Report(doc, owners) : rows = Report(doc, owners) \ {r}
  \/ /\ rows = Report(doc, owners)
     /\ \E e \in Emitted(doc, owners) : edges = Emitted(doc, owners) \ {e}
  \/ /\ edges = Emitted(doc, owners)
     /\ \E r \in Report(doc, owners), s \in Statuses :
          \E t \in owners.members \cup {r.target, None} :
            /\ <<s, t>> # <<r.status, r.target>>
            /\ rows = (Report(doc, owners) \ {r}) \cup {Misreported(r, s, t)}

\* The verdict is the validator's on what is left of the transformation.
ValidationInv ==
  /\ doc \in Documents /\ owners \in OwnerSets /\ altered \in BOOLEAN
  /\ stage \in {"source", "failed", "transformed", "accepted", "refused"}
  /\ stage \in {"source", "failed"} => ~altered
  /\ stage \in {"transformed", "accepted", "refused"} /\ ~altered => Untouched
  /\ altered => AlteredOnce
  /\ stage = "accepted" => Validates(doc, owners, rows, edges)
  /\ stage = "refused" => ~Validates(doc, owners, rows, edges)

LEMMA ValidationInvIsInductive == ValidationSpec => []ValidationInv
<1>1. ValidationInit => ValidationInv
  BY DEF ValidationInit, ValidationInv
<1>2. ValidationInv /\ [ValidationNext]_validationVars => ValidationInv'
  <2> SUFFICES ASSUME ValidationInv, [ValidationNext]_validationVars PROVE ValidationInv'
    OBVIOUS
  <2>1. CASE Transform
    BY <2>1 DEF Transform, ValidationInv, Untouched
  <2>2. ASSUME NEW left, NEW kept, Alter(left, kept),
               \/ \E r \in rows : left = rows \ {r} /\ kept = edges
               \/ \E e \in edges : left = rows /\ kept = edges \ {e}
               \/ /\ kept = edges
                  /\ \E r \in rows, s \in Statuses :
                       \E t \in owners.members \cup {r.target, None} :
                         /\ <<s, t>> # <<r.status, r.target>>
                         /\ left = (rows \ {r}) \cup {Misreported(r, s, t)}
        PROVE  ValidationInv'
    <3>1. Untouched /\ stage = "transformed" /\ ~altered
      BY <2>2 DEF Alter, ValidationInv
    <3>2. /\ rows' = left /\ edges' = kept /\ altered' = TRUE
          /\ doc' = doc /\ owners' = owners /\ stage' = stage
      BY <2>2 DEF Alter
    <3>3. AlteredOnce'
      <4>1. CASE \E r \in rows : left = rows \ {r} /\ kept = edges
        BY <3>1, <3>2, <4>1 DEF Untouched, AlteredOnce
      <4>2. CASE \E e \in edges : left = rows /\ kept = edges \ {e}
        BY <3>1, <3>2, <4>2 DEF Untouched, AlteredOnce
      <4>3. CASE /\ kept = edges
                 /\ \E r \in rows, s \in Statuses :
                      \E t \in owners.members \cup {r.target, None} :
                        /\ <<s, t>> # <<r.status, r.target>>
                        /\ left = (rows \ {r}) \cup {Misreported(r, s, t)}
        BY <3>1, <3>2, <4>3 DEF Untouched, AlteredOnce
      <4> QED BY <2>2, <4>1, <4>2, <4>3
    <3> QED BY <3>1, <3>2, <3>3 DEF ValidationInv
  <2>3. CASE LoseRow
    BY <2>2, <2>3 DEF LoseRow
  <2>4. CASE LoseEdge
    BY <2>2, <2>4 DEF LoseEdge
  <2>5. CASE Misreport
    <3>1. PICK r \in rows, s \in Statuses :
            \E t \in IF s = "resolved" THEN (owners.members \cup {r.target}) \ {None} ELSE {None} :
              /\ <<s, t>> # <<r.status, r.target>>
              /\ Alter((rows \ {r}) \cup {Misreported(r, s, t)}, edges)
      BY <2>5 DEF Misreport, Statuses
    <3>2. PICK t \in owners.members \cup {r.target, None} :
            /\ <<s, t>> # <<r.status, r.target>>
            /\ Alter((rows \ {r}) \cup {Misreported(r, s, t)}, edges)
      BY <3>1
    <3> DEFINE left == (rows \ {r}) \cup {Misreported(r, s, t)}
    <3>3. left = (rows \ {r}) \cup {Misreported(r, s, t)}
      OBVIOUS
    <3> HIDE DEF left
    <3> QED BY <2>2, <3>2, <3>3
  <2>6. CASE Validate
    BY <2>6 DEF Validate, ValidationInv, Untouched, AlteredOnce
  <2>7. CASE UNCHANGED validationVars
    BY <2>7 DEF validationVars, ValidationInv, Untouched, AlteredOnce
  <2> QED BY <2>1, <2>3, <2>4, <2>5, <2>6, <2>7 DEF ValidationNext
<1> QED BY <1>1, <1>2, PTL DEF ValidationSpec

\* The transform and the validator agree on a document: it is refused if and only
\* if it is contested.
THEOREM ContestedIsRefused == ValidationSpec => []RefusedIsContested
<1>1. ValidationInv => RefusedIsContested
  <2> SUFFICES ASSUME ValidationInv, stage \in {"accepted", "refused"}, ~altered
               PROVE  (stage = "refused") = Contested
    BY DEF RefusedIsContested
  <2>1. Validates(doc, owners, rows, edges) <=> ~Contested
    BY ReadingsAgree DEF ValidationInv, Untouched
  <2>2. CASE stage = "accepted"
    BY <2>1, <2>2 DEF ValidationInv, Contested
  <2>3. CASE stage = "refused"
    BY <2>1, <2>3 DEF ValidationInv
  <2> QED BY <2>2, <2>3
<1> QED BY <1>1, ValidationInvIsInductive, PTL

\* No row and no edge of a transformation is lost or altered unnoticed, but one of
\* two votes of a side that name one Member.
THEOREM AlterationIsRefused == ValidationSpec => []AlteredIsRefused
<1>1. ValidationInv => AlteredIsRefused
  <2> SUFFICES ASSUME ValidationInv, altered, stage = "accepted" PROVE AlteredIsRefused
    BY DEF AlteredIsRefused
  <2>0. /\ doc \in Documents /\ owners \in OwnerSets
        /\ Validates(doc, owners, rows, edges) /\ AlteredOnce
    BY DEF ValidationInv
  <2>1. CASE \E r \in Report(doc, owners) : rows = Report(doc, owners) \ {r}
    BY <2>0, <2>1, LostRowIsRefused DEF Validates
  <2>2. CASE /\ rows = Report(doc, owners)
             /\ \E e \in Emitted(doc, owners) : edges = Emitted(doc, owners) \ {e}
    BY <2>0, <2>2, EmittedIsExpected DEF Validates, EdgesMatchReport
  <2>3. CASE /\ edges = Emitted(doc, owners)
             /\ \E r \in Report(doc, owners), s \in Statuses :
                  \E t \in owners.members \cup {r.target, None} :
                    /\ <<s, t>> # <<r.status, r.target>>
                    /\ rows = (Report(doc, owners) \ {r}) \cup {Misreported(r, s, t)}
    <3>1. PICK r \in Report(doc, owners), s \in Statuses :
            \E t \in owners.members \cup {r.target, None} :
              /\ <<s, t>> # <<r.status, r.target>>
              /\ rows = (Report(doc, owners) \ {r}) \cup {Misreported(r, s, t)}
      BY <2>3
    <3>2. PICK t : /\ <<s, t>> # <<r.status, r.target>>
                   /\ rows = (Report(doc, owners) \ {r}) \cup {Misreported(r, s, t)}
      BY <3>1
    <3>3. PICK b \in Ballots(doc), c \in Ballots(doc) :
            /\ b # c /\ b[1] = c[1] /\ doc.kind[b[2]] = doc.kind[c[2]]
            /\ r = BallotRow(doc, owners, b)
            /\ BallotRow(doc, owners, c).target \in {r.target, t} \ {None}
      BY <2>0, <2>3, <3>2, MisreportIsRefused
    <3> DEFINE q == Misreported(r, s, t)
               voted == BallotRow(doc, owners, b)
    <3>4. q.status = s /\ q.target = t /\ Key(q) = Key(r) /\ q.about = r.about /\ r.about = b[1]
      BY <3>3, MisreportedFields, BallotRowShape
    <3>5. q \in rows
      BY <3>2
    <3> HIDE DEF q
    <3>6. /\ b # c /\ b[1] = c[1] /\ doc.kind[b[2]] = doc.kind[c[2]]
          /\ q # voted /\ Key(q) = Key(voted) /\ q.about = b[1]
          /\ rows = (Report(doc, owners) \ {voted}) \cup {q}
          /\ BallotRow(doc, owners, c).target \in {voted.target, q.target} \ {None}
      BY <3>2, <3>3, <3>4 DEF q
    <3> QED BY <2>3, <3>5, <3>6 DEF AlteredIsRefused
  <2> QED BY <2>0, <2>1, <2>2, <2>3 DEF AlteredOnce
<1> QED BY <1>1, ValidationInvIsInductive, PTL

----------------------------------------------------------------------------
\* DegradedAlerts

USE ThresholdIsPositive, AlertBounds, NoEventIsFresh, EventsAreNotEpisodes

LEMMA TypeInit == Init => TypeOK
BY DEF Init, TypeOK, Episode, Run

\* A delivery adds one to what it delivers and nothing to the rest.
LEMMA DeliverType ==
  ASSUME TypeOK, NEW X, Deliver(X)
  PROVE  /\ delivered' \in [Episode \cup FailedEvent -> Nat]
         /\ \A x \in Episode \cup FailedEvent :
              delivered'[x] = IF x \in X THEN delivered[x] + 1 ELSE delivered[x]
BY DEF TypeOK, Deliver

\* Types are kept by every step.
LEMMA TypeStep == TypeOK /\ [Next]_vars => TypeOK'
<1> SUFFICES ASSUME TypeOK, [Next]_vars PROVE TypeOK'
  OBVIOUS
<1> USE DEF Fault
<1>1. ASSUME NEW s \in Source, NEW o \in Outcome, EndRun(s, o) PROVE TypeOK'
  <2>1. Append(history[s], o) \in Seq(Outcome) /\ Len(Append(history[s], o)) = Len(history[s]) + 1
    BY DEF TypeOK
  <2>2. history' \in [Source -> Seq(Outcome)]
    BY <1>1, <2>1 DEF EndRun, TypeOK
  <2>3. \A x \in Source : Len(history'[x]) <= MaxRuns
    <3> TAKE x \in Source
    <3>1. Len(history[x]) \in Nat
      BY DEF TypeOK
    <3> QED
      BY <1>1, <2>1, <3>1 DEF EndRun, TypeOK
  <2> QED
    BY <1>1, <2>2, <2>3 DEF EndRun, TypeOK, stateVars, checkVars
<1>2. CASE Check
  BY <1>2 DEF Check, Candidates, TypeOK
<1>3. ASSUME NEW e \in FailedEvent, TakeEvent(e) PROVE TypeOK'
  BY <1>3 DEF TakeEvent, TypeOK, stateVars
<1>4. CASE DispatchEvent
  BY <1>4, DeliverType DEF DispatchEvent, TypeOK, stateVars
<1>5. CASE DispatchRemoved
  BY <1>5 DEF DispatchRemoved, Exit, TypeOK, stateVars
<1>6. CASE RemoveEvent
  BY <1>6 DEF RemoveEvent, TypeOK, stateVars
<1>7. CASE DispatchPending
  BY <1>7, DeliverType DEF DispatchPending, TypeOK, stateVars
<1>8. CASE NothingPending
  BY <1>8 DEF NothingPending, Exit, TypeOK, stateVars
<1>9. CASE RecordDelivery
  <2>1. ASSUME NEW s \in Source
        PROVE  (IF \E n \in Run : <<s, n>> \in pending
                  THEN CHOOSE n \in Run : <<s, n>> \in pending ELSE alerted[s]) \in Run \cup {0}
    BY DEF TypeOK
  <2>2. alerted' \in [Source -> Run \cup {0}]
    BY <1>9, <2>1 DEF RecordDelivery
  <2> QED
    BY <1>9, <2>2 DEF RecordDelivery, TypeOK
<1>10. CASE RemovePending
  BY <1>10 DEF RemovePending, Exit, TypeOK
<1>11. CASE CheckFails
  BY <1>11 DEF CheckFails, TypeOK, stateVars, checkVars
<1>12. CASE HookFails
  <2>1. delivered' \in [Episode \cup FailedEvent -> Nat]
    BY <1>12, DeliverType DEF HookFails, TypeOK
  <2> QED
    BY <1>12, <2>1 DEF HookFails, Exit, TypeOK, stateVars
<1>13. CASE CheckerDies
  BY <1>13 DEF CheckerDies, Exit, TypeOK, stateVars
<1>14. ASSUME NEW e \in FailedEvent, QueueEvent(e) PROVE TypeOK'
  BY <1>14 DEF QueueEvent, TypeOK, stateVars, checkVars
<1>15. ASSUME NEW e \in FailedEvent, ReportEvent(e) PROVE TypeOK'
  <2>1. delivered' \in [Episode \cup FailedEvent -> Nat]
    BY <1>15, DeliverType DEF ReportEvent
  <2> QED
    BY <1>15, <2>1 DEF ReportEvent, TypeOK, stateVars, checkVars
<1>16. ASSUME NEW e \in FailedEvent, RemoveReported(e) PROVE TypeOK'
  BY <1>16 DEF RemoveReported, TypeOK, stateVars, checkVars
<1>17. ASSUME NEW e \in FailedEvent, ReportFails(e) PROVE TypeOK'
  <2>1. delivered' \in [Episode \cup FailedEvent -> Nat]
    BY <1>17, DeliverType DEF ReportFails, TypeOK
  <2>2. faults' \in 0..MaxFaults
    BY <1>17 DEF ReportFails, TypeOK
  <2> QED
    BY <1>17, <2>1, <2>2 DEF ReportFails, TypeOK, stateVars, checkVars
<1>18. ASSUME NEW e \in FailedEvent, ReporterDies(e) PROVE TypeOK'
  BY <1>18 DEF ReporterDies, TypeOK, stateVars, checkVars
<1>19. CASE UNCHANGED vars
  BY <1>19 DEF vars, TypeOK, stateVars, checkVars
<1> QED
  BY <1>1, <1>2, <1>3, <1>4, <1>5, <1>6, <1>7, <1>8, <1>9, <1>10, <1>11, <1>12,
     <1>13, <1>14, <1>15, <1>16, <1>17, <1>18, <1>19 DEF Next, Checker

\* The variables keep their types, whatever fails or dies.
THEOREM TypeCorrect == Spec => []TypeOK
BY TypeInit, TypeStep, PTL DEF Spec

----------------------------------------------------------------------------
\* What the locations of the processes know of the deliveries.
HandedOver ==
  /\ pc \in {"record", "unlink"} => \A x \in pending : delivered[x] > 0
  /\ pc = "remove" => delivered[event] > 0
  /\ \A e \in FailedEvent : reporter[e] = "remove" => delivered[e] > 0

\* Nothing is silenced or removed without a delivery.
DeliveryInv == HandedOver /\ AlertedWasDelivered /\ FailureIsKeptUntilDelivered

\* What was delivered stays delivered.
LEMMA DeliveredStays ==
  ASSUME TypeOK, [Next]_vars
  PROVE  \A x \in Episode \cup FailedEvent : delivered[x] > 0 => delivered'[x] > 0
<1> SUFFICES ASSUME NEW x \in Episode \cup FailedEvent, delivered[x] > 0
             PROVE  delivered'[x] > 0
  OBVIOUS
<1>1. delivered[x] \in Nat
  BY DEF TypeOK
<1>2. \/ Deliver({event})
      \/ Deliver(pending)
      \/ \E e \in FailedEvent : Deliver({e})
      \/ UNCHANGED delivered
  BY DEF Next, Checker, vars, EndRun, Check, TakeEvent, DispatchEvent, DispatchRemoved,
         RemoveEvent, DispatchPending, NothingPending, RecordDelivery, RemovePending,
         CheckFails, HookFails, CheckerDies, QueueEvent, ReportEvent, RemoveReported,
         ReportFails, ReporterDies
<1>3. CASE Deliver({event})
  BY <1>1, <1>3, DeliverType
<1>4. CASE Deliver(pending)
  BY <1>1, <1>4, DeliverType
<1>5. ASSUME NEW e \in FailedEvent, Deliver({e}) PROVE delivered'[x] > 0
  BY <1>1, <1>5, DeliverType
<1>6. CASE UNCHANGED delivered
  BY <1>6
<1> QED
  BY <1>2, <1>3, <1>4, <1>5, <1>6

LEMMA DeliveryInit == Init => DeliveryInv
BY DEF Init, DeliveryInv, HandedOver, AlertedWasDelivered, FailureIsKeptUntilDelivered

LEMMA DeliveryStep == TypeOK /\ DeliveryInv /\ [Next]_vars => DeliveryInv'
<1> SUFFICES ASSUME TypeOK, DeliveryInv, [Next]_vars PROVE DeliveryInv'
  OBVIOUS
<1> USE DEF DeliveryInv, HandedOver, AlertedWasDelivered, FailureIsKeptUntilDelivered
<1>a. \A x \in Episode \cup FailedEvent : delivered[x] > 0 => delivered'[x] > 0
  BY DeliveredStays
<1>b. \A s \in Source : alerted[s] # 0 => <<s, alerted[s]>> \in Episode
  BY DEF TypeOK, Episode
<1>c. pending \subseteq Episode /\ (pc \in {"dispatch", "remove"} => event \in FailedEvent)
  BY DEF TypeOK
<1>1. ASSUME NEW s \in Source, NEW o \in Outcome, EndRun(s, o) PROVE DeliveryInv'
  BY <1>1 DEF EndRun, stateVars, checkVars
<1>2. CASE Check
  BY <1>2 DEF Check
<1>3. ASSUME NEW e \in FailedEvent, TakeEvent(e) PROVE DeliveryInv'
  BY <1>3 DEF TakeEvent, stateVars
<1>4. CASE DispatchEvent
  <2>1. delivered'[event] > 0
    BY <1>4, DeliverType DEF DispatchEvent, TypeOK
  <2> QED
    BY <1>4, <2>1, <1>a, <1>b DEF DispatchEvent, stateVars
<1>5. CASE DispatchRemoved
  BY <1>5 DEF DispatchRemoved, Exit, stateVars
<1>6. CASE RemoveEvent
  BY <1>6 DEF RemoveEvent, stateVars
<1>7. CASE DispatchPending
  <2>1. \A x \in pending : delivered'[x] > 0
    BY <1>7, <1>c, DeliverType DEF DispatchPending, TypeOK
  <2> QED
    BY <1>7, <2>1, <1>a, <1>b DEF DispatchPending, stateVars
<1>8. CASE NothingPending
  BY <1>8 DEF NothingPending, Exit, stateVars
<1>9. CASE RecordDelivery
  <2>1. ASSUME NEW s \in Source, alerted'[s] # 0 PROVE delivered'[<<s, alerted'[s]>>] > 0
    <3>1. CASE \E n \in Run : <<s, n>> \in pending
      <4>1. <<s, CHOOSE n \in Run : <<s, n>> \in pending>> \in pending
        BY <3>1
      <4> QED
        BY <1>9, <3>1, <4>1 DEF RecordDelivery, TypeOK
    <3>2. CASE ~ \E n \in Run : <<s, n>> \in pending
      BY <1>9, <2>1, <3>2 DEF RecordDelivery, TypeOK
    <3> QED
      BY <3>1, <3>2
  <2> QED
    BY <1>9, <2>1 DEF RecordDelivery
<1>10. CASE RemovePending
  BY <1>10 DEF RemovePending, Exit
<1>11. CASE CheckFails
  BY <1>11 DEF CheckFails, stateVars, checkVars
<1>12. CASE HookFails
  BY <1>12, <1>a, <1>b DEF HookFails, Exit, stateVars
<1>13. CASE CheckerDies
  BY <1>13 DEF CheckerDies, Exit, stateVars
<1>14. ASSUME NEW e \in FailedEvent, QueueEvent(e) PROVE DeliveryInv'
  BY <1>14 DEF QueueEvent, stateVars, checkVars, TypeOK
<1>15. ASSUME NEW e \in FailedEvent, ReportEvent(e) PROVE DeliveryInv'
  <2>1. delivered'[e] > 0
    BY <1>15, DeliverType DEF ReportEvent, TypeOK
  <2> QED
    BY <1>15, <2>1, <1>a, <1>b, <1>c DEF ReportEvent, stateVars, checkVars, TypeOK
<1>16. ASSUME NEW e \in FailedEvent, RemoveReported(e) PROVE DeliveryInv'
  BY <1>16 DEF RemoveReported, stateVars, checkVars, TypeOK
<1>17. ASSUME NEW e \in FailedEvent, ReportFails(e) PROVE DeliveryInv'
  BY <1>17, <1>a, <1>b, <1>c DEF ReportFails, stateVars, checkVars, TypeOK
<1>18. ASSUME NEW e \in FailedEvent, ReporterDies(e) PROVE DeliveryInv'
  BY <1>18 DEF ReporterDies, stateVars, checkVars, TypeOK
<1>19. CASE UNCHANGED vars
  BY <1>19 DEF vars, stateVars, checkVars
<1> QED
  BY <1>1, <1>2, <1>3, <1>4, <1>5, <1>6, <1>7, <1>8, <1>9, <1>10, <1>11, <1>12,
     <1>13, <1>14, <1>15, <1>16, <1>17, <1>18, <1>19 DEF Next, Checker

\* No streak is recorded as alerted before it was delivered.
THEOREM AlertedIsDelivered == Spec => []AlertedWasDelivered
<1>1. DeliveryInv => AlertedWasDelivered
  BY DEF DeliveryInv
<1> QED
  BY <1>1, TypeInit, TypeStep, DeliveryInit, DeliveryStep, PTL DEF Spec

\* No event of a failed unit loses its file before it was delivered.
THEOREM FailureIsKept == Spec => []FailureIsKeptUntilDelivered
<1>1. DeliveryInv => FailureIsKeptUntilDelivered
  BY DEF DeliveryInv
<1> QED
  BY <1>1, TypeInit, TypeStep, DeliveryInit, DeliveryStep, PTL DEF Spec

----------------------------------------------------------------------------
\* Run n of the history began a streak, which may have ended since.
BeganStreak(h, n) ==
  n \in 1..Len(h) /\ h[n] = "degraded" /\ (n > 1 => h[n - 1] # "degraded")

\* What is pending is newer than what its source was last alerted about.
OrderInv ==
  /\ \A x \in pending : BeganStreak(history[x[1]], x[2]) /\ alerted[x[1]] <= x[2]
  /\ \A x, y \in pending : x[1] = y[1] => x = y
  /\ \A s \in Source : alerted[s] # 0 => BeganStreak(history[s], alerted[s])

\* An episode with more deliveries than faults is settled: being recorded,
\* or recorded together with all that began before it.
BudgetInv ==
  /\ \A x \in pending : pc \notin {"record", "unlink"} => delivered[x] <= faults
  /\ \A x \in pending : pc = "unlink" => alerted[x[1]] = x[2]
  /\ \A x \in Episode \ pending : delivered[x] > faults => alerted[x[1]] >= x[2]

RepeatInv == OrderInv /\ BudgetInv /\ RepeatsNeedFaults

\* A streak lies behind everything that began one.
LEMMA StreakIsLatest ==
  ASSUME NEW h \in Seq(Outcome), NEW n, NEW k, StreakFrom(h, n), BeganStreak(h, k)
  PROVE  k <= n
BY DEF StreakFrom, BeganStreak

\* Appending an outcome leaves the beginnings of streaks where they are.
LEMMA BeginningsStay ==
  ASSUME NEW h \in Seq(Outcome), NEW o \in Outcome, NEW k, BeganStreak(h, k)
  PROVE  BeganStreak(Append(h, o), k)
BY DEF BeganStreak

LEMMA EventsLeaveEpisodes ==
  ASSUME TypeOK, NEW e \in FailedEvent, Deliver({e})
  PROVE  \A x \in Episode : delivered'[x] = delivered[x]
BY DeliverType

LEMMA RepeatInit == Init => RepeatInv
BY DEF Init, RepeatInv, OrderInv, BudgetInv, RepeatsNeedFaults, Episode, Run

LEMMA CandidatesAreFresh ==
  ASSUME TypeOK, RepeatInv
  PROVE  /\ \A x \in Candidates : /\ BeganStreak(history[x[1]], x[2])
                                  /\ alerted[x[1]] < x[2]
         /\ \A x, y \in Candidates : x[1] = y[1] => x = y
<1>1. ASSUME NEW x \in Candidates
      PROVE  /\ x \in Episode /\ x[1] \in Source /\ x[2] \in Run /\ x = <<x[1], x[2]>>
             /\ history[x[1]] \in Seq(Outcome)
             /\ StreakFrom(history[x[1]], x[2]) /\ alerted[x[1]] # x[2]
  BY DEF Candidates, EpisodeFrom, Episode, TypeOK
<1>2. ASSUME NEW x \in Candidates PROVE BeganStreak(history[x[1]], x[2])
  BY <1>1 DEF StreakFrom, BeganStreak
<1>3. ASSUME NEW x \in Candidates PROVE alerted[x[1]] < x[2]
  <2>1. alerted[x[1]] \in Nat /\ x[2] \in 1..MaxRuns
    BY <1>1 DEF TypeOK, Run
  <2>2. CASE alerted[x[1]] = 0
    BY <2>1, <2>2
  <2>3. CASE alerted[x[1]] # 0
    <3>1. BeganStreak(history[x[1]], alerted[x[1]])
      BY <1>1, <2>3 DEF RepeatInv, OrderInv
    <3>2. alerted[x[1]] <= x[2]
      BY <1>1, <3>1, StreakIsLatest
    <3> QED
      BY <1>1, <2>1, <3>2
  <2> QED
    BY <2>2, <2>3
<1>4. ASSUME NEW x \in Candidates, NEW y \in Candidates, x[1] = y[1] PROVE x = y
  <2>1. x[2] <= y[2] /\ y[2] <= x[2]
    BY <1>1, <1>2, <1>4, StreakIsLatest
  <2>2. x[2] \in Int /\ y[2] \in Int
    BY <1>1 DEF Run
  <2> QED
    BY <1>1, <1>4, <2>1, <2>2
<1> QED
  BY <1>2, <1>3, <1>4

LEMMA RepeatStep == TypeOK /\ RepeatInv /\ [Next]_vars => RepeatInv'
<1> SUFFICES ASSUME TypeOK, RepeatInv, [Next]_vars PROVE RepeatInv'
  OBVIOUS
<1> USE DEF RepeatInv, OrderInv, BudgetInv, RepeatsNeedFaults, Fault
<1>a. /\ \A x \in Episode : delivered[x] \in Nat /\ x[1] \in Source /\ x[2] \in Nat
      /\ \A s \in Source : alerted[s] \in Nat /\ history[s] \in Seq(Outcome)
      /\ pending \subseteq Episode /\ faults \in Nat
      /\ pc \in {"dispatch", "remove"} => event \in FailedEvent
  BY DEF TypeOK, Episode, Run
<1>1. ASSUME NEW s \in Source, NEW o \in Outcome, EndRun(s, o) PROVE RepeatInv'
  <2>1. \A x \in Source, k \in Nat : BeganStreak(history[x], k) => BeganStreak(history'[x], k)
    BY <1>1, <1>a, BeginningsStay DEF EndRun, TypeOK
  <2> QED
    BY <1>1, <1>a, <2>1 DEF EndRun, stateVars, checkVars
<1>2. CASE Check
  <2>1. CASE pending # {}
    BY <1>2, <2>1, <1>a DEF Check
  <2>2. CASE pending = {}
    <3>1. pending' = Candidates /\ pending' \subseteq Episode
      BY <1>2, <2>2 DEF Check, Candidates
    <3>2. \A x \in Candidates : delivered[x] <= faults
      BY <1>a, <2>2, <3>1, CandidatesAreFresh
    <3> QED
      BY <1>2, <2>2, <1>a, <3>1, <3>2, CandidatesAreFresh DEF Check
  <2> QED
    BY <2>1, <2>2
<1>3. ASSUME NEW e \in FailedEvent, TakeEvent(e) PROVE RepeatInv'
  BY <1>3, <1>a DEF TakeEvent, stateVars
<1>4. CASE DispatchEvent
  BY <1>4, <1>a, EventsLeaveEpisodes DEF DispatchEvent, stateVars
<1>5. CASE DispatchRemoved
  BY <1>5, <1>a DEF DispatchRemoved, Exit, stateVars
<1>6. CASE RemoveEvent
  BY <1>6, <1>a DEF RemoveEvent, stateVars
<1>7. CASE DispatchPending
  <2>1. /\ \A x \in Episode : delivered'[x] <= delivered[x] + 1 /\ delivered'[x] \in Nat
        /\ \A x \in Episode \ pending : delivered'[x] = delivered[x]
    BY <1>7, <1>a, DeliverType DEF DispatchPending
  <2>2. \A x \in Episode : delivered'[x] <= 1 + faults
    BY <1>7, <1>a, <2>1 DEF DispatchPending
  <2>3. OrderInv'
    BY <1>7 DEF DispatchPending, stateVars
  <2> QED
    BY <1>7, <1>a, <2>1, <2>2, <2>3 DEF DispatchPending, stateVars
<1>8. CASE NothingPending
  BY <1>8, <1>a DEF NothingPending, Exit, stateVars
<1>9. CASE RecordDelivery
  <2>1. ASSUME NEW x \in pending PROVE alerted'[x[1]] = x[2]
    <3>1. x[1] \in Source /\ x[2] \in Run /\ <<x[1], x[2]>> = x
      BY DEF TypeOK, Episode
    <3>2. \A n \in Run : <<x[1], n>> \in pending => n = x[2]
      BY <3>1
    <3> QED
      BY <1>9, <3>1, <3>2 DEF RecordDelivery
  <2>2. ASSUME NEW s \in Source
        PROVE  \/ alerted'[s] = alerted[s]
               \/ <<s, alerted'[s]>> \in pending
    BY <1>9 DEF RecordDelivery
  <2>3. ASSUME NEW s \in Source PROVE alerted'[s] >= alerted[s]
    <3>1. CASE <<s, alerted'[s]>> \in pending
      <4> DEFINE x == <<s, alerted'[s]>>
      <4>1. x[1] = s /\ x[2] = alerted'[s] /\ alerted[x[1]] <= x[2]
        BY <3>1
      <4>2. alerted'[s] \in Nat /\ alerted[s] \in Nat
        BY <1>a, <3>1, <4>1
      <4> QED
        BY <4>1, <4>2
    <3> QED
      BY <1>a, <2>2, <3>1
  <2>4. \A s \in Source : alerted'[s] # 0 => BeganStreak(history[s], alerted'[s])
    BY <2>2
  <2>5. \A s \in Source : alerted'[s] \in Nat
    BY <1>a, <2>2
  <2>6. /\ pending' = pending /\ history' = history /\ delivered' = delivered
        /\ faults' = faults /\ pc' = "unlink"
    BY <1>9 DEF RecordDelivery
  <2>8. \A x \in pending : BeganStreak(history[x[1]], x[2]) /\ alerted'[x[1]] <= x[2]
    BY <1>a, <2>1
  <2>9. OrderInv'
    BY <2>4, <2>6, <2>8
  <2>7. \A x \in Episode \ pending : delivered[x] > faults => alerted'[x[1]] >= x[2]
    BY <1>a, <2>3, <2>5
  <2> QED
    BY <1>a, <1>9, <2>1, <2>6, <2>7, <2>9 DEF RecordDelivery
<1>10. CASE RemovePending
  BY <1>10, <1>a DEF RemovePending, Exit
<1>11. CASE CheckFails
  BY <1>11, <1>a DEF CheckFails, stateVars, checkVars
<1>12. CASE HookFails
  <2>1. CASE pc = "dispatch"
    <3>1. \A x \in Episode : delivered'[x] = delivered[x]
      BY <1>12, <2>1, <1>a, EventsLeaveEpisodes DEF HookFails
    <3> QED
      BY <1>12, <2>1, <1>a, <3>1 DEF HookFails, Exit, stateVars
  <2>2. CASE pc = "queue"
    <3>1. /\ \A x \in Episode : delivered'[x] <= delivered[x] + 1
          /\ \A x \in Episode \ pending : delivered'[x] = delivered[x]
      BY <1>12, <2>2, <1>a, DeliverType DEF HookFails
    <3>2. \A x \in Episode : delivered'[x] \in Nat
      BY <1>12, <2>2, <1>a, DeliverType DEF HookFails
    <3>3. OrderInv'
      BY <1>12 DEF HookFails, stateVars
    <3>4. pc' = "idle" /\ pending' = pending /\ alerted' = alerted /\ faults' = faults + 1
      BY <1>12 DEF HookFails, Exit, stateVars
    <3>5. \A x \in pending : delivered'[x] <= faults'
      BY <2>2, <1>a, <3>1, <3>2, <3>4
    <3>6. \A x \in Episode : delivered'[x] <= 1 + faults'
      BY <2>2, <1>a, <3>1, <3>2, <3>4
    <3>7. \A x \in Episode \ pending : delivered'[x] > faults' => alerted[x[1]] >= x[2]
      BY <1>a, <3>1, <3>4
    <3> QED
      BY <3>3, <3>4, <3>5, <3>6, <3>7
  <2> QED
    BY <1>12, <2>1, <2>2 DEF HookFails
<1>13. CASE CheckerDies
  BY <1>13, <1>a DEF CheckerDies, Exit, stateVars
<1>14. ASSUME NEW e \in FailedEvent, QueueEvent(e) PROVE RepeatInv'
  BY <1>14, <1>a DEF QueueEvent, stateVars, checkVars
<1>15. ASSUME NEW e \in FailedEvent, ReportEvent(e) PROVE RepeatInv'
  BY <1>15, <1>a, EventsLeaveEpisodes DEF ReportEvent, stateVars, checkVars
<1>16. ASSUME NEW e \in FailedEvent, RemoveReported(e) PROVE RepeatInv'
  BY <1>16, <1>a DEF RemoveReported, stateVars, checkVars
<1>17. ASSUME NEW e \in FailedEvent, ReportFails(e) PROVE RepeatInv'
  <2>1. \A x \in Episode : delivered'[x] = delivered[x]
    BY <1>17, EventsLeaveEpisodes DEF ReportFails
  <2>2. faults' \in Nat /\ faults' >= faults
    BY <1>17, <1>a DEF ReportFails
  <2> QED
    BY <1>17, <1>a, <2>1, <2>2 DEF ReportFails, stateVars, checkVars
<1>18. ASSUME NEW e \in FailedEvent, ReporterDies(e) PROVE RepeatInv'
  BY <1>18, <1>a DEF ReporterDies, stateVars, checkVars
<1>19. CASE UNCHANGED vars
  BY <1>19 DEF vars, stateVars, checkVars
<1> QED
  BY <1>1, <1>2, <1>3, <1>4, <1>5, <1>6, <1>7, <1>8, <1>9, <1>10, <1>11, <1>12,
     <1>13, <1>14, <1>15, <1>16, <1>17, <1>18, <1>19 DEF Next, Checker

\* An episode is delivered at most once more than something failed or died.
THEOREM RepeatsAreFaults == Spec => []RepeatsNeedFaults
<1>1. RepeatInv => RepeatsNeedFaults
  BY DEF RepeatInv
<1> QED
  BY <1>1, TypeInit, TypeStep, RepeatInit, RepeatStep, PTL DEF Spec
=============================================================================
