--------------------------- MODULE MCDebateDocuments ---------------------------
(* Small documents for DebateBatches and DebateValidation: a speech and a     *)
(* question, a division in or out of another with its votings, one or two     *)
(* authors.                                                                   *)
EXTENDS DebateReferences, TLC

\* Documents, from an empty one.
Silent == [by |-> "absent", as |-> "absent", to |-> "absent", refersTo |-> "absent"]
Target(kind, href, at) == [kind |-> kind, href |-> href, at |-> at]
Persons == ("#a" :> Target("TLCPerson", "ann", None)) @@ ("#b" :> Target("TLCPerson", "bob", None))
           @@ ("#c" :> Target("TLCPerson", "ann", None)) @@ ("#m" :> Target("TLCRole", "absent", None))
Author(shape, key) == [shape |-> shape, key |-> key]
Anonymous == 1 :> Author("absent", None)

Document(kind, parent, attr, ids, votings, authors, venue) ==
  [nodes |-> DOMAIN kind, kind |-> kind, parent |-> parent, ids |-> ids, votings |-> votings,
   authors |-> authors, venue |-> venue,
   attr |-> [n \in DOMAIN kind |-> IF n \in DOMAIN attr THEN attr[n] ELSE Silent]]

Raw == {"absent", "malformed", "#", "#a", "#b", "#m", "#x"}

Speeches ==
  {Document([sec |-> "section", sp |-> "speech", q |-> "question", roll |-> "rollCall", spr |-> "speech"],
            [sec |-> "body", sp |-> "sec", q |-> "sec", roll |-> "sec", spr |-> "roll"],
            [sp |-> [Silent EXCEPT !.by = r, !.as = role], spr |-> [Silent EXCEPT !.by = r],
             q |-> [Silent EXCEPT !.by = s, !.to = role]], Persons, {}, Anonymous, "dail") :
     r, s \in Raw, role \in {"absent", "#m", "malformed"}}

\* A division d with lobbies g and h, below the body, the division o or its lobby
\* k; p votes in g and q in one of them.
Division(outer, lobby, place, p, q, votings) ==
  Document([o |-> "division", k |-> "ta", d |-> "division", g |-> "ta", h |-> "nil", p |-> "person",
            q |-> "person", s |-> "summary"],
           [o |-> "body", k |-> "o", d |-> outer, g |-> "d", h |-> "d", p |-> "g", q |-> lobby, s |-> place],
           [p |-> [Silent EXCEPT !.refersTo = p], q |-> [Silent EXCEPT !.refersTo = q]],
           Persons @@ ("#s" :> Target("summary", "absent", "s")), votings, Anonymous, "dail")

Voting(id, href, outcome, counts) ==
  [id |-> id, href |-> href, outcome |-> outcome, refersTo |-> "absent", counts |-> counts]
Count(id, kind, value) == [id |-> id, kind |-> kind, value |-> value]

CountSets ==
  {{}} \cup {{Count("c1", k, v), Count("c2", "#ta", "1")} :
               k \in {"#ta", "#nil", "#x", "absent"}, v \in {"absent", "1", "2", "negative", "malformed"}}

VotingSets ==
  {{Voting("v", href, outcome, counts)} :
     href \in {"absent", "malformed", "#", "#s", "#a", "#x"},
     outcome \in {"absent", "#carried", "#x"}, counts \in CountSets}
  \cup {{Voting("v", "#s", "#carried", {}), Voting("w", "#s", o, {Count("c1", "#ta", "1")})} :
          o \in {"absent", "#carried", "#lost"}}

Votes ==
  {Division(outer, lobby, "d", p, q, {}) :
     outer \in {"o", "k", "body"}, lobby \in {"g", "h"}, p, q \in {"#a", "#b", "#c", "#x"}}
  \cup {Division(outer, "h", place, "#a", "#b", votings) :
          outer \in {"o", "body"}, place \in {"body", "o", "d"}, votings \in VotingSets}

Authored ==
  {Document([sec |-> "section"], [sec |-> "body"], <<>>, Persons, {}, authors, venue) :
     venue \in {"dail", "seanad", "absent"},
     authors \in LET authors == {Author(s, None) : s \in {"absent", "malformed", "generic", "other"}}
                                 \cup {Author("term", k) : k \in {"dail33", "dail34", "seanad26"}}
                                 \cup {Author("committee", k) : k \in {"pac", "none"}}
                 IN [{1} -> authors] \cup [{1, 2} -> authors]}

MCDocuments == Speeches \cup Votes \cup Authored

MCOwners(members, terms, houses) ==
  [members |-> members, houses |-> houses, terms |-> terms, committees |-> "pac" :> "dail33"]
Terms == ("dail33" :> "dail") @@ ("seanad26" :> "seanad")
MCOwnerSets == {MCOwners({}, <<>>, {}), MCOwners({"ann"}, Terms, {"dail"}),
                MCOwners({"ann", "bob"}, Terms, {"dail", "seanad"})}
=============================================================================
