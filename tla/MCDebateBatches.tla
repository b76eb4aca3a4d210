---------------------------- MODULE MCDebateBatches ----------------------------
(* DebateBatches on a small instance: one Work with two texts of one          *)
(* Expression and a text of another, a Work that validates only with later    *)
(* owners and has a misplaced text, and a document that cannot be read.       *)
EXTENDS DebateBatches, MCDebateDocuments

CONSTANTS first, revised, other, late, stray, broken, w1, w2, e1, e2, e3

MCWorkOf == [s \in Source |-> CASE s = broken -> Nothing [] s \in {late, stray} -> w2 [] OTHER -> w1]
MCExpressionOf == [s \in Source |-> CASE s = broken -> Nothing [] s \in {late, stray} -> e3
                                      [] s = other -> e2 [] OTHER -> e1]
Entry(s, n, out) == [source |-> s, bytes |-> n, withheld |-> out]
MCManifest == <<Entry(late, 2, FALSE), Entry(revised, 2, TRUE), Entry(first, 1, FALSE)>>
MCInventories ==
  UNION {[1..n -> {Entry(first, b, FALSE) : b \in 1..4}] : n \in 1..4}

\* What the sources of the batch say: `late' is of a committee whose term the
\* later owners add, in `first' the Member they add votes twice.
DocumentOf(s) ==
  IF s = late
  THEN Document([sec |-> "section"], [sec |-> "body"], <<>>, Persons, {}, 1 :> Author("committee", "pac"), "absent")
  ELSE Division("body", "h", "d", "#a", IF s = first THEN "#c" ELSE "#b", {Voting("v", "#s", "#carried", {})})
OwnersOf(edition) == IF edition = 0 THEN MCOwners({}, <<>>, {}) ELSE MCOwners({"ann"}, Terms, {"dail"})

MCRejected == {<<s, o>> \in Source \X Edition : 
  LET doc == DocumentOf(s) owned == OwnersOf(o)
  IN TransformFails(doc) \/ ~Validates(doc, owned, Report(doc, owned), Emitted(doc, owned))}
=============================================================================
