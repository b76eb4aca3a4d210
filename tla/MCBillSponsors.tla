--------------------------- MODULE MCBillSponsors ---------------------------
(* BillSponsors with a Bill whose sponsor gives way to another, which is   *)
(* listed twice, and a Bill without sponsors; two offices, two registries  *)
(* and a person whose holding is known to the day or to the second.        *)
EXTENDS BillSponsors
CONSTANTS b1, b2, minister, deputy, office, rival

Edition(order, disputed, dated) == [order |-> order, disputed |-> disputed, dated |-> dated]
Lists == [b \in {b1, b2} |->
  IF b = b1 THEN {Edition(<<minister>>, {}, TRUE),
                  Edition(<<deputy, deputy, minister>>, {minister}, FALSE)}
  ELSE {Edition(<<>>, {}, TRUE)}]
Offices == {[s \in {minister, deputy} |-> {office}],
            [s \in {minister, deputy} |-> IF s = minister THEN {office, rival} ELSE {}]}
Held == [s \in {minister, deputy} |->
  IF s = deputy THEN {{}}
  ELSE {{[office |-> office, exact |-> TRUE]}, {[office |-> office, exact |-> FALSE]}}]
Accepted == {[office |-> rival, holding |-> Nothing], [office |-> office, holding |-> office]}
=============================================================================
