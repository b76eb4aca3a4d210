--------------------------- MODULE RecoveryLedger ---------------------------
(***************************************************************************)
(* What backup, restore and activation promise about the durable state.    *)
(* The pipeline changes it a store at a time; a recovery point is the      *)
(* whole of it at one instant; a state that is replaced is kept; and what  *)
(* takes its place is a recovery point, the kept state put back, or stores *)
(* created fresh.                                                          *)
(***************************************************************************)
CONSTANTS Store, Cell, NoFile, Fresh

VARIABLES current, points, kept

Nothing == [s \in Store |-> NoFile]

Init == /\ current = [s \in Store |-> Fresh]
        /\ points = {}
        /\ kept = {}

Advance == /\ \E s \in Store, c \in Cell : current' = [current EXCEPT ![s] = c]
           /\ UNCHANGED <<points, kept>>

Create == /\ current' = [s \in Store |-> IF current[s] = NoFile THEN Fresh ELSE current[s]]
          /\ UNCHANGED <<points, kept>>

TakePoint == /\ points' = points \cup {current}
             /\ UNCHANGED <<current, kept>>

Forget == /\ points' \subseteq points
          /\ UNCHANGED <<current, kept>>

SetAside == /\ current' = Nothing
            /\ kept' = kept \cup {current}
            /\ UNCHANGED points

Install == /\ current = Nothing
           /\ current' \in points
           /\ UNCHANGED <<points, kept>>

PutBack == /\ current = Nothing
           /\ current' \in kept
           /\ kept \ {current'} \subseteq kept' /\ kept' \subseteq kept
           /\ UNCHANGED points

Next == \/ Advance \/ Create \/ TakePoint \/ Forget
        \/ SetAside \/ Install \/ PutBack

Spec == Init /\ [][Next]_<<current, points, kept>>
=============================================================================
