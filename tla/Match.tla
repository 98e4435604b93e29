------------------------------- MODULE Match --------------------------------
(***************************************************************************)
(* What a match promises, with positions, keys and frames abstracted away: *)
(* the health of each side and whether it is landing a blow.  Health goes  *)
(* down one step at a time and only under a blow being landed; a beaten    *)
(* side starts no blow and ends none; only the restart key revives, and it *)
(* revives the beaten only.                                                *)
(***************************************************************************)
EXTENDS Integers

CONSTANTS
  Side,     \* the two sides
  Full      \* the health a side starts with

VARIABLES health, landing

matchVars == <<health, landing>>

Foe(s) == CHOOSE t \in Side : t # s
Beaten(s) == health[s] = 0

Init ==
  /\ health = [s \in Side |-> Full]
  /\ landing = [s \in Side |-> FALSE]

(* What the blows in progress take, the beaten coming back if revived.     *)
Drain(revived) ==
  health' = [s \in Side |->
    IF Beaten(s) THEN IF revived THEN Full ELSE 0
    ELSE IF landing[Foe(s)] THEN health[s] - 1 ELSE health[s]]

(* Sides that still stand may start and end blows as they like.            *)
Blows ==
  \E next \in [Side -> BOOLEAN] :
    /\ \A s \in Side : Beaten(s) => next[s] = landing[s]
    /\ landing' = next

Exchange == Drain(FALSE) /\ Blows
Restart  == Drain(TRUE) /\ Blows

NewMatch ==
  /\ health' = [s \in Side |-> Full]
  /\ landing' = [s \in Side |-> FALSE]

Next == Exchange \/ Restart \/ NewMatch

Spec == Init /\ [][Next]_matchVars
=============================================================================
