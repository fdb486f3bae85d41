---------------------------- MODULE RepairSession ----------------------------
(***************************************************************************)
(* What the master and the nodes promise together: the groups of tasks are *)
(* repaired one after another in their order, each task of a group once,   *)
(* in any order, and all of them in the end                                *)
(* (src/src/task/controller.cc:52-67).                                     *)
(***************************************************************************)
EXTENDS Naturals

CONSTANTS Sizes,   \* the number of tasks of each group
          Precedes \* <<g, h>> for a group g that comes before h

VARIABLES begun, \* groups begun
          open   \* tasks of the last one that are not repaired yet

vars == <<begun, open>>

Init == begun = {} /\ open = {}

Begin == \E g \in DOMAIN Sizes \ begun :
  /\ open = {}
  /\ \A h \in DOMAIN Sizes : <<h, g>> \in Precedes => h \in begun
  /\ begun' = begun \cup {g}
  /\ open' = 1 .. Sizes[g]

Repair == \E t \in open : open' = open \ {t} /\ UNCHANGED begun

Next == Begin \/ Repair

Spec == Init /\ [][Next]_vars /\ WF_vars(Next)
=============================================================================
