------------------------------ MODULE MCEdgeScheduler ------------------------------
(* TLC instance of EdgeScheduler: two versions of one campaign. *)
EXTENDS EdgeScheduler

Item(id, priority, slots) == [id |-> id, priority |-> priority, slots |-> slots]

(* An ad in the morning, that is an interrupt too, and one that shares the slot;   *)
(* then an all-day list whose first ad has no material, and a new file for the    *)
(* interrupt's ad.                                                                *)
First == <<Item("a1", 1, {<<0, 0>>}), Item("a2", 1, {<<0, 0>>})>>
Second == <<Item("a3", 1, {AllDay}), Item("a1", 1, {AllDay}), Item("a2", 1, {<<1, 1>>})>>

TwoVersions ==
  <<[policy |-> 1, ads |-> <<[id |-> "a1", md5 |-> 1], [id |-> "a2", md5 |-> 1]>>,
     interrupts |-> {[ad |-> "a2", priority |-> 9]}, slots |-> BuildEdgeSchedule(First)],
    [policy |-> 2, ads |-> <<[id |-> "a1", md5 |-> 1], [id |-> "a2", md5 |-> 2]>>,
     interrupts |-> {}, slots |-> BuildEdgeSchedule(Second)]>>
================================================================================
