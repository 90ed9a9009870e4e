------------------------------ MODULE EdgeSchedule ------------------------------
(* What a playlist of a campaign becomes on its way to a screen: pure operators. *)
(* _build_edge_schedule (campaigns.py) turns the playlist into time slots, and    *)
(* getNextAsset (EdgeManager.cpp) picks an ad from the slots' rows.  Times are    *)
(* numbers: "HH:MM:SS" strings of equal length compare as numbers do.             *)
EXTENDS Integers, Sequences, FiniteSetsExt, SequencesExt

CONSTANT LastTime     (* "23:59:59"; times are 0 .. LastTime                     *)

ASSUME LastTimeAssumption == LastTime \in Nat

Times == 0..LastTime
AllDay == <<0, LastTime>>        (* what "*" becomes                             *)
FallbackSlot == 99

(* isTimeInRange: both ends belong to the range; one that crosses midnight never *)
(* matches.                                                                       *)
InRange(now, range) == range[1] <= now /\ now <= range[2]

(* A finite set in the order of a relation, as sorted() and ORDER BY have it: the *)
(* n-th member is the one with n - 1 before it.                                   *)
Ranked(S, Ahead(_, _)) ==
  [n \in 1..Cardinality(S) |-> CHOOSE j \in S : Cardinality({i \in S : Ahead(i, j)}) = n - 1]
InOrder(places) == Ranked(places, <)

(* Ranges of a playlist's items, and one sorted before another as the strings are. *)
RangesOf(playlist) == UNION {playlist[i].slots : i \in DOMAIN playlist}
Earlier(r, s) == r[1] < s[1] \/ (r[1] = s[1] /\ r[2] < s[2])
SortedRanges(S) == Ranked(S, Earlier)

(* An ad that comes again is listed once, where it came first.                    *)
AdIds(items) ==
  LET nth == InOrder({i \in DOMAIN items : \A j \in 1..(i - 1) : items[j].id # items[i].id})
  IN [n \in DOMAIN nth |-> items[nth[n]].id]

ItemsIn(playlist, range) ==
  LET nth == InOrder({i \in DOMAIN playlist : range \in playlist[i].slots})
  IN [n \in DOMAIN nth |-> playlist[nth[n]]]

(* A slot of its own for each range: the ads that name it, with the highest of    *)
(* their priorities.                                                              *)
SlotOf(playlist, n, range) ==
  LET items == ItemsIn(playlist, range) IN
  [slot |-> n, range |-> range, list |-> AdIds(items),
   priority |-> Max({1} \cup {items[i].priority : i \in DOMAIN items})]

(* The slot that is always added, for the times no other covers: the ads that     *)
(* asked for the whole day, or else all of them, at priority 1.                   *)
FallbackOf(playlist) ==
  LET items == ItemsIn(playlist, AllDay) IN
  [slot |-> FallbackSlot, range |-> AllDay, priority |-> 1,
   list |-> AdIds(IF items = <<>> THEN playlist ELSE items)]

BuildEdgeSchedule(playlist) ==
  LET ranges == SortedRanges(RangesOf(playlist) \ {AllDay}) IN
  Append([n \in DOMAIN ranges |-> SlotOf(playlist, n, ranges[n])], FallbackOf(playlist))

--------------------------------------------------------------------------------
(* ORDER BY priority DESC; rows of equal priority come in the order of their      *)
(* insertion.  The rows whose range holds the time, in that order.                *)
Found(rows, now) == {i \in DOMAIN rows : InRange(now, rows[i].range)}

Before(rows, i, j) ==
  \/ rows[i].priority > rows[j].priority
  \/ rows[i].priority = rows[j].priority /\ i < j

ByPriority(rows, now) ==
  LET found == Found(rows, now)
      nth == Ranked(found, LAMBDA i, j : Before(rows, i, j))
  IN [n \in DOMAIN nth |-> rows[nth[n]]]

NothingFound == [ad |-> "none", slot |-> 0, policy |-> 0]

(* One turn of getNextAsset's loop over the rows: pick is what has been found so  *)
(* far, with last_timeslot_id_ and current_playlist_index_.  An ad without a row  *)
(* is passed over, and the loop goes on to the next slot.                         *)
TrySlotNoSkip(registered, pick, row) ==  (* mutant *)
  IF pick.item # NothingFound \/ row.list = <<>> THEN pick
  ELSE LET kept == IF pick.last = row.slot THEN pick.index ELSE 0
           turn == IF kept >= Len(row.list) THEN 0 ELSE kept
           ad == row.list[turn + 1]
       IN [last |-> row.slot,
           index |-> IF ad \in registered THEN turn + 1 ELSE turn,
           item |-> IF ad \in registered
                    THEN [ad |-> ad, slot |-> row.slot, policy |-> row.policy]
                    ELSE NothingFound]

TrySlot(registered, pick, row) ==
  IF pick.item # NothingFound THEN pick
  ELSE LET kept == IF pick.last = row.slot THEN pick.index ELSE 0 IN
       IF row.list = <<>> THEN [last |-> row.slot, index |-> kept, item |-> NothingFound]
       ELSE LET turn == IF kept >= Len(row.list) THEN 0 ELSE kept
                ad == row.list[turn + 1]
            IN [last |-> row.slot, index |-> turn + 1,
                item |-> IF ad \in registered
                         THEN [ad |-> ad, slot |-> row.slot, policy |-> row.policy]
                         ELSE NothingFound]

(* The whole loop: the item found, if any, and what it leaves in memory.          *)
PickFromSlots(rows, registered, now, last, index) ==
  LET order == ByPriority(rows, now)
      pick[n \in 0..Len(order)] ==
        IF n = 0 THEN [last |-> last, index |-> index, item |-> NothingFound]
        ELSE TrySlot(registered, pick[n - 1], order[n])
  IN pick[Len(order)]

(* The rows of these policies, in their order.                                    *)
RowsOfPolicies(rows, policies) ==
  LET kept[n \in 0..Len(rows)] ==
        IF n = 0 THEN <<>>
        ELSE IF rows[n].policy \in policies THEN Append(kept[n - 1], rows[n]) ELSE kept[n - 1]
  IN kept[Len(rows)]
================================================================================
