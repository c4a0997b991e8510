---------------------------- MODULE MCCompanion ----------------------------
(***************************************************************************)
(* A small companion link for TLC: two centrals, one of them behind a      *)
(* resolvable address, room for one bond; a catalog of two numbers and a   *)
(* flag whose records do not fit one packet.                               *)
(***************************************************************************)
EXTENDS Companion

CONSTANTS c1, c2

MCNever == -1

MCCatalog ==
  <<[id |-> 1, key |-> "rpm", type |-> "Number", read |-> TRUE, keyBytes |-> 3,
     tokenBytes |-> <<3, 9>>, validText |-> TRUE, choices |-> <<>>],
    [id |-> 2, key |-> "brake", type |-> "Boolean", read |-> TRUE, keyBytes |-> 5,
     tokenBytes |-> <<4, 9>>, validText |-> TRUE, choices |-> <<>>],
    [id |-> 3, key |-> "turn", type |-> "Enum", read |-> TRUE, keyBytes |-> 4,
     tokenBytes |-> <<4, 9>>, validText |-> TRUE,
     choices |-> <<[value |-> 7, key |-> "left", keyBytes |-> 4]>>]>>
MCSlots ==
  <<[key |-> "rpm", type |-> "Number", scale |-> 4, signed |-> FALSE,
     codes |-> <<>>, unset |-> FALSE],
    [key |-> "brake", type |-> "Boolean", scale |-> 0, signed |-> FALSE,
     codes |-> <<>>, unset |-> TRUE]>>
MCReadings ==
  <<[status |-> "Ok", avail |-> "Fresh", value |-> <<[type |-> "Number", v |-> 7, finite |-> TRUE]>>],
    [status |-> "Ok", avail |-> "Fresh", value |-> <<[type |-> "Boolean", v |-> 1, finite |-> TRUE]>>],
    [status |-> "NotReady", avail |-> "NoData", value |-> <<>>]>>

Quiet == [bonds |-> {c1}, subs |-> {}, config |-> TRUE, storage |-> TRUE,
          centrals |-> {c1}, streams |-> {}, discoveryFirst |-> TRUE, advFails |-> FALSE,
          links |-> 1, resets |-> 0, pairs |-> 0, presses |-> 0, clears |-> 0,
          toggles |-> 0, selects |-> 0, changes |-> 0, time |-> 5]
MCBudgets ==
  {[Quiet EXCEPT !.bonds = {c2}, !.pairs = 2, !.presses = 1, !.links = 2, !.time = 4],
   [Quiet EXCEPT !.bonds = {c2}, !.centrals = {c2}, !.pairs = 1, !.presses = 1,
                 !.subs = {"live"}, !.clears = 1, !.time = 4],
   [Quiet EXCEPT !.pairs = 1, !.presses = 1, !.resets = 1, !.time = 4],
   [Quiet EXCEPT !.streams = {"live"}, !.subs = {"live"}, !.toggles = 2, !.clears = 1,
                 !.discoveryFirst = FALSE, !.time = 4],
   [Quiet EXCEPT !.streams = {"ext"}, !.subs = {"ext"}, !.toggles = 2, !.changes = 1],
   [Quiet EXCEPT !.selects = 2, !.links = 2, !.resets = 1, !.centrals = {c1, c2},
                 !.advFails = TRUE, !.config = FALSE, !.storage = FALSE, !.time = 2]}
=============================================================================
