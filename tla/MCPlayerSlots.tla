----------------------------- MODULE MCPlayerSlots -----------------------------
(* PlayerSlots for TLC: two slots, of which one may be open to everybody, and a *)
(* player whose name is spelled in another case.                               *)
EXTENDS PlayerSlots, TLC

MCNames == {"Ann", "ann", "bob", "*"}
MCLower == [n \in MCNames |-> IF n = "Ann" THEN "ann" ELSE n]

SlotOf(name, empty, decks) == [playerName |-> name, isEmptySlot |-> empty, deckHash |-> decks]
MCSlots0 ==
  { <<SlotOf("ann", FALSE, {"d1"}), SlotOf("*", FALSE, {AnyDeck})>>,
    <<SlotOf("*", TRUE, {AnyDeck}), SlotOf("bob", FALSE, {"d1"})>> }
=============================================================================
