------------------------------- MODULE Slots -------------------------------
(***************************************************************************)
(* The slot arithmetic of the transactional store: which of the two slots  *)
(* a save overwrites, which generation it stamps, which slot a load reads. *)
(* valid[s] says whether inspectSlot accepts slot s for this application,  *)
(* gen[s] is the generation it reports, 0 for a slot it rejects.           *)
(***************************************************************************)
EXTENDS Naturals

Slot == {0, 1}

Other(s) == 1 - s

\* A variation of TargetSlot that forgets to compare the generations.
TargetIgnoringAge(valid, gen) ==
    IF valid[0] /\ ~valid[1] THEN 1 ELSE 0

\* A variation of TargetSlot that keeps a single slot.
AlwaysFirst(valid, gen) == 0

\* The slot a save overwrites: an unreadable slot if there is one, else the
\* older of the two.
TargetSlot(valid, gen) ==
    IF ~valid[0] THEN 0
    ELSE IF ~valid[1] THEN 1
    ELSE IF gen[0] <= gen[1] THEN 0 ELSE 1

\* A variation of NextGeneration that continues from the slot it overwrites.
NextOfOldest(gen) == 1 + (IF gen[0] <= gen[1] THEN gen[0] ELSE gen[1])

NextGeneration(gen) == 1 + (IF gen[0] >= gen[1] THEN gen[0] ELSE gen[1])

\* The slot a load prefers, meaningful when some slot is valid.
PreferredSlot(valid, gen) ==
    IF valid[1] /\ (~valid[0] \/ gen[1] > gen[0]) THEN 1 ELSE 0
=============================================================================
