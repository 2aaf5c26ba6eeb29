------------------------------ MODULE MCKeyPath ------------------------------
(***************************************************************************)
(* Instances of KeyPath: both Ctrl keys, the chord Ctrl-P, an ordinary key *)
(* and a character that needs Ctrl.                                        *)
(***************************************************************************)
EXTENDS KeyPath

MCModifierBit == [k \in Keys |-> IF k \in {"ctrl", "ctrlR"} THEN "CONTROL" ELSE "none"]
MCModifierKey == [x \in {"CONTROL"} |-> "ctrl"]
MCRegistry == {[key |-> "p", modifiers |-> {"CONTROL"}]}
MCCharacters == {[key |-> "a", needed |-> {"CONTROL"}]}

Plan(keys, sources, moves, inputs, changes) ==
  [keys |-> keys, sources |-> sources, moves |-> moves, inputs |-> inputs,
   changes |-> changes]

(* Chords with both Ctrl keys; a Window and a VM Console across runs, and  *)
(* over a reset with the resume it waits for; freezing and thawing.        *)
MCPlans == {
  Plan(Keys, {"w"}, {"start"}, 5, 3),
  Plan(Keys \ {"ctrlR"}, {"w", "c"}, {"start", "stop"}, 3, 3),
  Plan({"a", "p"}, {"w"}, {"start", "reset", "resume"}, 2, 4),
  Plan(Keys \ {"ctrlR"}, {"w"}, {"start", "pause", "resume"}, 3, 5)}
=============================================================================
