---------------------------- MODULE MCLifecycle ----------------------------
(* The plans Lifecycle is checked with.                                    *)
EXTENDS Lifecycle

Plan(commands, inputs, events, failures) ==
  [commands |-> commands, inputs |-> inputs, events |-> events,
   failures |-> failures]

(* Transitions against Window events; a failing call during every kind of  *)
(* request; input against a state save; breakpoints and steps; a cold      *)
(* reset under the debugger.                                               *)
SafetyPlans == {
  Plan({"start", "pause", "resume", "stop", "reset", "exit", "help"},
       {"pauseToggle", "close", "key"}, 4, 0),
  Plan({"start", "resume", "stop", "reset", "save", "load", "floppy", "debug",
        "go", "quit", "exit", "help"}, {"pauseToggle", "key"}, 3, 1),
  Plan({"start", "save"}, {"pauseToggle", "key"}, 5, 0),
  Plan({"start", "debug", "peek", "go", "quit", "save"}, {"pauseToggle"}, 5, 0),
  Plan({"reset", "debug", "go", "quit", "stop"}, {}, 5, 0)}

LivePlans == {
  Plan({"start", "stop", "reset", "save", "load"}, {"pauseToggle"}, 3, 0),
  Plan({"start", "stop", "reset", "save", "exit"}, {"pauseToggle"}, 2, 1)}

SavePlans == {Plan({"start", "save"}, {"pauseToggle"}, 3, 0)}
ResetPlans == {Plan({"reset", "debug", "go", "quit"}, {}, 5, 0)}

(* A save typed while a reset is under way.                                *)
AbandonPlans == {Plan({"reset", "debug", "go", "quit", "save"}, {}, 6, 0)}
=============================================================================
