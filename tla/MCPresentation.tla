--------------------------- MODULE MCPresentation ---------------------------
(* The plans Presentation is checked with.                                 *)
EXTENDS Presentation

Plan(display, control, commands, clicks, user, frames, fails) ==
  [display |-> display, control |-> control, commands |-> commands,
   clicks |-> clicks, user |-> user, frames |-> frames, fails |-> fails]

Both == {"close", "pauseToggle"}

(* The Window display with closing and with resets; the Console display    *)
(* whose console goes back to the monitor under graphics, twice, once with *)
(* three frames so that the mode may change and change back; and the one   *)
(* whose console stays with the guest.                                     *)
SafetyPlans == {
  Plan("window", TRUE, {"start", "resume", "stop", "load"}, Both, 4, 2, 1),
  Plan("window", TRUE, {"start", "resume", "stop", "reset", "help"},
       {"pauseToggle"}, 4, 2, 1),
  Plan("console", TRUE, {"start", "pause", "resume"}, Both, 4, 2, 1),
  Plan("console", TRUE, {"start", "pause", "resume"}, {"pauseToggle"}, 3, 3, 0),
  Plan("console", FALSE, {"start", "pause", "resume"}, Both, 4, 2, 1)}

(* A reset while the Window is being closed.                               *)
ClosePlans == {Plan("window", TRUE, {"start", "resume", "reset"}, {"close"}, 4, 0, 0)}

(* A guest that leaves graphics and comes back at once.                    *)
ModePlans == {Plan("console", TRUE, {"start"}, {}, 1, 3, 0)}

(* A reset of a machine that has shown a frame.                            *)
RoutePlans == {Plan("console", TRUE, {"start", "reset", "resume"}, {}, 4, 1, 0)}
=============================================================================
