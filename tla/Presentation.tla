---------------------------- MODULE Presentation ----------------------------
(***************************************************************************)
(* Which surfaces show the guest: the Window, the raw VM Console and the   *)
(* cooked monitor, as the session's reducer (src/emulator/session/         *)
(* control_state.c, presentation_plan.c) derives them from completed facts *)
(* and src/emulator/ui/ui.c applies them, one effect at a time, while the  *)
(* machine changes run and publishes frames behind the control FIFO.       *)
(*                                                                         *)
(* One turn of the control thread is two steps: the handler of an event,   *)
(* and the drive (with the arming of the line) that ends it.  The machine  *)
(* is reduced to the facts it posts; module Machine has its detail.        *)
(***************************************************************************)
EXTENDS Naturals, Sequences

CONSTANTS
  Plans,        \* a machine's display configuration and what may happen to it:
                \* display and console_control of the machine configuration, the
                \* monitor commands, the clicks (Window close, pause hotkey), and
                \* how many of both, of frames and of failing runs
  SerialMod,    \* frame serials are counted modulo this, 0 left out
  FirstSerial   \* the serial an earlier run ended with, 0 if there was none

Lifecycles == {"start", "pause", "resume", "stop", "reset"}
Actions == {"createWindow", "createConsole", "bindConsole", "bindMonitor",
            "destroyConsole", "destroyWindow"}

PresentationAssumption ==
  /\ Plans \subseteq [display : {"window", "console"}, control : BOOLEAN,
                      commands : SUBSET (Lifecycles \cup {"load", "help"}),
                      clicks : SUBSET {"close", "pauseToggle"},
                      user : Nat, frames : Nat, fails : Nat]
  /\ SerialMod \in Nat \ {0, 1} /\ FirstSerial \in 0..(SerialMod - 1)
  /\ \A p \in Plans : 2 * (p.frames + 1) < SerialMod   \* one more for the 0 left out

VARIABLES
  m,       \* the machine: state, run generation, request being carried out
  pub,     \* published_frame_*: run generation (0: invalidated), serial, graphics
  s,       \* emulator_session_state
  ui,      \* emulator_ui: the components that exist and what they were given
  fifo,    \* the control FIFO
  t,       \* the control thread's turn
  prompt,  \* pending_request, the cooked line, prompt_due, pending text
  count,   \* commands and clicks, frames and failures so far, and whether a
           \* frame overtook the view of the one before it (history)
  plan     \* the configuration and plan of this behaviour

vars == <<m, pub, s, ui, fifo, t, prompt, count, plan>>

Init ==
  LET gen == IF FirstSerial = 0 THEN 0 ELSE 1 IN
  /\ m = [state |-> "STOPPED", gen |-> gen, job |-> "none"]
  /\ pub = [gen |-> 0, seq |-> FirstSerial, graphics |-> FALSE]
  /\ s = [runtime |-> "STOPPED", frame |-> FALSE, graphics |-> FALSE,
          window |-> FALSE, console |-> FALSE, current |-> "monitor",
          flight |-> "none", suppressed |-> FALSE, seen |-> FirstSerial]
  /\ ui = [window |-> "none", console |-> FALSE, bound |-> "monitor",
           gen |-> gen, windowSeq |-> 0, consoleSeq |-> 0, status |-> FALSE]
  /\ fifo = <<>>
  /\ t = [pc |-> "idle", kind |-> "none", vm |-> FALSE]
  /\ prompt = [request |-> "none", line |-> "armed", due |-> FALSE, text |-> FALSE]
  /\ count = [user |-> 0, frames |-> 0, fails |-> 0, rushed |-> FALSE]
  /\ plan \in Plans

Post(kind, val, gen) == Append(fifo, [kind |-> kind, val |-> val, gen |-> gen])

(***************************************************************************)
(* The reducer.                                                            *)
(***************************************************************************)

Targets(window, console) ==
  [window |-> window, console |-> console, monitor |-> ~console]

(* emulator_session_derive_presentation. *)
DerivePresentation(state, frame, graphics) ==
  CASE state \in {"STOPPED", "ERROR"} -> Targets(FALSE, FALSE)
    [] state = "PAUSED" -> Targets(plan.display = "window" \/ graphics, FALSE)
    [] state = "RUNNING" /\ plan.display = "window" -> Targets(TRUE, FALSE)
    [] state = "RUNNING" /\ plan.display = "console" ->
         Targets(frame /\ graphics, frame /\ (graphics => ~plan.control))

Desired(st) ==
  LET targets == DerivePresentation(st.runtime, st.frame, st.graphics)
  IN IF st.suppressed /\ st.runtime = "PAUSED"
     THEN [targets EXCEPT !.window = FALSE] ELSE targets

(* Mutant: a Window that is no longer wanted stays.                        *)
NextActionKeepsWindow(st) ==
  LET d == Desired(st) IN
  IF st.flight # "none" THEN "none"
  ELSE IF d.console /\ ~st.console THEN "createConsole"
  ELSE IF d.console /\ st.current # "vm" THEN "bindConsole"
  ELSE IF ~d.console /\ st.current # "monitor" THEN "bindMonitor"
  ELSE IF ~d.console /\ st.console THEN "destroyConsole"
  ELSE IF d.window /\ ~st.window /\ st.runtime = "RUNNING" THEN "createWindow"
  ELSE "none"

(* emulator_session_state_next_action, in the order of its tests: the      *)
(* console is settled before the Window is created, and only a running     *)
(* machine makes a Window appear.                                          *)
NextAction(st) ==
  LET d == Desired(st) IN
  IF st.flight # "none" THEN "none"
  ELSE IF d.console /\ ~st.console THEN "createConsole"
  ELSE IF d.console /\ st.current # "vm" THEN "bindConsole"
  ELSE IF ~d.console /\ st.current # "monitor" THEN "bindMonitor"
  ELSE IF ~d.console /\ st.console THEN "destroyConsole"
  ELSE IF d.window /\ ~st.window /\ st.runtime = "RUNNING" THEN "createWindow"
  ELSE IF ~d.window /\ st.window THEN "destroyWindow"
  ELSE "none"

MonitorIsCurrent(st) ==
  Desired(st).monitor /\ st.current = "monitor" /\ st.flight # "bindConsole"

RunningGraphicsSurface(st) ==
  /\ plan.display = "console" /\ st.runtime = "RUNNING"
  /\ st.frame /\ st.graphics /\ MonitorIsCurrent(st)

FrameTargetsReady(st) ==
  LET d == Desired(st) IN
  /\ d.window \/ d.console
  /\ d.window => st.window
  /\ d.console => st.console /\ st.current = "vm"

(* Mutant: serials are compared as numbers, without the wrap.              *)
FrameIsGreater(sequence, previous) == sequence # 0 /\ sequence > previous

(* emulator_session_frame_is_newer on the ring of serials.                 *)
FrameIsNewer(sequence, previous) ==
  LET distance == (sequence + SerialMod - previous) % SerialMod
  IN /\ sequence # 0
     /\ previous = 0 \/ (distance # 0 /\ 2 * distance < SerialMod)

NoteFrame(st) ==
  IF FrameIsNewer(pub.seq, st.seen)
  THEN [st EXCEPT !.seen = pub.seq, !.frame = TRUE, !.graphics = pub.graphics]
  ELSE st

(* emulator_session_state_note_runtime. *)
NoteRuntime(completed) ==
  LET state == IF completed = "RESET_COMPLETED" THEN "PAUSED" ELSE completed
      ended == state \in {"STOPPED", "ERROR"}
  IN [s EXCEPT !.runtime = state,
               !.suppressed =
                 CASE completed = "PAUSED" /\ s.runtime = "STOPPED" /\ ~s.window
                        -> TRUE
                   [] state = "RUNNING" /\ s.runtime # "RUNNING" -> FALSE
                   [] OTHER -> @,
               !.frame = @ /\ ~ended,
               !.graphics = @ /\ ~ended]

Landed(flight, action) == IF flight = action THEN "none" ELSE flight

(* emulator_session_state_note_window, _vm_console and _current_console.   *)
NoteWindow(exists) ==
  [s EXCEPT !.window = exists,
            !.flight = Landed(@, IF exists THEN "createWindow" ELSE "destroyWindow")]
NoteConsole(exists) ==
  [s EXCEPT !.console = exists,
            !.flight = Landed(@, IF exists THEN "createConsole" ELSE "destroyConsole")]
NoteCurrent(vm) ==
  [s EXCEPT !.current = IF vm THEN "vm" ELSE "monitor",
            !.flight = Landed(@, IF vm THEN "bindConsole" ELSE "bindMonitor")]

(***************************************************************************)
(* The user interface.                                                     *)
(***************************************************************************)

(* emulator_ui_apply_action: whether it is accepted, the components that   *)
(* exist afterwards and the completion it posts.                           *)
Accepts(action) ==
  CASE action \in {"none", "createWindow", "createConsole"} -> TRUE
    [] action = "bindConsole" -> ui.console /\ ui.bound = "monitor"
    [] action = "bindMonitor" -> ui.console /\ ui.bound = "vm"
    [] action = "destroyConsole" -> ui.console
    [] action = "destroyWindow" -> ui.window # "none"

Applied(action, u) ==
  CASE action = "none" -> u
    [] action = "createWindow" ->
         IF u.window # "none" THEN u
         ELSE [u EXCEPT !.window = IF s.runtime = "RUNNING" THEN "live" ELSE "frozen",
                        !.windowSeq = 0]
    [] action = "createConsole" ->
         IF u.console THEN u
         ELSE [u EXCEPT !.console = TRUE, !.consoleSeq = 0, !.status = FALSE]
    [] action = "bindConsole" -> [u EXCEPT !.bound = "vm"]
    [] action = "bindMonitor" -> [u EXCEPT !.bound = "monitor"]
    [] action = "destroyConsole" -> [u EXCEPT !.console = FALSE, !.consoleSeq = 0]
    [] action = "destroyWindow" -> [u EXCEPT !.window = "none", !.windowSeq = 0]

Completions(action, gen) ==
  LET done(kind, val) == <<[kind |-> kind, val |-> val, gen |-> gen]>> IN
  CASE action = "none" -> <<>>
    [] action \in {"createWindow", "destroyWindow"} ->
         done("window", action = "createWindow")
    [] action \in {"createConsole", "destroyConsole"} ->
         done("console", action = "createConsole")
    [] action \in {"bindConsole", "bindMonitor"} ->
         done("broker", action = "bindConsole")

(* emulator_ui_publish_frame with the facts the session passes it.         *)
ShowStatus == plan.display = "console" /\ ~plan.control /\ pub.graphics
ToConsole(st, u) ==
  /\ st.console /\ st.current = "vm" /\ u.console
  /\ ShowStatus # u.status \/ (~ShowStatus /\ u.consoleSeq # pub.seq)
Unsupported(st, u) == ToConsole(st, u) /\ pub.graphics /\ ~ShowStatus
Published(st, u) ==
  LET shown == IF ToConsole(st, u)
               THEN [u EXCEPT !.consoleSeq = pub.seq, !.status = ShowStatus] ELSE u
  IN IF st.window /\ u.window # "none"
     THEN [shown EXCEPT !.windowSeq = pub.seq] ELSE shown

(* emulator_ui_set_state: title and freezing of an existing Window.        *)
SetState(st, u) ==
  IF u.window # "none" /\ st.runtime \in {"RUNNING", "PAUSED"}
  THEN [u EXCEPT !.window = IF st.runtime = "RUNNING" THEN "live" ELSE "frozen"]
  ELSE u

(***************************************************************************)
(* The prompt and the cooked line, which is armed at the console, typed    *)
(* (in the FIFO) or taken with the console by the guest; in all three      *)
(* cases pending_line is set.                                              *)
(***************************************************************************)

(* Text on the monitor takes an armed line back.                           *)
Interrupted(p) == [p EXCEPT !.line = IF @ = "armed" THEN "none" ELSE @]
Say(st, p) == IF MonitorIsCurrent(st) THEN Interrupted(p)
              ELSE [p EXCEPT !.text = TRUE]

(* emulator_session_arm_if_ready. *)
ArmIfReady(st, p) ==
  LET told == IF p.text THEN [Interrupted(p) EXCEPT !.text = FALSE] ELSE p IN
  IF ~MonitorIsCurrent(st) THEN p
  ELSE IF told.request = "none" /\ told.due /\ told.line = "none"
  THEN [told EXCEPT !.line = "armed", !.due = FALSE]
  ELSE told

(***************************************************************************)
(* Events.                                                                 *)
(***************************************************************************)

Taking(kind) ==
  /\ t.pc = "idle" /\ fifo # <<>> /\ Head(fifo).kind = kind
  /\ fifo' = Tail(fifo)
ToDrive(kind, vm) == t' = [pc |-> "drive", kind |-> kind, vm |-> vm]
Over(why) == t' = [t EXCEPT !.pc = why]

Current == Head(fifo).gen \in {0, m.gen}

(* emulator_product_monitor_provider_note_runtime: what is announced.      *)
Announced(completed) ==
  \/ completed \in {"RESET_COMPLETED", "ERROR"}
  \/ completed = "PAUSED" /\ s.runtime = "RUNNING"
  \/ completed = "RUNNING" /\ s.runtime \in {"STOPPED", "PAUSED"}
  \/ completed = "STOPPED" /\ s.runtime # "STOPPED"

(* emulator_session_process_completed drops every fact of an older run.    *)
StaleFact ==
  /\ \E kind \in {"fact", "frame", "window", "console", "broker"} : Taking(kind)
  /\ ~Current
  /\ UNCHANGED <<m, pub, s, ui, t, prompt, count>>

RuntimeFact ==
  /\ Taking("fact") /\ Current
  /\ LET completed == Head(fifo).val
         free == [prompt EXCEPT !.request = "none"]
     IN /\ s' = NoteRuntime(completed)
        /\ prompt' = IF Announced(completed)
                     THEN [Say(s', free) EXCEPT !.due = TRUE] ELSE free
  /\ ToDrive("fact", FALSE)
  /\ UNCHANGED <<m, pub, ui, count>>

FrameFact ==
  /\ Taking("frame") /\ Current /\ ToDrive("frame", FALSE)
  /\ UNCHANGED <<m, pub, s, ui, prompt, count>>

ComponentFact ==
  /\ \/ Taking("window") /\ s' = NoteWindow(Head(fifo).val)
     \/ Taking("console") /\ s' = NoteConsole(Head(fifo).val)
  /\ Current /\ ToDrive("component", FALSE)
  /\ UNCHANGED <<m, pub, ui, prompt, count>>

BrokerFact ==
  /\ Taking("broker") /\ Current /\ ToDrive("broker", Head(fifo).val)
  /\ s' = NoteCurrent(Head(fifo).val)
  /\ prompt' = [prompt EXCEPT !.line = "none"]
  /\ UNCHANGED <<m, pub, ui, count>>

(* The machine states in which it takes a request.                         *)
Takes(op) == CASE op = "start" -> m.state = "STOPPED"
               [] op = "pause" -> m.state = "RUNNING"
               [] op = "resume" -> m.state = "PAUSED"
               [] op = "stop" -> m.state \in {"RUNNING", "PAUSED"}
               [] op = "reset" -> m.state \in {"STOPPED", "RUNNING", "PAUSED"}

(* A cold run has a new generation and no published frame.                 *)
ColdRun(state, job) ==
  /\ m' = [state |-> state, gen |-> m.gen + 1, job |-> job]
  /\ pub' = [pub EXCEPT !.gen = 0, !.graphics = FALSE]

(* emulator_session_apply_result for a request, the prompt being p: one    *)
(* may be in flight, and the machine may refuse it.                        *)
Request(op, p) ==
  \/ /\ p.request # "none" /\ prompt' = [p EXCEPT !.text = TRUE]
     /\ ToDrive("input", FALSE) /\ UNCHANGED <<m, pub>>
  \/ /\ p.request = "none" /\ Takes(op)
     /\ prompt' = [p EXCEPT !.request = op, !.due = FALSE]
     /\ ToDrive("input", FALSE)
     /\ IF m.state = "STOPPED" THEN ColdRun("STARTING", op)
        ELSE m' = [m EXCEPT !.job = op] /\ UNCHANGED pub
  \/ /\ p.request = "none" /\ ~Takes(op) /\ Over("refused")
     /\ UNCHANGED <<prompt, m, pub>>

(* emulator_product_monitor_request_lifecycle. *)
Permits(cmd) == CASE cmd = "start" -> {"STOPPED"}
                  [] cmd = "pause" -> {"RUNNING"}
                  [] cmd = "resume" -> {"PAUSED"}
                  [] cmd = "stop" -> {"RUNNING", "PAUSED"}
                  [] cmd = "reset" -> {"STOPPED", "RUNNING", "PAUSED"}

Reply(p) == /\ prompt' = [Say(s, p) EXCEPT !.due = TRUE]
            /\ ToDrive("input", FALSE)

MonitorLine ==
  /\ Taking("line")
  /\ LET cmd == Head(fifo).val
         p == [prompt EXCEPT !.line = "none"]
     IN \/ cmd \in Lifecycles /\ s.runtime \in Permits(cmd) /\ Request(cmd, p)
        \/ /\ \/ cmd \in Lifecycles /\ s.runtime \notin Permits(cmd)
              \/ cmd = "help"
              \/ cmd = "load" /\ s.runtime # "STOPPED"
           /\ Reply(p) /\ UNCHANGED <<m, pub>>
        \/ /\ cmd = "load" /\ s.runtime = "STOPPED"
           /\ prompt' = p /\ Over("loading")
           /\ ColdRun("RESTORING", "load")
  /\ UNCHANGED <<s, ui, count>>

(* emulator_machine_write_state blocks the control thread until the        *)
(* restored run has parked (or was refused).                               *)
Loaded ==
  /\ t.pc = "loading" /\ m.job # "load" /\ Reply(prompt)
  /\ UNCHANGED <<m, pub, s, ui, fifo, count>>

(* emulator_session_accept_kvm_event for control events.                   *)
Accepted == Current /\ s.runtime \in {"RUNNING", "PAUSED"}

DropClick ==
  /\ \E kind \in {"close", "pauseToggle"} : Taking(kind)
  /\ ~Accepted
  /\ UNCHANGED <<m, pub, s, ui, t, prompt, count>>

WindowClose ==
  /\ Taking("close") /\ Accepted
  /\ s' = [s EXCEPT !.suppressed = TRUE]
  /\ IF s.runtime = "RUNNING" /\ prompt.request = "none"
     THEN Request("pause", prompt)
     ELSE ToDrive("input", FALSE) /\ UNCHANGED <<m, pub, prompt>>
  /\ UNCHANGED <<ui, count>>

PauseToggle ==
  /\ Taking("pauseToggle") /\ Accepted
  /\ Request(IF s.runtime = "RUNNING" THEN "pause" ELSE "resume", prompt)
  /\ UNCHANGED <<s, ui, count>>

(***************************************************************************)
(* emulator_session_drive and what process_completed does after it.        *)
(***************************************************************************)

(* Mutant: the monitor is not prompted when it gets the console back.      *)
PromptedOnce(st, p) ==
  IF t.kind = "broker" /\ st.runtime = "RUNNING" /\ t.vm
  THEN [p EXCEPT !.due = FALSE, !.text = FALSE] ELSE p

(* The prompt p after the event, before it is armed: the guest taking the  *)
(* console drops it, the monitor getting it back under graphics renews it. *)
Prompted(st, p) ==
  IF t.kind # "broker" \/ st.runtime # "RUNNING" THEN p
  ELSE IF t.vm THEN [p EXCEPT !.due = FALSE, !.text = FALSE]
  ELSE [p EXCEPT !.due = @ \/ RunningGraphicsSurface(st)]

Taken(action, p) ==
  IF action = "bindConsole" /\ p.line = "armed" THEN [p EXCEPT !.line = "taken"]
  ELSE p

Drive ==
  /\ t.pc = "drive"
  /\ LET available == pub.gen = m.gen
         seen == IF available THEN NoteFrame(s) ELSE s
         action == NextAction(seen)
         st == IF action = "none" THEN seen ELSE [seen EXCEPT !.flight = action]
         u == Applied(action, [ui EXCEPT !.gen = m.gen])
         ready == FrameTargetsReady(st)
         shown == IF available /\ ready THEN Published(st, u) ELSE u
         unsupported == available /\ ready /\ Unsupported(st, u)
         p == Prompted(st, Taken(action, prompt))
         arms == t.kind # "frame" /\ ArmIfReady(st, p).line = "armed"
     IN IF ~Accepts(action) \/ unsupported \/ (arms /\ u.bound # "monitor")
        THEN /\ Over(IF Accepts(action) /\ unsupported THEN "unsupported" ELSE "failed")
             /\ UNCHANGED <<s, ui, fifo, prompt>>
        ELSE /\ s' = st
             /\ ui' = IF t.kind \in {"fact", "broker"} /\
                         (st.runtime # "RUNNING" \/ ready)
                      THEN SetState(st, shown) ELSE shown
             /\ fifo' = fifo \o Completions(action, m.gen)
             /\ prompt' = IF t.kind = "frame" THEN p ELSE ArmIfReady(st, p)
             /\ t' = [pc |-> "idle", kind |-> "none", vm |-> FALSE]
  /\ UNCHANGED <<m, pub, count>>

(***************************************************************************)
(* The machine, as the session hears of it.                                *)
(***************************************************************************)

Outcome(job) == CASE job \in {"start", "resume"} -> "RUNNING"
                  [] job \in {"pause", "reset", "load"} -> "PAUSED"
                  [] job = "stop" -> "STOPPED"

Live == t.pc \notin {"failed", "unsupported", "refused"}

(* A running machine that resets goes through a new cold run.              *)
MachineReset ==
  /\ Live /\ m.job = "reset" /\ m.state \in {"RUNNING", "PAUSED"}
  /\ ColdRun("STARTING", "reset")
  /\ UNCHANGED <<s, ui, fifo, t, prompt, count>>

(* The request is carried out and its fact posted.                         *)
MachineDone ==
  /\ Live /\ m.job # "none"
  /\ m.job = "reset" => m.state = "STARTING"
  /\ m' = [m EXCEPT !.state = Outcome(m.job), !.job = "none"]
  /\ fifo' = Post("fact", IF m.job = "reset" THEN "RESET_COMPLETED"
                          ELSE Outcome(m.job), m.gen)
  /\ UNCHANGED <<pub, s, ui, t, prompt, count>>

(* The run ends in an error whatever was asked.                            *)
MachineFails ==
  /\ Live /\ m.state = "RUNNING" /\ count.fails < plan.fails
  /\ m' = [m EXCEPT !.state = "ERROR", !.job = "none"]
  /\ fifo' = Post("fact", "ERROR", m.gen)
  /\ count' = [count EXCEPT !.fails = @ + 1]
  /\ UNCHANGED <<pub, s, ui, t, prompt>>

(* History: a frame that gives the console to the guest or takes it back   *)
(* comes before the view of the frame before it is up.                     *)
Overtakes(graphics) ==
  LET console(g) == DerivePresentation("RUNNING", TRUE, g).console IN
  /\ pub.gen = m.gen /\ console(graphics) # console(pub.graphics)
  /\ ~(s.seen = pub.seq /\ s.flight = "none" /\ NextAction(s) = "none")

(* emulator_machine_publish: the executor callback of a run that has not   *)
(* parked yet; a cold run may publish before it parks.                     *)
Publish ==
  /\ Live /\ count.frames < plan.frames
  /\ \/ m.state = "RUNNING"
     \/ m.job \in {"reset", "load"} /\ m.state \in {"STARTING", "RESTORING"}
  /\ \E graphics \in BOOLEAN :
       /\ pub' = [gen |-> m.gen, graphics |-> graphics,
                  seq |-> IF pub.seq + 1 = SerialMod THEN 1 ELSE pub.seq + 1]
       /\ count' = [count EXCEPT !.frames = @ + 1, !.rushed = @ \/ Overtakes(graphics)]
  /\ fifo' = Post("frame", "published", m.gen)
  /\ UNCHANGED <<m, s, ui, t, prompt>>

(***************************************************************************)
(* The operator.                                                           *)
(***************************************************************************)

TypeLine ==
  /\ Live /\ prompt.line = "armed" /\ count.user < plan.user
  /\ \E cmd \in plan.commands : fifo' = Post("line", cmd, 0)
  /\ prompt' = [prompt EXCEPT !.line = "typed"]
  /\ count' = [count EXCEPT !.user = @ + 1]
  /\ UNCHANGED <<m, pub, s, ui, t>>

(* A Window exists for its close box; a hotkey needs a Window or the VM    *)
(* Console with the keyboard.                                              *)
Click ==
  /\ Live /\ count.user < plan.user
  /\ \E click \in plan.clicks :
       /\ ui.window # "none" \/ (click = "pauseToggle" /\ ui.bound = "vm")
       /\ fifo' = Post(click, "click", ui.gen)
  /\ count' = [count EXCEPT !.user = @ + 1]
  /\ UNCHANGED <<m, pub, s, ui, t, prompt>>

Session ==
  \/ StaleFact \/ RuntimeFact \/ FrameFact \/ ComponentFact \/ BrokerFact
  \/ MonitorLine \/ Loaded \/ DropClick \/ WindowClose \/ PauseToggle \/ Drive

Next == /\ \/ Session \/ MachineReset \/ MachineDone \/ MachineFails \/ Publish
           \/ TypeLine \/ Click
        /\ UNCHANGED plan

Spec == Init /\ [][Next]_vars

(***************************************************************************)
(* Properties.                                                             *)
(***************************************************************************)

(* Every variable keeps its type.                                          *)
TypeOK ==
  /\ m.state \in {"STOPPED", "STARTING", "RESTORING", "RUNNING", "PAUSED", "ERROR"}
  /\ m.gen \in Nat /\ m.job \in Lifecycles \cup {"none", "load"}
  /\ pub.gen \in 0..m.gen /\ pub.seq \in 0..(SerialMod - 1)
  /\ s.runtime \in {"STOPPED", "RUNNING", "PAUSED", "ERROR"}
  /\ s.current \in {"monitor", "vm"} /\ s.flight \in Actions \cup {"none"}
  /\ ui.window \in {"none", "live", "frozen"} /\ ui.bound \in {"monitor", "vm"}
  /\ t.pc \in {"idle", "drive", "loading", "failed", "unsupported", "refused"}
  /\ prompt.request \in Lifecycles \cup {"none"}
  /\ prompt.line \in {"none", "armed", "typed", "taken"}

(* Nothing is under way: no event, no turn, no request.                    *)
Settled == fifo = <<>> /\ t.pc = "idle" /\ m.job = "none"

(* The effect in flight has its completion on the FIFO, and it is one that *)
(* process_completed will accept: the reducer never waits for an answer    *)
(* that was dropped with its run.                                          *)
EffectIsAnswered ==
  s.flight # "none" /\ Live =>
    \E i \in DOMAIN fifo : <<fifo[i]>> = Completions(s.flight, m.gen)

(* Once everything has settled the surfaces that exist are the ones the    *)
(* reducer wants, and it knows them; a paused view may lack its Window.    *)
(* The Window of a paused guest is frozen and that of a running one is     *)
(* not, unless a frame overtook the view of the one before it: with        *)
(* console_control a RUNNING fact then finds the console's work pending    *)
(* and leaves the Window to the broker's fact, and graphics coming back    *)
(* at once undo that work without one (session.c:289).                     *)
ViewSettles ==
  Settled =>
    LET d == Desired(s) IN
    /\ s.flight = "none"
    /\ s.window = (ui.window # "none") /\ s.console = ui.console
    /\ s.current = ui.bound
    /\ ui.console = d.console /\ (ui.bound = "vm") = d.console
    /\ IF s.runtime = "PAUSED" THEN s.window => d.window ELSE s.window = d.window
    /\ ui.window = "live" => s.runtime = "RUNNING"
    /\ ui.window = "frozen" => s.runtime # "RUNNING" \/ count.rushed

(* Once everything has settled a running guest's last frame is the one the *)
(* reducer has noted, however the serials wrapped, and it is on every      *)
(* surface that shows it.                                                  *)
LastFrameIsShown ==
  Settled /\ s.runtime = "RUNNING" /\ pub.gen = m.gen /\ m.gen # 0 =>
    /\ s.frame /\ s.seen = pub.seq /\ s.graphics = pub.graphics
    /\ ui.window # "none" => ui.windowSeq = pub.seq
    /\ ui.bound = "vm" => IF ShowStatus THEN ui.status
                          ELSE ~ui.status /\ ui.consoleSeq = pub.seq

(* A run is not shown along the route of the run before it.                *)
RouteBelongsToRun ==
  Settled /\ s.runtime = "RUNNING" /\ s.frame => pub.gen = m.gen

(* A graphic frame under console_control is the Window's: it is never      *)
(* handed to the raw VM Console, which cannot show it.                     *)
GraphicsGoToTheWindow == t.pc # "unsupported"

(* The operator is not left alone.  No effect the reducer chooses is       *)
(* refused by the user interface, no line is asked of a console the        *)
(* monitor does not own, and no frame is handed to a surface that cannot   *)
(* show it unless it overtook the view of the frame before it: each of     *)
(* these ends the session (emulator_session_drive).  Once everything has   *)
(* settled there is a way to go on: an armed line at the monitor, or the   *)
(* guest's own console.                                                    *)
OperatorIsServed ==
  /\ t.pc # "failed"
  /\ t.pc = "unsupported" => count.rushed
  /\ Settled => prompt.line = "armed" \/ ui.bound = "vm"

=============================================================================
