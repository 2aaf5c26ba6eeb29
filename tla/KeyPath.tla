------------------------------- MODULE KeyPath -------------------------------
(***************************************************************************)
(* One key from the host's keyboard to the guest's: the input sources      *)
(* (Windows and VM Consoles) with their matchers, the control FIFO, the    *)
(* session's ledger of pressed keys (src/emulator/session/control.c) and   *)
(* the machine's admission, while the machine changes state, the Window is *)
(* frozen and thawed, the focus moves and sources come and go.             *)
(*                                                                         *)
(* Facts of the machine travel in the same FIFO as input, so the session's *)
(* view lags behind the machine.  The queue's failures are those of module *)
(* SessionQueue and end the session; they are left out here.               *)
(***************************************************************************)
EXTENDS HotkeyMatcher

CONSTANTS
  Sources,     \* source identities; each names one component's lifetime
  Windows,     \* the sources that are Windows; the others are VM Consoles
  Characters,  \* characters that reach a source as text: [key, needed]
  Plans        \* what may happen in one behaviour: the keys and sources used,
               \* the state changes the machine makes, how many native records
               \* arrive and how often the machine and the focus change

ASSUME KeyPathAssumption ==
  /\ Windows \subseteq Sources /\ "none" \notin Sources
  /\ Characters \subseteq [key : Keys, needed : SUBSET Modifiers]
  /\ Plans \subseteq [keys : SUBSET Keys, sources : SUBSET Sources,
                      moves : SUBSET {"start", "pause", "resume", "stop", "reset"},
                      inputs : Nat, changes : Nat]

VARIABLES
  host,     \* the keys held on the host's keyboard, and who has its focus
  source,   \* per source: life, matcher ledger, frozen, its mailbox
  fifo,     \* the control FIFO
  session,  \* monitor_actual, the ledger pressed[], ui->run_generation
  machine,  \* its state and run generation, and whether the run was ever paused
  guest,    \* the keys the guest was told are down
  count,    \* native records, and changes of machine and focus, so far
  plan      \* the plan of this behaviour

vars == <<host, source, fifo, session, machine, guest, count, plan>>

Init ==
  /\ host = [down |-> {}, focus |-> "none"]
  /\ source = [x \in Sources |->
       [life |-> "none", held |-> <<>>, frozen |-> FALSE, mail |-> <<>>]]
  /\ fifo = <<>>
  /\ session = [view |-> "STOPPED", pressed |-> {}, gen |-> 0]
  /\ machine = [state |-> "STOPPED", gen |-> 0, paused |-> FALSE]
  /\ guest = {}
  /\ count = [inputs |-> 0, moves |-> 0]
  /\ plan \in Plans

Live(x) == x \in Sources /\ source[x].life = "live"

CountInput == count.inputs < plan.inputs /\ count' = [count EXCEPT !.inputs = @ + 1]
CountMove == count.moves < plan.changes /\ count' = [count EXCEPT !.moves = @ + 1]

(* emulator_ui_input: an event is stamped with the run the UI last heard   *)
(* of, which is the session's generation at its last drive.                *)
Stamped(x, out) ==
  [i \in DOMAIN out |-> [source |-> x, gen |-> session.gen] @@ out[i]]

Control(x, type) == [type |-> type, source |-> x, gen |-> session.gen]

(* win32_window_deliver_normalized: a frozen Window lets only hotkeys out. *)
Admitted(x, out) ==
  SelectSeq(out, LAMBDA e : source[x].frozen => e.type = "hotkey")

(***************************************************************************)
(* The sources.                                                            *)
(***************************************************************************)

(* kvm_component_emit_to, with the matcher's output through the leaf's     *)
(* filter into the FIFO.  A make that arrives at a frozen Window is never  *)
(* replayed.                                                               *)
Submit(x, events) ==
  LET r == SubmitAll(source[x].held, events, ~source[x].frozen) IN
  /\ source' = [source EXCEPT ![x].held = r.held]
  /\ fifo' = fifo \o Stamped(x, Admitted(x, r.out))

HostModifiers(down) == {ModifierBit[k] : k \in down} \ {"none"}

(* A key goes down, repeats or goes up on the host; the source with the    *)
(* focus gets the record, with the modifiers down at that moment.          *)
NativeKey(k, pressed) ==
  LET down == IF pressed THEN host.down \cup {k} ELSE host.down \ {k} IN
  /\ pressed \/ k \in host.down
  /\ CountInput
  /\ host' = [host EXCEPT !.down = down]
  /\ IF Live(host.focus)
     THEN Submit(host.focus, <<Key(k, pressed, HostModifiers(down))>>)
     ELSE UNCHANGED <<source, fifo>>
  /\ UNCHANGED <<session, machine, guest>>

(* kvm_keyboard_submit_input of a character without a key.                 *)
NativeCharacter(c) ==
  /\ Live(host.focus)
  /\ CountInput
  /\ Submit(host.focus, Synthesis(source[host.focus].held, c.key, c.needed))
  /\ UNCHANGED <<host, session, machine, guest>>

(* kvm_component_reset_input: the ledger is dropped, nothing is replayed.  *)
ResetInput(x) ==
  /\ source' = [source EXCEPT ![x].held = <<>>]
  /\ fifo' = Append(fifo, Control(x, "reset"))

(* The focus, or the console's binding, moves; whoever had it is told.     *)
MoveFocus(x) ==
  /\ x # host.focus
  /\ CountMove
  /\ host' = [host EXCEPT !.focus = x]
  /\ IF Live(host.focus) THEN ResetInput(host.focus) ELSE UNCHANGED <<source, fifo>>
  /\ UNCHANGED <<session, machine, guest>>

(* The session creates a component; initial_frozen is the session's view.  *)
Create(x) ==
  /\ x \in plan.sources /\ source[x].life = "none"
  /\ session.view = "RUNNING"
  /\ source' = [source EXCEPT ![x].life = "live"]
  /\ UNCHANGED <<host, fifo, session, machine, guest, count>>

(* kvm_component_destroy: STOP is queued behind the controls already in    *)
(* the mailbox, the worker is joined, and kvm_component_retire ran in it.  *)
Destroy(x) ==
  /\ Live(x) /\ source[x].mail = <<>>
  /\ source' = [source EXCEPT ![x].life = "gone", ![x].held = <<>>]
  /\ fifo' = Append(fifo, Control(x, "retired"))
  /\ UNCHANGED <<host, session, machine, guest, count>>

(* SET_FROZEN at the Window's worker: only a change matters, and freezing  *)
(* resets the input before the filter closes.                              *)
TakeControl(x) ==
  /\ Live(x) /\ source[x].mail # <<>>
  /\ LET frozen == Head(source[x].mail)
         freezes == frozen /\ ~source[x].frozen
     IN /\ source' = [source EXCEPT ![x].mail = Tail(@), ![x].frozen = frozen,
                                    ![x].held = IF freezes THEN <<>> ELSE @]
        /\ fifo' = IF freezes THEN Append(fifo, Control(x, "reset")) ELSE fifo
  /\ UNCHANGED <<host, session, machine, guest, count>>

(***************************************************************************)
(* The machine: what it admits, and the facts it posts.                    *)
(***************************************************************************)

Before(move) ==
  CASE move = "run" -> {"STARTING"} [] move = "park" -> {"RESETTING"}
    [] move = "start" -> {"STOPPED"}
    [] move = "pause" -> {"RUNNING"} [] move = "resume" -> {"PAUSED"}
    [] move = "stop" -> {"RUNNING", "PAUSED"}
    [] move = "reset" -> {"STOPPED", "RUNNING", "PAUSED"}

After(move) ==
  CASE move \in {"run", "resume"} -> "RUNNING" [] move \in {"pause", "park"} -> "PAUSED"
    [] move = "start" -> "STARTING" [] move = "reset" -> "RESETTING"
    [] move = "stop" -> "STOPPED"

(* What the executor does by itself with a cold run.                       *)
Finishing == {"run", "park"}

(* The session asks for these only when no earlier request is outstanding  *)
(* and its view is the machine's; the machine stops or pauses by itself.   *)
Requestable(move) ==
  move \in {"start", "resume", "reset"} =>
    /\ session.view = machine.state
    /\ \A i \in DOMAIN fifo : fifo[i].type # "runtime"

(* emulator_machine_begin_cold_run, of a start or a reset, opens a new run *)
(* with nothing queued and no key down: a started one runs, a reset one    *)
(* parks before it has taken any input and waits to be resumed.  The other *)
(* moves post their state (RESET_COMPLETED is noted as PAUSED).            *)
Move(move) ==
  LET cold == move \in {"start", "reset"}
      gen == machine.gen + IF cold THEN 1 ELSE 0
  IN
  /\ machine.state \in Before(move) /\ Requestable(move)
  /\ IF move \in Finishing THEN UNCHANGED count ELSE CountMove
  /\ machine' = [state |-> After(move), gen |-> gen,
                 paused |-> ~cold /\ (machine.paused \/ move = "pause")]
  /\ guest' = IF cold THEN {} ELSE guest
  /\ fifo' = IF cold THEN fifo
             ELSE Append(fifo, [type |-> "runtime", val |-> After(move), gen |-> gen])
  /\ UNCHANGED <<host, source, session>>

(* emulator_machine_enqueue_input admits input while RUNNING; the session  *)
(* takes a refusal for success (emulator_session_deliver_machine_input).   *)
Delivered(made, released) ==
  IF machine.state = "RUNNING" THEN (guest \cup made) \ released ELSE guest

(***************************************************************************)
(* The session's control thread.                                           *)
(***************************************************************************)

(* emulator_session_accept_kvm_event.                                      *)
Accept(e) ==
  \/ e.type \in {"retired", "reset"}
  \/ /\ e.gen = 0 \/ e.gen = machine.gen
     /\ \/ session.view = "RUNNING"
        \/ session.view = "PAUSED" /\ e.type \in {"hotkey", "break"}

(* Mutant: the ledger is cleared and the guest hears nothing.              *)
ReleaseSourceSilently(x) ==
  /\ session' = [session EXCEPT !.pressed = {p \in @ : p[1] # x}, !.gen = machine.gen]
  /\ UNCHANGED guest

(* emulator_session_release_source: breaks for the guest only while the    *)
(* session sees a running machine; the ledger is cleared in any state.     *)
ReleaseSource(x) ==
  LET mine == {p \in session.pressed : p[1] = x} IN
  /\ session' = [session EXCEPT !.pressed = @ \ mine, !.gen = machine.gen]
  /\ guest' = IF session.view = "RUNNING"
              THEN Delivered({}, {p[2] : p \in mine}) ELSE guest

(* emulator_session_dispatch_input, and the drive that ends the turn.      *)
DispatchInput(e) ==
  LET p == <<e.source, e.key>>
      running == session.view = "RUNNING"
  IN CASE e.type = "make" ->
            /\ session' = [session EXCEPT !.pressed = @ \cup {p}, !.gen = machine.gen]
            /\ guest' = IF running THEN Delivered({e.key}, {}) ELSE guest
       [] e.type = "break" ->
            /\ session' = [session EXCEPT !.pressed = @ \ {p}, !.gen = machine.gen]
            /\ guest' = IF running THEN Delivered({}, {e.key}) ELSE guest
       [] e.type = "hotkey" ->
            session' = [session EXCEPT !.gen = machine.gen] /\ guest' = guest
       [] OTHER -> ReleaseSource(e.source)

(* Mutant: the last event of the queue is not taken.                       *)
DispatchKvmLate ==
  /\ Len(fifo) > 1 /\ Head(fifo).type # "runtime"
  /\ fifo' = Tail(fifo)
  /\ IF Accept(Head(fifo)) THEN DispatchInput(Head(fifo))
     ELSE UNCHANGED <<session, guest>>
  /\ UNCHANGED <<host, source, machine, count>>

DispatchKvm ==
  /\ fifo # <<>> /\ Head(fifo).type # "runtime"
  /\ fifo' = Tail(fifo)
  /\ IF Accept(Head(fifo)) THEN DispatchInput(Head(fifo))
     ELSE UNCHANGED <<session, guest>>
  /\ UNCHANGED <<host, source, machine, count>>

(* emulator_session_process_completed for RUNTIME_COMPLETED, as far as     *)
(* input goes: the view follows, and the Window is told to freeze or thaw. *)
(* A thaw waits for the frame targets, so it may not be sent.              *)
DispatchRuntime(thaw) ==
  /\ fifo # <<>> /\ Head(fifo).type = "runtime"
  /\ fifo' = Tail(fifo)
  /\ LET e == Head(fifo)
         frozen == e.val = "PAUSED"
         sent == frozen \/ (e.val = "RUNNING" /\ thaw)
     IN IF e.gen # machine.gen THEN thaw /\ UNCHANGED <<session, source>>
        ELSE /\ e.val # "RUNNING" => thaw
             /\ session' = [session EXCEPT !.view = e.val, !.gen = machine.gen]
             /\ source' = [x \in Sources |->
                  IF sent /\ x \in Windows /\ Live(x)
                  THEN [source[x] EXCEPT !.mail = Append(@, frozen)] ELSE source[x]]
  /\ UNCHANGED <<host, machine, guest, count>>

Next ==
  /\ \/ \E k \in plan.keys, pressed \in BOOLEAN : NativeKey(k, pressed)
     \/ \E c \in Characters : NativeCharacter(c)
     \/ \E x \in plan.sources \cup {"none"} : MoveFocus(x)
     \/ \E x \in Sources : Create(x) \/ Destroy(x) \/ TakeControl(x)
     \/ \E move \in plan.moves \cup Finishing : Move(move)
     \/ DispatchKvm
     \/ \E thaw \in BOOLEAN : DispatchRuntime(thaw)
  /\ UNCHANGED plan

Spec == Init /\ [][Next]_vars

(* A machine that is starting runs or parks, the control thread keeps      *)
(* taking events (session.c:402, a loop without periodic work) and a       *)
(* component's worker drains its mailbox.                                  *)
Fairness ==
  /\ WF_vars((\E move \in Finishing : Move(move)) /\ UNCHANGED plan)
  /\ WF_vars(DispatchKvm /\ UNCHANGED plan)
  /\ WF_vars((\E thaw \in BOOLEAN : DispatchRuntime(thaw)) /\ UNCHANGED plan)
  /\ \A x \in Sources : WF_vars(TakeControl(x) /\ UNCHANGED plan)

FairSpec == Spec /\ Fairness

(***************************************************************************)
(* Properties.                                                             *)
(***************************************************************************)

SourceEvents == {"make", "break", "hotkey", "reset", "retired"}

(* The state has the shape that the structures of the code give it, and a  *)
(* matcher's ledger has one disposition per key (hotkey.c:69).             *)
TypeOK ==
  /\ host.down \subseteq Keys /\ host.focus \in Sources \cup {"none"}
  /\ \A x \in Sources :
       /\ source[x].life \in {"none", "live", "gone"}
       /\ source[x].frozen => x \in Windows
       /\ \A i, j \in DOMAIN source[x].held :
            /\ source[x].held[i].state \in States
            /\ source[x].held[i].key = source[x].held[j].key => i = j
  /\ \A i \in DOMAIN fifo : fifo[i].type \in SourceEvents \cup {"runtime"}
  /\ session.pressed \subseteq Sources \X Keys
  /\ session.view \in {"RUNNING", "PAUSED", "STOPPED"}
  /\ machine.state \in {"STARTING", "RESETTING", "RUNNING", "PAUSED", "STOPPED"}
  /\ guest \subseteq Keys

(* Does event e of the FIFO end key k's press at source x?                 *)
Ends(e, x, k) ==
  /\ e.type \in SourceEvents /\ e.source = x
  /\ e.type \in {"reset", "retired"} \/ (e.type = "break" /\ e.key = k)

Holds(x, k) ==
  IsHeld(source[x].held, k) /\ StateOf(source[x].held, k) = "DELIVERED"

(* A make on its way to the session comes from a key the source still      *)
(* counts as delivered, or its end is queued behind it.  So a key that a   *)
(* chord withheld or consumed reaches the session not at all, and no make  *)
(* travels without its break: "a delivered make always retains its break   *)
(* and never becomes consumed later" (kvm-base/README.md).                 *)
MakeHasItsBreak ==
  \A i \in DOMAIN fifo :
    fifo[i].type = "make" =>
      \/ Holds(fifo[i].source, fifo[i].key)
      \/ \E j \in DOMAIN fifo : j > i /\ Ends(fifo[j], fifo[i].source, fifo[i].key)

(* A key the running guest holds is recorded for a source that will end it:*)
(* one that still has it delivered, or whose break, reset or retirement is *)
(* queued and will be accepted.  A run that was paused is left out: the    *)
(* session forgets a frozen source's keys without telling the guest.  And  *)
(* once the session has dispatched the retirement of a source, its ledger  *)
(* holds none of that source's keys, whatever run or state it arrived in   *)
(* (control.c:210: "so a later allocation cannot inherit its held keys").  *)
NoStuckKey ==
  /\ machine.state = "RUNNING" /\ ~machine.paused =>
       \A k \in guest : \E x \in Sources :
         /\ <<x, k>> \in session.pressed
         /\ \/ Holds(x, k) /\ session.gen = machine.gen
            \/ \E i \in DOMAIN fifo :
                 /\ Ends(fifo[i], x, k)
                 /\ fifo[i].type = "break" => fifo[i].gen = machine.gen
  /\ \A p \in session.pressed :
       \/ source[p[1]].life = "live"
       \/ \E i \in DOMAIN fifo : fifo[i].type = "retired" /\ fifo[i].source = p[1]

(* When the keyboard is left alone the guest of a run that was not paused  *)
(* in the end holds no key.                                                *)
KeysComeUp ==
  [](machine.state = "RUNNING" /\ ~machine.paused /\ host.down = {}
     /\ count.inputs = plan.inputs /\ count.moves = plan.changes
        => <>(guest = {}))
=============================================================================
