# A TLA+ verification of SoftPC

SoftPC is a standalone PC virtual machine: a recovered CPU and device emulator
(`src/app-softpc/softpc.new`) inside a modern shell that gives it a lifecycle, an
operator's monitor, a display and a sound output. This directory models the parts of
the shell in which order, concurrency, failure and limits decide correctness, and the
parts of the emulator on which every guest depends: arithmetic, paging, protection and
interrupts. It checks small instances of them with TLC and proves what matters most
with TLAPS.

## The system

Four kinds of thread matter. The **control thread** runs the session loop: it takes
events from one FIFO, decides, and is the only caller of the machine interface. The
**executor** (machine worker) runs the driver, and through it the guest, and parks
inside its own callback while the machine is paused. **Presentation workers** (Window,
VM Console, broker reader) draw frames and turn host input into events for the FIFO.
The **PCM worker** moves samples to the native endpoint. The CPU, the interrupt
controllers and the devices all run on the executor; what is hard there is not
interleaving but long sequences of legal instructions, caches that go stale, and faults
in the middle of a transfer of control.

| Part | Source | Modules |
|---|---|---|
| Machine executor and driver | `src/emulator/machine`, `src/app-softpc/machine` | `Machine` |
| Session loop, monitor, product commands, debugger front end | `src/emulator/session`, `src/emulator/product`, `src/x86-ibmpc`, `src/x86-debug/product` | `Lifecycle` (with `Machine`) |
| Presentation reducer and user interface | `src/emulator/session/control_state.c`, `src/emulator/ui` | `Presentation` |
| Session control queue | `src/emulator/session/control.c` | `SessionQueue`, `ControlFifo` |
| Machine input queue | `src/emulator/machine/input_queue.c` | `InputQueue`, `InputFifo` |
| Hotkey matcher, pressed-key ledger | `src/lib/kvm-base`, `src/emulator/session/control.c` | `HotkeyMatcher`, `KeyPath` |
| Frame exchange | `src/lib/kvm-base/frame_exchange.c` | `FrameExchange`, `LatestFrame` |
| PCM output stream | `src/lib/audio/pcm` | `PcmStream` |
| Console broker and logical consoles | `src/lib/console-broker`, `src/lib/console` | `ConsoleBroker` |
| Interrupt controllers, delayed interrupts | `base/system/ica.c`, `compat/eoi.c` | `Pic`, `Board` |
| Integer arithmetic and flags | `base/ccpu386/add.c` … `xor.c`, `c_mul64.c`, `c_div64.c` | `Alu`, `Cpu` |
| Paging unit and its caches | `base/ccpu386/c_tlb.c`, `c_page.c`, `c_oprnd.h` | `PageTables`, `Tlb`, `Operands`, `Paging`, `PageWalk` |
| Segments, gates, tasks, exceptions | `base/ccpu386/c_seg.c`, `c_prot.c`, `c_xfer.c`, `c_intr.c`, `c_xcptn.c`, `c_tsksw.c`, … | `Segments`, `Tasks`, `Transfers`, `Protection` |

`PROJECT.json` lists every part, the ones not modelled included, maps each definition
to the lines it stands for, and lists the hazards the properties answer.

## Modules and the code

**Machine** has one step per shared load, store, exchange or compare-exchange whose
order matters. `state`, `runGen`, `pubGen`, `lease`, `open` are the atomics of the same
meaning; `req` is the set of request flags, `ev` the manual-reset events that are
signalled, `drv` the driver's exit latch, heartbeat, debug plan and capture; `w` and `c`
are the program counters of executor and control thread. `base_sync_wait_any` lets
cancellation win. `faults` counts the native calls that may still fail.

**Lifecycle** adds the session: `fifo`, what the monitor believes (`monitor`), the one
request in flight (`pending`) and the cooked line (`line`). An event handler is one step
up to the machine call it makes; the call's own steps are those of `Machine`. The
display is the Window, so the monitor is always the current console.

**Presentation** has the reducer's facts (`s`), what the user interface really owns
(`ui`), the machine reduced to the facts it posts (`m`, `pub`), the prompt and the turn
of the control thread (`t`): the handler, then the drive that emits at most one effect.

**KeyPath** follows a key: `host` (what is pressed, the focus), `source` (each Window's
or Console's matcher, from `HotkeyMatcher`), `fifo`, `session.pressed`, the machine's
admission and what the `guest` holds.

**SessionQueue**, **InputQueue** and **FrameExchange** have one action per critical
section; what happens outside the lock (the consumer's wait, the second section of a
failed push, the producer's write, the consumer's read) is a step of its own.
`ControlFifo`, `InputFifo` and `LatestFrame` say what each promises, without rings,
slots or growth.

**PcmStream** has the ring, `prog` (the progress counters of an epoch), the flags, the
auto-reset events, the endpoint (`dev`: the frames it took, how many it played, its
period event and the interruption), the worker's loop (`wk`), the owner's call (`cl`)
and a thread that cancels waits. Sections under `stream->lock` are one step; native
waits and signals outside it are separate. A frame is its epoch and number.

**ConsoleBroker** lends the process's one native console to the monitor (cooked lines)
and the VM Console (raw records). `broker`, `con` and `be` are the structures of the
broker, the logical consoles and the backend; `ctl`, `rd` and `wr` are the thread that
calls the broker, the reader and the writers. A replacement is the chain of its steps
(install, stop, wake and join the reader, switch, bind, activate, commit or roll back);
each native call may fail. `input` keeps under which binding each record was typed.

**Pic** has the two 8259s as operators on one record, with the call chain of `ica.c`: a
slave raises the master through the same entry a device uses, under `ica_lock`.
**Board** lets devices raise, withdraw and hold back lines and the guest mask, nest, end
and poll; one call is one step.

**Alu** has the instructions as operators on operands of any width, flags included;
**Cpu** runs short texts of them. `Alu` keeps the algorithms where they are the point:
`mulu64`, `divu64`, `neg64`, shifts with their counts modulo the width, decimal adjusts.

**Tlb** has the two caches of `c_tlb.c` (the 4-way one and the fast direct format), their
flushes, the test registers and the snapshot; **Paging** runs whole instructions over it
(check every operand, then touch it by the address the check returned, or translate
again). **PageWalk** is what they promise: the same instructions on a processor that
walks the tables for every byte. `PageTables` and `Operands` hold what they share.

**Segments**, **Tasks** and **Transfers** have selectors and descriptors, the task switch, and
far calls, returns, interrupts and exceptions as operators on a processor record `m`. An
operator that may fault returns `m` with the exception in `m.exc`, and the steps after
it are not taken, as the C code leaves by `longjmp`. **Protection** executes one
instruction, or delivers one exception, per step; its history variables remember what
the program saw, which exceptions were raised, and where each transfer must return to.

`TypeOK` of a module is stated for the reader; the runs spend their time on the other
properties, and the proofs establish the types of the proved modules.

### Plans

Most modules take a constant `Plans`: a set of records of what the operator, the guest
and the environment may do and how often (commands, host inputs, frames, failing calls).
A behaviour picks one plan and keeps it. One run therefore covers several scenarios, each
deep where it has to be, without their product. The `MC` modules define the plans.

## Runs

| Run | What it shows | Distinct states |
|---|---|---|
| `handoffs` | The frame exchange, the input ring and the session queue, each in every order of its callers: four slots keep producer, consumer and screen apart and implement `LatestFrame`; the newest frame is eventually drawn; the rings implement `InputFifo` and `ControlFifo`; no lost and no spurious wakeup; a loss is heard | 201,064 |
| `lifecycle` | In every interleaving of control thread and executor: callers read their own results, input stays with its run, PAUSED means parked, no input between a capture and its rendezvous, facts and prompts are not lost | 2,973,597 |
| `waits` | Requests to the machine: every blocked one returns, every transition ends, shutdown joins the executor. Console broker: input and output reach only their own binding; whatever step fails, a handover ends settled or broken; a requested line is accounted for; every call returns | 267,906 |
| `surfaces` | Inwards, the keys: no make without its break, no stuck key, a retired source holds nothing, keys come up in the end. Outwards, the presentation: no effect is refused; once settled, the surfaces are the wanted ones, frozen exactly when paused, show the last frame, and leave the operator a line or the guest's console | 1,114,544 |
| `pcm_stream` | Frames reach the endpoint once and in order, across clears; progress is not contradicted; an OK of flush means submitted; controls return with a stalled endpoint; no wakeup is lost | 265,384 |
| `processor` | Instruction sequences compute what integer arithmetic says, or trap; the paging caches cannot be seen; the interrupt controllers lose no raised line and an EOI ends its own handler. Between instructions no register reaches an inner ring; a faulting instruction has done nothing; returns restore; the right handler runs with the right code; back links name waiting tasks; VERR and VERW predict loads | 617,917 |
| `early_reset_fact`, `stale_capture`, `lost_answer`, `inherited_route`, `mode_switch`, `torn_gate` | Six disagreements between code and its docs or comments (below) | — |

`handoffs`, `waits`, `surfaces` and `processor` each check components that share no state:
a behaviour belongs to one of them (`part`), and the others stand still in an initial
state. Fairness is owed only to the part that moves.

### Bounds and why they suffice

- `Lifecycle`: 3 to 5 operator events per plan and at most one failing call. Every
  request then meets every phase of the one before it; a third overlapping request
  does not exist, since the session has one in flight. The input ring has two slots.
- `Presentation`: four operator actions, two or three frames, one failing run. A frame
  before, during and after a mode change needs two or three. The serial wraps at 10 and
  starts at 9, so it wraps in every behaviour with a frame; `PresentationAssumption` keeps
  the frames of a plan within half a turn, as 2^31 frames are in the code.
- `KeyPath`: five host inputs where two Ctrl keys form the chord Ctrl-P (press both,
  press P, release in any order), two or three where sources or runs change. A reset ends
  PAUSED, as `executor_event` leaves it, and the plan with resets has the resume too.
- `FrameExchange` is finite without any bound; two pictures and two formats are enough
  because slots are compared only for identity and for equality of format.
- `SessionQueue`: a ring that grows from two to four slots, two producers, two failures.
- `PcmStream`: a ring of two frames, a batch of two, an endpoint of one. A batch is then
  regularly half accepted, the ring full and the endpoint stalled. Up to four calls.
- `ConsoleBroker`: two consoles, up to three handovers (there, back, and one from a state
  a failure left), two failing native calls, two or three records.
- `Board`: three lines per controller, the cascade between a higher and a lower one, so
  that each can interrupt, be blocked by or block the slave; three nested handlers, up
  to three requests outstanding on a line.
- `Cpu`: operands of three and four bits in every combination (bytes for the decimal
  instructions, whose nibbles are fixed). Words of a multiplication or division are then
  pairs of such operands; `ProcessorProofs` has every width for what carries the argument.
- `Paging`: two sets of two entries, six pages in tables of two, pages of eight bytes: any
  two pages of a set contend with a third, and operands span two pages.
- `Protection`: programs of three to five instructions on tables with every kind of
  descriptor the code tells apart, present and not, of rings 0, 1 and 3. Two transfers
  in, a fault and two returns fit in.

`CHECK_DEADLOCK FALSE` appears where the system may rightly stop: the plan is used up
and every thread waits, or the session is over.

### Fairness

Fairness is weak and given per thread: the executor and the control thread are
scheduled by the host and never wait on anything but the events modelled; a producer
inside `push_required` finishes; the PCM worker and a call that has begun go on. No
fairness is owed to the operator, to the guest's choices or to a failure (the fair
actions are conjoined with "no failure is used up"). The PCM endpoint is not assumed
to run: `ControlsReturn` holds with a stalled one, while `RingDrains` says
`DeviceRuns =>`. In `ConsoleBroker` the broker's caller, the reader and each writer go on
once they have begun; nobody has to type, which is why a reader asked to stop must be
woken. Two steps are strongly fair: a draw that
can begin again and again succeeds in the end (`Finish(TRUE)` of `FrameExchange`; a
surface that fails for ever shows nothing), and a guest that runs again and again
reaches the checkpoint a capture waits for (`RunCapture` of `Lifecycle`).

## Proofs

All proofs hold for every value of the constants, under the named assumptions of the
modules (positive capacities; frames differ from the empty and the torn payload).

- **`HandoffProofs`**, in four parts. *The ring*: how a remainder behaves on sums below two
  laps, stated once. *The frame exchange*: type correctness, `WriterIsPrivate`, complete
  frames for readers, `PendingIsLatest`, the stability of the frame being drawn, and the
  refinement of `LatestFrame`. The inductive invariant adds `RoleOrder`: the newest frame
  is pending, or processing with nothing pending, or displayed with neither. Without it a
  failed draw could requeue a slot that is no longer the newest. *The input queue*: type
  correctness, only written slots are delivered, and the refinement of `InputFifo`,
  answers included. *The session queue*: type correctness, no lost wakeup whatever native
  calls fail, no spurious wakeup while no reset of the event has failed, and the
  refinement of `ControlFifo`. The wakeup invariant is inductive only together with the typing of the fault slots and of each producer's unreported
  loss; growth copies a wrapped ring to the origin, which the ring lemmas justify.
- **`LifecycleProofs`**: for every set of plans and every number of input slots, in every
  interleaving of control thread and executor, `ResultIsFresh`, `InputBelongsToRun`,
  `PausedGuestIsParked` and the action property `NoInputAfterCapture`. The inductive
  invariant `IInv` has these parts beside the shapes of the records. `RequestOwned` and
  `Fresh`: a request flag the executor has not let go of is that of the caller that is
  blocked on it, and a caller whose event is signalled finds its result and no flag of
  its request left, which is what keeps the next caller from reading it. `Terminating`: an
  executor that ends has refused the requests to come. `Parked`: RUNNING and PAUSED are
  said only inside a run, and PAUSED only by an executor that stands in its callback,
  unless it was asked to stop or to go on to a checkpoint. `CaptureHeld`: a capture's
  result lives inside one callback, where the pause it asked for, or a stop, keeps input
  from the devices. `BegunHere`, `BegunQueue` and `PushOfRun`: generation 0, which the
  session accepts without comparing, is never stamped on input, and input on its way into
  the ring is of this run or meets a ring that stays closed until the call is over;
  `InputBelongsToRun` alone does not say what becomes of a push that has begun.
- **`PcmStreamProofs`**: for every capacity, batch, endpoint and plan, `StreamInOrder` and
  `NeverContradicted`. The core of the inductive invariant is `InOrder`: endpoint and ring
  together hold the frames of this epoch, numbered without a gap, the part of the batch
  that was given counted once. It needs `BatchInRing` (the worker's copy is still the head
  of the ring, or a clear has emptied the ring and is waiting to be carried out),
  `OneControl` (a control is awaited from its request to its answer, so that none is
  overwritten; while a clear is open the epoch is new and nothing was accepted in it) and,
  for what a flush returns, `FlushAnswered` and `FlushReturned`. `Progress` orders what was
  noted, what the worker has read without the lock and what the endpoint says. The
  invariant is claimed of a stream that has not failed and whose owner has had an answer
  to every control, which is what `Sound` says; slots are reasoned about by lemmas on
  sums and remainders.
- **`ConsoleBrokerInvariant`**, **`ConsoleBrokerProofs`**: for every set of consoles,
  every mode of each and every plan, whatever native calls fail and whatever sinks are
  detached, `IoBelongsToItsBinding` and `BrokerAgrees`, the part of `SettledBroker` that
  is about who is current. The inductive invariant `IInv` follows a handover through its
  steps. `LockHeld`: the output lock is the broker's from the retirement of a reader to
  the end of the takeover. `Installed`: which of the two bindings are installed and
  allocated at each step, so that the one a writer entered with (`WriterBound`) is not
  freed under it. `Retired`: no reader runs while the screen changes hands or once the
  broker is broken. `InputTagged`: what is in the native buffer was typed under the
  binding of the moment, and the broker's own Return comes only after the stop event,
  which the reader looks for before it delivers. `Agreed`: before a retirement and after a
  takeover, successful or rolled back, broker, consoles and backend name the same console
  and generation. `Blamed` is about the error statuses as well, since a broker breaks
  steps after the call that failed. The proofs assume that a console's name is none of the
  values the models use for "no console", "free" and "the broker". `ConsoleBrokerProofs`
  goes on to `SettledBroker` as a whole, for every plan in which no read of the native
  input fails and no sink of a cooked console is detached (`Undisturbed`). The restriction
  is that of the code: a failing read that races a stop, and a missing sink, lose a line
  without an answer (see the deviations below). `LineAccounted` says where the request is
  while it is neither armed nor answered: the calling thread remembers it from the
  retirement to the rollback. `LineRead` says that a reader of lines has a pending line
  until it delivers it.
- **`ProcessorProofs`**, in three parts. *The arithmetic*: for operands of every width,
  the conditions after CMP order signed and unsigned numbers, ADD with ADC adds two words
  exactly, `neg64` negates, `mulu64` is exact (four half products and carries told from
  top bits), and a round of `divu64` keeps the remainder below the divisor and loses no
  bit, also when doubling overflows the word. The whole of `divu64` is an induction over
  its rounds, which is left to TLC. *The segments*: whatever the descriptor tables hold,
  at every level and for every selector, VERR, VERW, LAR, LSL and ARPL agree with a load;
  loads keep `StackInRing` and `DataInRing`, of which `RingsHold` consists; and a return
  to an outer level establishes `DataInRing` with no assumption about what the registers
  held. Each case of the load (null, refused, not present, loaded) is one step. They
  assume of the processor only that its level and the DPLs in its tables are 0 to 3. *The
  translation buffer*: the fast format grants only what a valid entry grants, with the
  same frame, for every shape of the cache. The inductive invariant says that a page the
  index maps has a valid entry of its own at the place the index names, and that the
  addresses kept for that place are that entry's, of the snapshot too: the property alone
  does not say that an index without rights still names its page, on which the next fill
  relies.
- **`PicProofs`**, **`BoardProofs`**: for any number of lines, any cascade line, every
  plan of devices and any depth of nesting, `IntIsSeen`, `EoiEndsItsHandler` and, in plans
  without rotation, `DeliverableIsSignalled` of `Board`, the last two with the exceptions
  that they state; the `processor` run checks the same three on its instance. `PicProofs`
  says of each operation of the controllers what it keeps: `Sane` (the slave's INT line is
  the one counted request of the cascade line, the master's is seen by the CPU, and a line
  is requested exactly while its count is not 0), `Told` (a deliverable request of a
  controller stands behind a raised INT line), and for the slave `Backed` and `Aimed`: why
  a request of the slave that is overtaken between the INT line and the acknowledgement is
  not forgotten. That the scan finds the first of the deliverable lines is the
  least-number principle for their ranks. `BoardProofs` puts the operations together:
  `BoardInv` is inductive by itself, `SignalInv` on top of it is `DeliverableIsSignalled`,
  and `NestInv` says that the handlers that run are ordered by priority, each on a line
  ahead of those below it, so that a non-specific EOI can only find the innermost. They
  assume `BoardAssumption`, which `MCProcessor` has TLC evaluate: only the slave drives
  the cascade line, and a guest that polls uses the master's lines.

Only model-checked: everything about liveness; what a recursive definition computes
(`divu64`, the decimal adjusts as a whole); that gates and task switches keep the rings,
for which the case analysis is over `Transfers` as a whole; `IdleSessionIsCurrent`, which
finding 1 makes false for plans longer than the run's; the requested lines of
`ConsoleBroker` in plans that are not `Undisturbed`; `DeliverableIsSignalled` where the guest
rotates priorities, which changes the order the argument is about; what the handlers of
`Cpu` compute as a whole; all of `Presentation`, whose properties span three threads and
two queues, and of `KeyPath`, whose bytes are folds over sequences.

## Findings

1. **A reset is announced before it happens** (`early_reset_fact`). `reset_active` is set
   before `reset_requested`; a debug stop that parks between them announces
   RESET_COMPLETED.
2. **The answer to an effect is dropped with its run** (`lost_answer`). The stale-run
   filter discards the completion of an effect posted before a reset, and the reducer
   waits for it for ever.
3. **A reset run inherits the display route** (`inherited_route`), which the comment in
   `control_state.c` says must not happen.
4. **A save outlives the reset that abandoned it** (`stale_capture`). A save accepted while
   a reset is under way is abandoned by `finish_requests`, and its caller returns. The
   driver keeps the capture it was asked for, and the next run finishes it, with the
   writer of a caller that is gone. It was met in the attempt to prove
   `NoInputAfterCapture` of every capture; the property therefore speaks of the save that
   is in flight.
5. **A graphic frame goes to the text console** (`mode_switch`). With `console_control`, a
   guest that leaves graphics and comes back before the view of the text frame is up finds
   the surfaces of the new view ready, by facts that are about to change; its frame is
   handed to the raw VM Console, which refuses it, and the session ends.
   `OperatorIsServed` allows the refusal only where a frame overtook the view of the one
   before it (`count.rushed`).
6. **A call gate's parameters are read too late** (`torn_gate`). A gate to an inner ring
   sets CPL, CS and EIP and then reads the parameters from the old stack, which nothing
   has checked; a page fault there finds the program half changed. `FaultIsPrecise`
   leaves out by name a fault in the middle of that transfer (`HalfCalled`);
   `FaultChangesNothing` leaves out nothing.

### Known deviations the plans and properties step around

These were met while modelling; the properties are stated, or the plans bounded, so
that the rest is still checked.

- Finding 1 has a further consequence. With one more event the second reset's fact is
  dropped as stale and PAUSED is not announced, and the monitor is left without a prompt.
  `IdleSessionIsCurrent` therefore leaves out states in which the executor still has a
  transition to finish, and the debugger-reset plan has five events.
- Finding 2 is why no passing `Presentation` plan has both reset and Window close.
- The pause hotkey handled while an ERROR fact is queued is refused and ends the session
  (`session.c:179`, `docs/design/UI.md:39`).
- A failing wait during load can hang: the exit latch it sets is cleared by the restored
  run's own reset, and the join does not return (`driver.c:185`, `emulator/README.md:113`).
  `waits` has load only in the plan without failures.
- The same haste as in finding 5 can leave a resumed Window frozen (`session.c:289`,
  `UI.md:235`): the RUNNING fact leaves the Window to the broker's next fact, and graphics
  that come back at once make that fact needless. `ViewSettles` says that a Window is
  frozen exactly when the machine does not run, but for behaviours in which a frame
  overtook a view.
- What `base_sync_event_reset` answers is ignored by the session queue (`control.c:198`).
  After a failed reset the next take finds nothing and ends the session; `SignalIsExact`
  says so (`unreset`), and nothing is lost.
- Pausing forgets held keys without a break to the guest (`control.c:262`, `UI.md:286`).
  `NoStuckKey` and `KeysComeUp` leave out runs that were paused.
- A PCM control whose wait ends without the worker's answer, because the wait primitive
  fails or the stream was cancelled, is still carried out later: its answer may be taken
  for that of the next request, and a flush may replace a clear not yet done
  (`stream.c:394`). A destroy that failed half-way leaves a cancelled stream whose further
  controls all end so; the attempt to prove `StreamInOrder` showed that the property did
  not hold there. The properties of `PcmStream` leave out the calls after such a wait
  (`cl.lost`).

The following can be seen by giving `Plans` the named value in the module and checking the
named property, with the other constants as in the runs of that part:

| Module, plans, property | Deviation |
|---|---|
| `MCLifecycle`, `SavePlans`, `RefusedOnlyByError` | The pause hotkey queued while save parks the machine is dispatched as a pause of a paused machine, refused, and the refusal ends the session (`session.c:179`, `UI.md:293`) |
| `MCBoard`, `MousePlans`, `IrrGeneratesInterrupt` | An acknowledge cycle that finds no request of the slave left is rejected without a new scan, and a request that may be delivered stays unsignalled (`ica.c:1330`, comment at `ica.c:402`) |
| `MCPaging`, `MCCoprocessor`, `OperandIsWalked` | The check of a coprocessor operand covers two of its bytes; one that spans two pages is reached by the first page's frame (`c_oprnd.h:209`) |
| `MCProtection`, `MCTaskOf8086`, `TaskStartsWhereItStopped` | A switch to a task of virtual 8086 mode loads CS from a variable nobody has set (`c_tsksw.c:561`) |

- Interrupt controllers: in automatic-EOI mode an interrupt can be lost; polling the slave
  clears the CPU's bit while the master still counts on it; a change of the special mask
  mode or of the priorities does not scan again; raising a slave line with `ica_lock` at 0
  underflows the counter; a cold reset clears the CPU's map with a master request
  pending; initialising only the master leaves the slave's `cpu_int` stale. No plan of a
  passing run has automatic EOI, slave polls, or slave lines raised from outside
  `ica_hw_interrupt`; `DeliverableIsSignalled` leaves out mode and priority changes. A line
  whose delay is called off (`compat/eoi.c`, `host_DelayHwInterrupt` with no delay) is let
  through without a scan: with a second request outstanding that one waits for the next
  scan. The attempt to prove the property showed it; it speaks of held lines with one
  request at most.
- Console broker: a failing read that races a stop loses the requested line without an
  answer (`win32/console.c:255`, comment at 637); a sink detached while its console is
  current makes the next replacement break the broker. `failing` of the plans with
  handovers leaves "read" out where a reader is being stopped, as the comment of
  `SettledBroker` says.
- Arithmetic: IDIV of the most negative double word by -1 is undefined in C; the model
  traps, as the guest expects.
- Paging: `xtrn2phy` combines the protection of the two levels otherwise than `lin2phy`;
  the BIOS entry points pass the supervisor bit inverted; a reset of the CPU or of CR0.PG
  does not flush; CR2 of an operand over two pages is that of its last byte.
- Protection: the parameter count of a 32-bit gate is cut to four bits; the size of the
  TSS is not checked when a stack is taken from it; a fault after the commit point of a
  task switch is charged to the old task's EIP though the comment (`c_tsksw.c:394`) says
  otherwise; one taken through a task gate saves flags without RF; a real-mode vector
  table out of reach recurses without end; a shutdown leaves `doing_fault` set.

## Not modelled

Left out of the modelled parts: mouse routing, titles, the status picture, message text
and the snapshot's byte format; in `Protection`, expand-down stacks, debug traps, POPF, the
switch of PE, what a task keeps in general registers, pages other than those of stacks,
and everything after a shutdown.

The floating-point unit computes in floating point, which these tools do not have. The
generated video code (`base/cvidc`, a third of the repository) is one memory-plane
operation written out for every combination of write mode, width and direction: there is
no state machine in it, and its inputs are beyond enumeration. The debugger's language,
the product's configuration and the BIOS services are pure text processing, or sequential
code with one caller. The timer, DMA, disk, serial, keyboard and sound devices are register
files that a guest drives through ports; `Board` has them as devices that may raise and
lower their lines at any time, which is all the CPU sees of them. Native windows, COM,
consoles and files are represented by their contracts. `PROJECT.json` lists each part and
the reason.
