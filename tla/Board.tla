-------------------------------- MODULE Board --------------------------------
(***************************************************************************)
(* The interrupt path of the machine: devices raise and withdraw lines of  *)
(* the controllers (Pic), the CPU acknowledges at an instruction boundary  *)
(* (ccpu386/c_main.c), the guest masks lines and ends its handlers, and a  *)
(* device may have its line held back for a time (compat/eoi.c).  All of   *)
(* it runs on the executor's thread, so that a call is one step.           *)
(*                                                                         *)
(* The guest is any program whose handlers end with their interrupts off:  *)
(* EOI to the slave for a slave's line, EOI to the master, IRET.           *)
(***************************************************************************)
EXTENDS Pic, Sequences

CONSTANTS
  NestLimit,   \* handlers that run at once in this model
  Plans        \* per behaviour: lines that devices raise and withdraw, lines
               \* held back, requests a line may have outstanding, masks and
               \* modes the guest uses

(* Only the slave drives the cascade line, and a guest that polls uses     *)
(* lines of the master alone: it reads one controller of the two.          *)
BoardAssumption ==
  /\ N \in Nat \ {0} /\ Cascade \in Lines
  /\ \A p \in Plans :
       /\ p.limit \in Nat
       /\ <<"m", Cascade>> \notin p.raised \cup p.withdrawn /\ Cascade \notin p.held
       /\ "poll" \in p.modes =>
            \A l \in Lines : <<"s", l>> \notin p.raised \cup p.withdrawn

VARIABLES
  w,      \* the controllers and the CPU's hardware-interrupt bit
  flag,   \* the CPU's interrupt flag
  stack,  \* the handlers that run, as the vectors they were entered by
  half,   \* the innermost handler has sent the slave's EOI, not the master's
  plan    \* the plan of this behaviour

vars == <<w, flag, stack, half, plan>>

Init ==
  /\ plan \in Plans
  /\ \E masks \in [Adapters -> UNION {plan.masks[a] : a \in Adapters}] :
       (\A a \in Adapters : masks[a] \in plan.masks[a]) /\ w = Post(masks)
  /\ flag = FALSE
  /\ stack = <<>>
  /\ half = FALSE

(***************************************************************************)
(* Devices.                                                                *)
(***************************************************************************)
Raise(a, line) ==
  /\ <<a, line>> \in plan.raised /\ w.c[a].count[line] < plan.limit
  /\ w' = SWPIC_hw_interrupt(w, a, line, 1)
  /\ UNCHANGED <<flag, stack, half>>

Clear(a, line) ==
  /\ <<a, line>> \in plan.withdrawn
  /\ w' = SWPIC_clear_int(w, a, line)
  /\ UNCHANGED <<flag, stack, half>>

Cancel(a, line) ==
  /\ <<a, line>> \in plan.withdrawn
  /\ w' = ica_hw_interrupt_cancel(w, a, line)
  /\ UNCHANGED <<flag, stack, half>>

(* host_DelayHwInterrupt: the line is held back, then requested.           *)
host_DelayHwInterrupt(line) ==
  /\ line \in plan.held /\ w.c["m"].count[line] < plan.limit
  /\ w' = SWPIC_hw_interrupt([w EXCEPT !.delayed["m"] = @ \cup {line}], "m", line, 1)
  /\ UNCHANGED <<flag, stack, half>>

(* softpc_eoi_release, when the delay is over.                             *)
softpc_eoi_release(line) ==
  /\ line \in w.delayed["m"]
  /\ w' = Signal([w EXCEPT !.delayed["m"] = @ \ {line}], "m")
  /\ UNCHANGED <<flag, stack, half>>

(* StopDspTransfer gives up the delay and withdraws a request.             *)
StopDelayed(line) ==
  /\ line \in plan.held
  /\ w' = SWPIC_clear_int([w EXCEPT !.delayed["m"] = @ \ {line}], "m", line)
  /\ UNCHANGED <<flag, stack, half>>

(***************************************************************************)
(* The CPU and the guest.                                                  *)
(***************************************************************************)

(* An enabled hardware interrupt is acknowledged; a rejected one enters no *)
(* handler.                                                                *)
TakeInterrupt ==
  /\ flag /\ w.hwInt
  /\ w' = Acknowledge(w)
  /\ IF Vector(w) = Reject THEN UNCHANGED <<flag, stack>>
     ELSE flag' = FALSE /\ stack' = Append(stack, Vector(w))
  /\ UNCHANGED half

(* A guest with its interrupts off polls the master and runs the handler   *)
(* of the line it reads.                                                   *)
Poll ==
  /\ "poll" \in plan.modes /\ ~flag /\ ~half /\ Len(stack) < NestLimit
  /\ w' = inb_poll(ocw3_poll(w, "m"), "m")
  /\ stack' = IF Deliverable(w, "m") = {} THEN stack ELSE Append(stack, <<"m", Scan(w, "m")>>)
  /\ UNCHANGED <<flag, half>>

SetFlag ==
  /\ ~half /\ (flag \/ Len(stack) < NestLimit)
  /\ flag' = ~flag
  /\ UNCHANGED <<w, stack, half>>

Mask(a, mask) ==
  /\ mask \in plan.masks[a]
  /\ w' = ocw1(w, a, mask)
  /\ UNCHANGED <<flag, stack, half>>

Top == stack[Len(stack)]

(* The EOI the handler of a line sends to a controller.                    *)
Ended(a, line) ==
  \/ w' = ocw2_eoi(w, a, None, FALSE)
  \/ "specific" \in plan.modes /\ w' = ocw2_eoi(w, a, line, FALSE)
  \/ "rotate" \in plan.modes /\ w' = ocw2_eoi(w, a, None, TRUE)

EndSlave ==
  /\ stack # <<>> /\ ~flag /\ ~half /\ Top[1] = "s"
  /\ Ended("s", Top[2])
  /\ half' = TRUE
  /\ UNCHANGED <<flag, stack>>

EndMaster ==
  /\ stack # <<>> /\ ~flag /\ (Top[1] = "s") = half
  /\ Ended("m", IF half THEN Cascade ELSE Top[2])
  /\ flag' = TRUE
  /\ stack' = SubSeq(stack, 1, Len(stack) - 1)
  /\ half' = FALSE

SpecialMask(a, on) ==
  /\ "smm" \in plan.modes
  /\ w' = ocw3_smm(w, a, on)
  /\ UNCHANGED <<flag, stack, half>>

SetPriority(a, line) ==
  /\ "priority" \in plan.modes
  /\ w' = ocw2_priority(w, a, line)
  /\ UNCHANGED <<flag, stack, half>>

(* The BIOS's return from protected mode through a CPU reset, with the     *)
(* controllers reprogrammed and every line masked.                         *)
Reprogrammed(v, a, slaves, id) ==
  ocw1(icw4(icw3(icw2(icw1(v, a), a), a, slaves, id), a, FALSE, FALSE), a, Lines)

Shutdown ==
  /\ "shutdown" \in plan.modes /\ Lines \in plan.masks["m"] \cap plan.masks["s"]
  /\ LET v == Reprogrammed(Reprogrammed(w, "m", {Cascade}, 0), "s", {}, Cascade)
     IN w' = [ocw2_eoi(v, "m", None, FALSE) EXCEPT !.hwInt = FALSE]
  /\ flag' = FALSE /\ stack' = <<>> /\ half' = FALSE

(* A cold run: the controllers are posted, the keyboard's line is dropped, *)
(* and the CPU's pending bits are cleared, with no request left by the     *)
(* devices' own initialisation.                                            *)
ColdReset ==
  /\ "reset" \in plan.modes
  /\ \E mask \in plan.masks["m"], slave \in plan.masks["s"] :
       w' = [SWPIC_clear_int(Post([a \in Adapters |-> IF a = "m" THEN mask ELSE slave]),
                             "m", 0)
             EXCEPT !.hwInt = FALSE]
  /\ flag' = FALSE /\ stack' = <<>> /\ half' = FALSE

Next ==
  /\ \/ \E a \in Adapters, line \in Lines :
          Raise(a, line) \/ Clear(a, line) \/ Cancel(a, line) \/ SetPriority(a, line)
     \/ \E line \in Lines :
          host_DelayHwInterrupt(line) \/ softpc_eoi_release(line) \/ StopDelayed(line)
     \/ \E a \in Adapters : \E mask \in plan.masks[a] : Mask(a, mask)
     \/ \E a \in Adapters, on \in BOOLEAN : SpecialMask(a, on)
     \/ TakeInterrupt \/ Poll \/ SetFlag \/ EndSlave \/ EndMaster \/ Shutdown \/ ColdReset
  /\ UNCHANGED plan

Spec == Init /\ [][Next]_vars

(***************************************************************************)
(* Properties.                                                             *)
(***************************************************************************)
TypeOK ==
  /\ w \in Boards
  /\ flag \in BOOLEAN /\ half \in BOOLEAN
  /\ stack \in Seq(Adapters \X Lines)

(* A raised INT line is seen: the controllers do nothing for a new request *)
(* while their INT line is high, so the CPU's bit must be set whenever the *)
(* master believes it has interrupted the CPU, and the master must have    *)
(* the slave's request whenever the slave believes it has made one.  If it *)
(* were not so, no later interrupt would ever arrive.  And a line is       *)
(* requested exactly while requests are outstanding on it, the slave       *)
(* having at most one on the master.                                       *)
IntIsSeen ==
  /\ w.c["m"].cpuInt => w.hwInt
  /\ w.c["s"].cpuInt => Cascade \in w.c["m"].irr
  /\ w.lock = 0
  /\ \A a \in Adapters, l \in Lines : l \in w.c[a].irr <=> w.c[a].count[l] > 0
  /\ w.c["m"].count[Cascade] = IF w.c["s"].cpuInt THEN 1 ELSE 0

(* A handler's EOI ends that handler: the lines in service are those of    *)
(* the handlers that run, through every nesting, rejected acknowledgement, *)
(* mask and withdrawal, as long as the guest leaves the priorities alone.  *)
InService(a) ==
  {Cascade : i \in {j \in 1..Len(stack) : a = "m" /\ stack[j][1] = "s"}}
    \cup {stack[i][2] : i \in {j \in 1..Len(stack) : stack[j][1] = a}}

EoiEndsItsHandler ==
  plan.modes \cap {"smm", "priority", "rotate"} = {} =>
    /\ w.c["m"].isr = InService("m")
    /\ w.c["s"].isr = InService("s") \ (IF half THEN {Top[2]} ELSE {})

(* What ica_scan_irr's comment promises: a request that is not masked and  *)
(* not blocked by the lines in service generates an interrupt; that is,    *)
(* its controller's INT line is high.                                      *)
IrrGeneratesInterrupt ==
  \A a \in Adapters : Deliverable(w, a) # {} => w.c[a].cpuInt

(* The promise is kept where the guest leaves the priorities and the mask  *)
(* mode alone, no line of the slave is both masked and withdrawn, and a    *)
(* line that is held back has one request at most: then every mask, EOI,   *)
(* withdrawal and acknowledgement scans again when it must.                *)
DeliverableIsSignalled ==
  /\ plan.modes \cap {"smm", "priority"} = {}
  /\ plan.masks["s"] = {{}} \/ plan.withdrawn \cap ({"s"} \X Lines) = {}
  /\ plan.held = {} \/ plan.limit <= 1
  => IrrGeneratesInterrupt
=============================================================================
