----------------------------- MODULE MCProcessor -----------------------------
(***************************************************************************)
(* What the executor's thread emulates: the memory that operands reach     *)
(* (MCPaging), the arithmetic of instructions (MCCpu), the transfers       *)
(* between rings and tasks (MCProtection), and the interrupts between      *)
(* instructions (MCBoard).  They share no state; each behaviour is one of  *)
(* theirs.                                                                 *)
(***************************************************************************)
EXTENDS MCPaging, MCCpu

CONSTANTS
  NrLines, Cascade, NestLimit, LinePlans,   \* of MCBoard
  Ldts, RealLimit, RingPlans                \* of MCProtection

VARIABLES
  w, flag, stack, half, lines,
  cpu, began, chain, outside, frames, came, taken, routine,
  part    \* whose behaviour this is

Interrupts == INSTANCE MCBoard WITH N <- NrLines, Plans <- LinePlans, plan <- lines

Instances == INSTANCE MCBoard WITH N <- NrLines, Plans <- {}, plan <- lines
MCLinePlans == Instances!MCPlans

Rings == INSTANCE MCProtection
           WITH Plans <- RingPlans, m <- cpu, start <- began, steps <- taken, plan <- routine

Routines == INSTANCE MCProtection
              WITH Plans <- {}, Ldts <- <<>>, RealLimit <- 0,
                   m <- cpu, start <- began, steps <- taken, plan <- routine
MCRingPlans == Routines!MCPlans
MCLdts == Routines!MCLdts
MCRealLimit == Routines!MCRealLimit

(* A segment of real and virtual 8086 mode has room.                       *)
ASSUME RealSegmentAssumption == Rings!SegmentsAssumption

(* What the proofs of BoardProofs assume of a board's plans.               *)
ASSUME LinePlansAssumption == Interrupts!BoardAssumption

lineVars == <<w, flag, stack, half, lines>>
ringVars == <<cpu, began, chain, outside, frames, came, taken, routine>>
all == <<vars, programVars, lineVars, ringVars, part>>

(* A part whose behaviour this is not stands still.                        *)
NoMemory ==
  /\ m = Empty(PDEs(User), OpenTables, "one", 0)
  /\ saved = 0 /\ stale = {} /\ own = FALSE /\ savedOpen = 0 /\ last = 0 /\ steps = 0 /\ plan = 0
NoArithmetic == text = [code |-> <<0>>] /\ pc = 1 /\ reg = 0 /\ f = 0 /\ trap = "none" /\ start = 0
NoInterrupts == w = 0 /\ flag = 0 /\ stack = 0 /\ half = 0 /\ lines = 0

NoTransfers ==
  /\ cpu = 0 /\ began = 0 /\ chain = <<>> /\ outside = FALSE /\ frames = <<>> /\ came = {}
  /\ taken = 0 /\ routine = 0

InitEach ==
  \/ part = "memory" /\ Init /\ NoArithmetic /\ NoInterrupts /\ NoTransfers
  \/ part = "arithmetic" /\ ProgramInit /\ NoMemory /\ NoInterrupts /\ NoTransfers
  \/ part = "interrupts" /\ Interrupts!Init /\ NoMemory /\ NoArithmetic /\ NoTransfers
  \/ part = "transfers" /\ Rings!Init /\ NoMemory /\ NoArithmetic /\ NoInterrupts

MemoryStep == part = "memory" /\ Next /\ UNCHANGED <<programVars, lineVars, ringVars, part>>
ArithmeticStep ==
  part = "arithmetic" /\ ProgramNext /\ UNCHANGED <<vars, lineVars, ringVars, part>>
InterruptStep ==
  part = "interrupts" /\ Interrupts!Next /\ UNCHANGED <<vars, programVars, ringVars, part>>
TransferStep == part = "transfers" /\ Rings!Next /\ UNCHANGED <<vars, programVars, lineVars, part>>

SpecEach == InitEach /\ [][MemoryStep \/ ArithmeticStep \/ InterruptStep \/ TransferStep]_all

(* The caches are not to be seen: TlbIsTransparent of Paging, asked only   *)
(* of the behaviours in which the memory moves.                            *)
CachesAreTransparent ==
  /\ part = "memory" => PW!WalkInit
  /\ [][part = "memory" => PW!WalkNext \/ UNCHANGED PW!walkVars]_vars

(* A raised INT line is seen by whom it interrupts: see Board.             *)
IntIsSeen == part = "interrupts" => Interrupts!IntIsSeen

(* A handler's EOI ends that handler: see Board.                           *)
EoiEndsItsHandler == part = "interrupts" => Interrupts!EoiEndsItsHandler

(* A request that may be delivered is signalled: see Board.                *)
DeliverableIsSignalled == part = "interrupts" => Interrupts!DeliverableIsSignalled

(* The registers hold what their ring may load: see Protection.            *)
RingsHold == part = "transfers" => Rings!RingsHold

(* A fault leaves the program as it was: see Protection.                   *)
FaultIsPrecise == part = "transfers" => Rings!FaultIsPrecise

(* A return finds what its transfer left: see Protection.                  *)
ReturnRestores == part = "transfers" => Rings!ReturnRestores

(* The handler that runs is the one due: see Protection.                   *)
RightHandlerRuns == part = "transfers" => Rings!RightHandlerRuns

(* A back link names a task that waits: see Protection.                    *)
BackLinksNameWaiting == part = "transfers" => Rings!BackLinksNameWaiting

(* What VERR and VERW answer is what a load does: see Protection.          *)
VerifyPredictsLoad == part = "transfers" => Rings!VerifyPredictsLoad
=============================================================================
