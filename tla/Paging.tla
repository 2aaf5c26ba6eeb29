------------------------------- MODULE Paging -------------------------------
(***************************************************************************)
(* The paging unit at work (ccpu386/c_page.c over c_tlb.c): instructions   *)
(* that check all their operands before they touch one, and then reach     *)
(* each operand by the physical address its check returned, or, where that *)
(* is 0 because the operand spans two pages, by translating again.         *)
(* A plan fixes which instructions, page-table edits, test-register writes *)
(* and accesses of the board take part.                                    *)
(***************************************************************************)
EXTENDS Tlb, Operands

CONSTANTS Plans

VARIABLES
  stale, own,  \* as PageWalk has them: pages edited since the last flush; TLB written by hand
  savedOpen,   \* stale and own of the snapshot
  last,        \* what the last step did: fault, bytes loaded, bytes stored
  steps,       \* steps taken, at most plan.steps
  plan

ghosts == <<stale, own, savedOpen>>
vars == <<tlbVars, ghosts, last, steps, plan>>

NoPhysicalMapping == 0

Did(fault, loads, stores) == [fault |-> fault, loads |-> loads, stores |-> stores]
Nothing == Did(NoFault, {}, {})

(***************************************************************************)
(* c_page.c.  Every function takes the state r and returns the next one.   *)
(***************************************************************************)
Translated(r, lin, access) ==
  IF ~ r.pg THEN [r |-> r, fault |-> NoFault, pa |-> lin]
  ELSE LET f == lin2phy(r, PageOf(lin), access)
       IN  [f EXCEPT !.pa = @ * PageSize + OffsetIn(lin)]

(* usr_chk_byte, _word, _dword.                                            *)
usr_chk(r, item, access) ==
  LET first == Translated(r, item.lin, access)
  IN  IF first.fault # NoFault \/ ~ r.pg \/ ~ Spans(item.lin, item.size) THEN first
      ELSE LET second == Translated(first.r, item.lin + item.size - 1, access)
           IN  [second EXCEPT !.pa = NoPhysicalMapping]

(* The pieces spr_read_x and spr_write_x translate one by one.             *)
WordParts(lin, paged) ==
  IF paged /\ Spans(lin, 2) THEN <<<<lin, 1>>, <<lin + 1, 1>>>> ELSE <<<<lin, 2>>>>

SprParts(item, paged) ==
  CASE item.size = 1 -> <<<<item.lin, 1>>>>
    [] item.size = 2 -> WordParts(item.lin, paged)
    [] item.size = 4 /\ paged /\ Spans(item.lin, 4) ->
         WordParts(item.lin, TRUE) \o WordParts(item.lin + 2, TRUE)
    [] item.size = 4 /\ ~ (paged /\ Spans(item.lin, 4)) -> <<<<item.lin, 4>>>>
    [] OTHER -> [k \in 1 .. item.size |-> <<item.lin + item.size - k, 1>>]

Bytes(lin, pa, n) == {<<lin + k, pa + k>> : k \in 0 .. n - 1}

(* acc is [r, fault, bytes]: the state, the fault taken, the bytes moved.  *)
SprPart(acc, part, access) ==
  IF acc.fault # NoFault THEN acc
  ELSE LET f == Translated(acc.r, part[1], access)
       IN  [r |-> f.r, fault |-> f.fault,
            bytes |-> IF f.fault # NoFault THEN acc.bytes
                      ELSE acc.bytes \cup Bytes(part[1], f.pa, part[2])]

(* vir_read_x and vir_write_x: by the physical address if there is one.    *)
VirMove(acc, item, pa, access) ==
  CASE acc.fault # NoFault -> acc
    [] acc.fault = NoFault /\ pa # NoPhysicalMapping ->
         [acc EXCEPT !.bytes = @ \cup Bytes(item.lin, pa, item.size)]
    [] OTHER -> FoldLeft(LAMBDA c, part : SprPart(c, part, access), acc, SprParts(item, acc.r.pg))

(***************************************************************************)
(* An instruction.                                                         *)
(***************************************************************************)
(* Decoding checks the operands in turn; pas are the addresses it keeps.   *)
(* The stack functions keep none.                                          *)
CheckItem(acc, item, access) ==
  IF acc.fault # NoFault THEN acc ELSE usr_chk(acc.r, item, access)

CheckOperand(acc, op) ==
  LET c == FoldLeft(LAMBDA d, item : CheckItem(d, item, CheckAccess(op, acc.r.cpl)),
                    [r |-> acc.r, fault |-> acc.fault, pa |-> NoPhysicalMapping], CheckedItems(op))
  IN  [r |-> c.r, fault |-> c.fault,
       pas |-> Append(acc.pas, IF op.kind \in {"push", "pop"} THEN NoPhysicalMapping ELSE c.pa)]

Decode(ops) == FoldLeft(CheckOperand, [r |-> m, fault |-> NoFault, pas |-> <<>>], ops)

MoveAll(r, fault, ops, pas, access) ==
  FoldLeft(LAMBDA acc, k : FoldLeft(LAMBDA c, item : VirMove(c, item, pas[k], access),
                                    acc, IF access = PG_W THEN PutItems(ops[k]) ELSE FetchItems(ops[k])),
           [r |-> r, fault |-> fault, bytes |-> {}], [k \in 1 .. Len(ops) |-> k])

(* Then it fetches its sources, and last it puts its results away.         *)
PutAll(ops, pas, f) ==
  LET Ended(p) == /\ m' = p.r
                  /\ last' = Did(p.fault, f.bytes, p.bytes)
                  /\ UNCHANGED <<saved, ghosts>>
  IN  Ended(MoveAll(f.r, f.fault, ops, pas, PG_W))

FetchAll(ops, d) == PutAll(ops, d.pas, MoveAll(d.r, d.fault, ops, d.pas, 0))

Execute(ops) == FetchAll(ops, Decode(ops))

(***************************************************************************)
(* The other steps.                                                        *)
(***************************************************************************)
(* The board or the BIOS reaches a byte of the guest by xtrn2phy; in V86   *)
(* mode it wants the accessed and dirty bits brought up to date.           *)
External(page, write, vm) ==
  /\ vm => m.cpl = 3
  /\ LET x == xtrn2phy(m, page, BiosAccess(write, m.cpl), vm)
     IN  IF m.pg THEN /\ m' = x.r
                      /\ last' = IF x.ok THEN Did(NoFault, {<<page, x.pa>>}, {}) ELSE Nothing
         ELSE UNCHANGED m /\ last' = Did(NoFault, {<<page, page>>}, {})
  /\ UNCHANGED <<saved, ghosts>>

LoadCR3(dir) ==
  /\ LoadDirectory(dir)
  /\ stale' = {} /\ own' = FALSE /\ last' = Nothing /\ UNCHANGED savedOpen

SwitchCR3(dir) ==
  /\ SwitchDirectory(dir)
  /\ IF dir # m.cr3 THEN stale' = {} /\ own' = FALSE ELSE UNCHANGED <<stale, own>>
  /\ last' = Nothing /\ UNCHANGED savedOpen

StoreEntry(table, i, e) ==
  /\ StorePTE(table, i, e)
  /\ stale' = stale \cup IF m.pte[table][i].p THEN {q \in Pages : q % TableSize = i} ELSE {}
  /\ last' = Nothing /\ UNCHANGED <<own, savedOpen>>

WriteTR(e, rep) ==
  WriteTest(e, rep) /\ own' = TRUE /\ last' = Nothing /\ UNCHANGED <<stale, savedOpen>>

SetPG(on) == SetPaging(on) /\ last' = Nothing /\ UNCHANGED ghosts

SetCPL(cpl) == SetPrivilege(cpl) /\ last' = Nothing /\ UNCHANGED ghosts

Save == Capture /\ savedOpen' = <<stale, own>> /\ last' = Nothing /\ UNCHANGED <<stale, own>>

Resume ==
  /\ Restore /\ stale' = savedOpen[1] /\ own' = savedOpen[2]
  /\ last' = Nothing /\ UNCHANGED savedOpen

Init ==
  /\ plan \in Plans
  /\ m = [Empty(plan.pde, plan.pte, plan.dir, plan.frame) EXCEPT !.cpl = plan.cpl]
  /\ saved = m
  /\ stale = {} /\ own = FALSE /\ savedOpen = <<{}, FALSE>>
  /\ last = Nothing /\ steps = 0

Next ==
  /\ steps < plan.steps /\ steps' = steps + 1
  /\ \/ \E ops \in plan.instructions : Execute(ops)
     \/ \E x \in plan.externals : External(x.page, x.write, x.vm)
     \/ \E dir \in plan.loads : LoadCR3(dir)
     \/ \E dir \in plan.switches : SwitchCR3(dir)
     \/ \E s \in plan.edits : StoreEntry(s.table, s.i, s.e)
     \/ \E w \in plan.tests : WriteTR(w.e, w.rep)
     \/ \E on \in plan.paging : SetPG(on)
     \/ \E cpl \in plan.levels : SetCPL(cpl)
     \/ plan.snapshots /\ (Save \/ Resume)
  /\ UNCHANGED plan

Spec == Init /\ [][Next]_vars

(***************************************************************************)
(* Properties.                                                             *)
(***************************************************************************)
Registers(r) ==
  [pde |-> r.pde, pte |-> r.pte, cr3 |-> r.cr3, cr2 |-> r.cr2, pg |-> r.pg, cpl |-> r.cpl]

PW == INSTANCE PageWalk WITH
        t <- Registers(m), kept <- <<Registers(saved), savedOpen[1], savedOpen[2]>>

(* The caches are not to be seen: with them every instruction loads and    *)
(* stores the very bytes, takes the very fault with the very code and CR2, *)
(* and leaves the very accessed and dirty bits in memory, that a walk of   *)
(* the tables for each of its bytes gives.  That covers an operand over    *)
(* two pages of which the second faults (nothing is stored), a write to a  *)
(* page cached clean, a page evicted between the check of an operand and   *)
(* its use, and a load of CR3 or a snapshot in between (c_page.c's         *)
(* contract that the vir functions cannot fault after a usr_chk).          *)
TlbIsTransparent == PW!WalkSpec

(* A coprocessor operand is checked like any other: its bytes are those    *)
(* the tables give (c_page.c: usr_chk_ "Checks User Access to given data   *)
(* item").                                                                 *)
OperandIsWalked ==
  \A b \in last.loads \cup last.stores :
    m.pg /\ stale = {} /\ ~ own => b[2] = PTE(m, PageOf(b[1])).pfa * PageSize + OffsetIn(b[1])
=============================================================================
