------------------------------ MODULE PageWalk ------------------------------
(***************************************************************************)
(* What the paging unit promises: a processor without any translation      *)
(* cache.  Each instruction walks the tables in memory for every byte of   *)
(* its operands; a fault anywhere leaves memory as it was but for the      *)
(* accessed bits of what was walked before.                                *)
(*                                                                         *)
(* After the guest has changed a present page entry the translation of its *)
(* pages is open (stale) until the directory is loaded again, and that of  *)
(* every page after it has written the cache through the test registers    *)
(* (own), as on the processor that is emulated.                            *)
(***************************************************************************)
EXTENDS Operands

VARIABLES
  t,        \* [pde, pte, cr3, cr2, pg, cpl]
  kept,     \* t, stale and own as a snapshot captured them
  stale,    \* pages whose entry changed since the last flush
  own,      \* the guest has loaded translations itself
  last,     \* what the last step did
  plan

walkVars == <<t, kept, stale, own, last, plan>>

Did(fault, loads, stores) == [fault |-> fault, loads |-> loads, stores |-> stores]
Nothing == Did(NoFault, {}, {})

(***************************************************************************)
(* The walk of one page, and of a sequence of them up to the first fault.  *)
(***************************************************************************)
Walk(r, page, access) ==
  IF WalkFault(r, page, access) # NoFault
    THEN [r |-> [r EXCEPT !.cr2 = page], fault |-> WalkFault(r, page, access)]
    ELSE [r |-> [r EXCEPT !.pde = MarkedPDE(r, page), !.pte = MarkedPTE(r, page, access)],
          fault |-> NoFault]

PagesOf(item) == {PageOf(b) : b \in LinearBytes(item)}

WalkItem(acc, item, access) ==
  FoldLeft(LAMBDA c, page : IF c.fault # NoFault THEN c ELSE Walk(c.r, page, access),
           acc, SetToSortSeq(PagesOf(item), <))

WalkOperand(acc, op) ==
  IF ~ acc.r.pg THEN acc
  ELSE FoldLeft(LAMBDA c, item : WalkItem(c, item, CheckAccess(op, acc.r.cpl)), acc, Items(op))

WalkAll(ops) == FoldLeft(WalkOperand, [r |-> t, fault |-> NoFault], ops)

Physical(r, b) ==
  IF r.pg THEN PTE(r, PageOf(b)).pfa * PageSize + OffsetIn(b) ELSE b

BytesOf(items) == UNION {LinearBytes(items[k]) : k \in DOMAIN items}

Moved(r, ops, Part(_)) ==
  UNION {{<<b, Physical(r, b)>> : b \in BytesOf(Part(ops[k]))} : k \in DOMAIN ops}

Touched(ops) ==
  UNION {{PageOf(b) : b \in BytesOf(Items(ops[k]))} : k \in DOMAIN ops}

Open(pages) == t.pg /\ (own \/ pages \cap stale # {})

(***************************************************************************)
(* Steps.                                                                  *)
(***************************************************************************)
(* With an open translation only the registers are promised.               *)
Unpromised == t' = [t EXCEPT !.pde = t'.pde, !.pte = t'.pte, !.cr2 = t'.cr2]

Execute(ops) ==
  /\ IF Open(Touched(ops)) THEN Unpromised
     ELSE LET w == WalkAll(ops)
          IN  /\ t' = w.r
              /\ last' = IF w.fault # NoFault THEN Did(w.fault, {}, {})
                         ELSE Did(NoFault, Moved(w.r, ops, FetchItems), Moved(w.r, ops, PutItems))
  /\ UNCHANGED <<kept, stale, own>>

External(page, access, strict) ==
  /\ IF Open({page}) THEN Unpromised
     ELSE IF ~ t.pg THEN t' = t /\ last' = Did(NoFault, {<<page, page>>}, {})
     ELSE IF WalkFault(t, page, access) # NoFault THEN t' = t /\ last' = Nothing
     ELSE /\ t' = IF strict THEN [t EXCEPT !.pde = MarkedPDE(t, page),
                                           !.pte = MarkedPTE(t, page, access)] ELSE t
          /\ last' = Did(NoFault, {<<page, PTE(t, page).pfa>>}, {})
  /\ UNCHANGED <<kept, stale, own>>

(* A load of the directory makes every translation current again.          *)
LoadCR3(dir) ==
  t' = [t EXCEPT !.cr3 = dir] /\ stale' = {} /\ own' = FALSE /\ last' = Nothing /\ UNCHANGED kept

SwitchCR3(dir) ==
  \/ dir # t.cr3 /\ LoadCR3(dir)
  \/ dir = t.cr3 /\ last' = Nothing /\ UNCHANGED <<t, kept, stale, own>>

StoreEntry(table, i, e) ==
  /\ t' = [t EXCEPT !.pte[table][i] = e]
  /\ stale' = stale \cup IF t.pte[table][i].p THEN {q \in Pages : q % TableSize = i} ELSE {}
  /\ last' = Nothing /\ UNCHANGED <<kept, own>>

WriteTR == own' = TRUE /\ last' = Nothing /\ UNCHANGED <<t, kept, stale>>

SetRegisters ==
  /\ t' = [t EXCEPT !.pg = t'.pg, !.cpl = t'.cpl]
  /\ last' = Nothing /\ UNCHANGED <<kept, stale, own>>

Save == kept' = <<t, stale, own>> /\ last' = Nothing /\ UNCHANGED <<t, stale, own>>

Resume == <<t, stale, own>>' = kept /\ last' = Nothing /\ UNCHANGED kept

WalkNext ==
  /\ \/ \E ops \in plan.instructions : Execute(ops)
     \/ \E x \in plan.externals : External(x.page, BiosAccess(x.write, t.cpl), x.vm)
     \/ \E dir \in Dirs : LoadCR3(dir) \/ SwitchCR3(dir)
     \/ \E s \in plan.edits : StoreEntry(s.table, s.i, s.e)
     \/ WriteTR
     \/ SetRegisters
     \/ Save
     \/ Resume
  /\ UNCHANGED plan

WalkInit == stale = {} /\ own = FALSE /\ last = Nothing /\ kept = <<t, stale, own>>

WalkSpec == WalkInit /\ [][WalkNext]_walkVars
=============================================================================
