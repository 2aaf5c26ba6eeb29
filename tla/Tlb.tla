--------------------------------- MODULE Tlb ---------------------------------
(***************************************************************************)
(* The translation lookaside buffer of the CPU (ccpu386/c_tlb.c): the      *)
(* Intel-format cache tlb[set][entry], filled round robin per entry, and   *)
(* over it the fast format: page_index says where a page is cached,        *)
(* page_address which frame each kind of access gets at once.              *)
(*                                                                         *)
(* Everything lin2phy reads or writes is one record m, so that the calls   *)
(* one instruction makes can be chained:                                   *)
(*   tlb, next, index, address    the caches                               *)
(*   pde, pte                     the page tables in memory                *)
(*   cr3, cr2                     page directory in use, page of last #PF  *)
(*   pg, cpl                      paging on, privilege of the guest        *)
(***************************************************************************)
EXTENDS PageTables

CONSTANTS NrSets, NrEntries   \* 4 sets of 8 entries in the code

ASSUME TlbAssumption == NrSets \in Nat \ {0} /\ NrEntries \in Nat \ {0}

Sets == 0 .. NrSets - 1
Slots == 0 .. NrEntries - 1

NoMapping == 0            \* NO_MAPPED_ADDRESS
NotMapped == <<>>         \* PI_NOT_VALID

TlbEntry == [v : BOOLEAN, la : Pages, pa : Frames, d : BOOLEAN, mode : Access]

VARIABLES
  m,      \* the caches, the tables, the control registers
  saved   \* m as a snapshot captured it

tlbVars == <<m, saved>>

Empty(pde, pte, dir, frame) ==
  [tlb |-> [s \in Sets |-> [i \in Slots |->
              [v |-> FALSE, la |-> 0, pa |-> frame, d |-> FALSE, mode |-> 0]]],
   next |-> [i \in Slots |-> 0],
   index |-> [q \in Pages |-> NotMapped],
   address |-> [w \in Sets \X Slots |-> [a \in Access |-> NoMapping]],
   pde |-> pde, pte |-> pte, cr3 |-> dir, cr2 |-> 0, pg |-> TRUE, cpl |-> 0]

(***************************************************************************)
(* Lookups.                                                                *)
(***************************************************************************)
Slot(page) == page % NrEntries

FastLookup(r, page, access) ==
  IF r.index[page] = NotMapped THEN NoMapping ELSE r.address[r.index[page]][access]

(* The sets that hold the page; a write does not hit a clean entry.        *)
(* Mutant: it does.                                                        *)
HitsOfCleanToo(r, page, access) ==
  {s \in Sets : LET e == r.tlb[s][Slot(page)] IN e.v /\ e.la = page}

Hits(r, page, access) ==
  {s \in Sets : LET e == r.tlb[s][Slot(page)]
                IN  e.v /\ e.la = page /\ (IsWrite(access) => e.d)}

FirstHit(r, page, access) ==
  r.tlb[CHOOSE s \in Hits(r, page, access) : \A o \in Hits(r, page, access) : s <= o][Slot(page)]

(***************************************************************************)
(* lin2phy.                                                                *)
(***************************************************************************)
(* The entry allocated for a page.                                         *)
NewEntry(r, page, access) ==
  [v |-> TRUE, la |-> page, pa |-> PTE(r, page).pfa, d |-> IsWrite(access),
   mode |-> Comb(PDE(r, page), PTE(r, page))]

(* Which accesses an entry answers at once.                                *)
MappedFor(e) ==
  [a \in Access |->
     IF /\ IsWrite(a) => e.d
        /\ a >= PG_U => e.mode >= PG_U
        /\ a = PG_U + PG_W => IsWrite(e.mode)
     THEN e.pa ELSE NoMapping]

(* page_index without the page an entry held.                              *)
Forget(index, e) == IF e.v THEN [index EXCEPT ![e.la] = NotMapped] ELSE index

Fill(r, page, access) ==
  LET i == Slot(page)
      s == r.next[i]
      e == NewEntry(r, page, access)
  IN  [r EXCEPT !.tlb[s][i] = e,
                !.next[i] = (@ + 1) % NrSets,
                !.index = [Forget(@, r.tlb[s][i]) EXCEPT ![page] = <<s, i>>],
                !.address[<<s, i>>] = MappedFor(e),
                !.pde = MarkedPDE(r, page),
                !.pte = MarkedPTE(r, page, access)]

PageFault(r, page, code) == [r |-> [r EXCEPT !.cr2 = page], fault |-> code, pa |-> NoMapping]
Found(r, pa) == [r |-> r, fault |-> NoFault, pa |-> pa]

lin2phy(r, page, access) ==
  CASE FastLookup(r, page, access) # NoMapping -> Found(r, FastLookup(r, page, access))
    [] FastLookup(r, page, access) = NoMapping /\ Hits(r, page, access) # {} ->
         LET e == FirstHit(r, page, access)
         IN  IF access_check(access, e.mode) THEN PageFault(r, page, 2 * access + 1)
             ELSE Found(r, e.pa)
    [] OTHER ->
         IF WalkFault(r, page, access) # NoFault
           THEN PageFault(r, page, WalkFault(r, page, access))
           ELSE Found(Fill(r, page, access), PTE(r, page).pfa)

(***************************************************************************)
(* The other entry points.                                                 *)
(***************************************************************************)
(* Mutant: the fast format is left behind.                                 *)
FlushOfTlbOnly(r) ==
  [r EXCEPT !.tlb = [s \in Sets |-> [i \in Slots |-> [r.tlb[s][i] EXCEPT !.v = FALSE]]]]

flush_tlb(r) ==
  [r EXCEPT
     !.tlb = [s \in Sets |-> [i \in Slots |-> [r.tlb[s][i] EXCEPT !.v = FALSE]]],
     !.index = [q \in Pages |->
                  IF \E s \in Sets, i \in Slots : r.tlb[s][i].v /\ r.tlb[s][i].la = q
                    THEN NotMapped ELSE r.index[q]]]

MOV_CR(r, dir) == flush_tlb([r EXCEPT !.cr3 = dir])

(* A task switch reloads the register only if it differs.                  *)
SwitchCR(r, dir) == IF dir # r.cr3 THEN MOV_CR(r, dir) ELSE r

(* A write through the test registers; rep is the set asked for, or        *)
(* NrSets when the CPU is to choose.                                       *)
test_tlb(r, e, rep) ==
  LET i == Slot(e.la)
      s == IF rep \in Sets THEN rep ELSE r.next[i]
  IN  [r EXCEPT !.tlb[s][i] = e,
                !.next[i] = IF rep \in Sets THEN @ ELSE (@ + 1) % NrSets,
                !.index = Forget(@, r.tlb[s][i])]

(* The protection xtrn2phy combines for itself.                            *)
XtrnComb(pde, pte) ==
  (IF pde.us \/ pte.us THEN PG_U ELSE 0) + (IF pde.rw /\ pte.rw THEN PG_W ELSE 0)

(* xtrn2phy neither faults nor fills the cache; it may be asked to bring   *)
(* the accessed and dirty bits up to date.                                 *)
xtrn2phy(r, page, access, strict) ==
  LET Refused == [r |-> r, ok |-> FALSE, pa |-> NoMapping]
      Granted(s, pa) == [r |-> s, ok |-> TRUE, pa |-> pa]
  IN CASE FastLookup(r, page, access) # NoMapping -> Granted(r, FastLookup(r, page, access))
       [] FastLookup(r, page, access) = NoMapping /\ Hits(r, page, access) # {} ->
            LET e == FirstHit(r, page, access)
            IN  IF access_check(access, e.mode) THEN Refused ELSE Granted(r, e.pa)
       [] OTHER ->
            IF \/ ~ PDE(r, page).p \/ ~ PTE(r, page).p
               \/ access_check(access, XtrnComb(PDE(r, page), PTE(r, page)))
            THEN Refused
            ELSE Granted(IF strict
                           THEN [r EXCEPT !.pde = MarkedPDE(r, page),
                                          !.pte = MarkedPTE(r, page, access)]
                           ELSE r,
                         PTE(r, page).pfa)

(***************************************************************************)
(* The buffer as a component: any order of calls.                          *)
(***************************************************************************)
Translate(page, access) ==
  m' = lin2phy(m, page, access).r /\ UNCHANGED saved

LoadDirectory(dir) == m' = MOV_CR(m, dir) /\ UNCHANGED saved

SwitchDirectory(dir) == m' = SwitchCR(m, dir) /\ UNCHANGED saved

WriteTest(e, rep) == m' = test_tlb(m, e, rep) /\ UNCHANGED saved

TranslateExternal(page, access, strict) ==
  m' = xtrn2phy(m, page, access, strict).r /\ UNCHANGED saved

(* The guest stores a page entry.                                          *)
StorePTE(table, i, e) == m' = [m EXCEPT !.pte[table][i] = e] /\ UNCHANGED saved

(* A write of CR0, and a change of privilege.                              *)
SetPaging(on) == m' = [m EXCEPT !.pg = on] /\ UNCHANGED saved

SetPrivilege(cpl) == m' = [m EXCEPT !.cpl = cpl] /\ UNCHANGED saved

(* A snapshot takes the caches as they are, and restores every array.  The *)
(* restore refuses flags and a next_set out of range; no step takes them   *)
(* out of range, so only a damaged archive is refused.                     *)
Capture == saved' = m /\ UNCHANGED m

Restore == m' = saved /\ UNCHANGED saved

TlbInit ==
  /\ \E pde, pte, dir, frame :
       /\ TablesType(pde, pte) /\ dir \in Dirs /\ frame \in Frames
       /\ m = Empty(pde, pte, dir, frame)
  /\ saved = m

TlbNext ==
  \/ \E page \in Pages, access \in Access :
       \/ Translate(page, access)
       \/ \E strict \in BOOLEAN : TranslateExternal(page, access, strict)
  \/ \E dir \in Dirs : LoadDirectory(dir) \/ SwitchDirectory(dir)
  \/ \E e \in TlbEntry, rep \in 0 .. NrSets : WriteTest(e, rep)
  \/ \E table \in Tables, i \in 0 .. TableSize - 1, e \in PageEntry(Frames) : StorePTE(table, i, e)
  \/ \E on \in BOOLEAN : SetPaging(on)
  \/ \E cpl \in {0, 3} : SetPrivilege(cpl)
  \/ Capture
  \/ Restore

TlbSpec == TlbInit /\ [][TlbNext]_tlbVars

(* What the fast format grants, the Intel-format entry of the page grants  *)
(* too, with the same frame: a page that was evicted, flushed, overwritten *)
(* through the test registers or replaced by a snapshot is never answered  *)
(* from page_index, and no access is let through without the check that    *)
(* lin2phy would make.                                                     *)
FastAgreesWithTlb ==
  \A page \in Pages, access \in Access :
    FastLookup(m, page, access) # NoMapping =>
      \E s \in Hits(m, page, access) :
        LET e == m.tlb[s][Slot(page)]
        IN  ~ access_check(access, e.mode) /\ FastLookup(m, page, access) = e.pa
=============================================================================
