----------------------------- MODULE PageTables -----------------------------
(***************************************************************************)
(* The page tables of the guest as the CPU walks them (ccpu386/c_tlb.c,    *)
(* the miss path of lin2phy).  A page entry's frame is the table, or the   *)
(* page frame, that it names; frame 0 is the first page of physical        *)
(* memory.  The operators take a record r with the tables pde and pte in   *)
(* memory and the directory in use, cr3.                                   *)
(***************************************************************************)
EXTENDS Integers

CONSTANTS
  NrPages,        \* linear pages
  TableSize,      \* entries of a page table: 1024
  Frames,         \* page frames of physical memory
  Dirs, Tables    \* page directories and page tables in memory

ASSUME TablesAssumption ==
  /\ NrPages \in Nat \ {0} /\ TableSize \in Nat \ {0}
  /\ Frames \subseteq Nat

Pages == 0 .. NrPages - 1
Access == 0 .. 3          \* supervisor read, supervisor write, user read, user write

PG_W == 1
PG_U == 2

NoFault == -1

PageEntry(names) == [p : BOOLEAN, us : BOOLEAN, rw : BOOLEAN, a : BOOLEAN, d : BOOLEAN, pfa : names]

TablesType(pde, pte) ==
  /\ pde \in [Dirs -> [0 .. (NrPages - 1) \div TableSize -> PageEntry(Tables)]]
  /\ pte \in [Tables -> [0 .. TableSize - 1 -> PageEntry(Frames)]]

IsWrite(access) == access % 2 = PG_W

access_check(reqd, avail) == reqd >= PG_U /\ avail < reqd

PDE(r, page) == r.pde[r.cr3][page \div TableSize]
PTE(r, page) == r.pte[PDE(r, page).pfa][page % TableSize]

Protection(e) == (IF e.us THEN PG_U ELSE 0) + (IF e.rw THEN PG_W ELSE 0)

(* The numerically lower of the directory's and the table's protection.    *)
Comb(pde, pte) ==
  IF Protection(pde) < Protection(pte) THEN Protection(pde) ELSE Protection(pte)

(* The error code of the page fault the walk takes.                        *)
WalkFault(r, page, access) ==
  CASE ~ PDE(r, page).p -> 2 * access
    [] PDE(r, page).p /\ ~ PTE(r, page).p -> 2 * access
    [] OTHER -> IF access_check(access, Comb(PDE(r, page), PTE(r, page)))
                  THEN 2 * access + 1 ELSE NoFault

(* The accessed and dirty bits of the entries in memory.                   *)
MarkedPTE(r, page, access) ==
  [r.pte EXCEPT ![PDE(r, page).pfa][page % TableSize] =
     [PTE(r, page) EXCEPT !.a = TRUE, !.d = @ \/ IsWrite(access)]]

MarkedPDE(r, page) == [r.pde EXCEPT ![r.cr3][page \div TableSize].a = TRUE]
=============================================================================
