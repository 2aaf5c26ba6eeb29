------------------------------ MODULE MCPaging ------------------------------
(***************************************************************************)
(* Six pages of eight bytes over a cache of two sets of two entries, so    *)
(* that three pages contend for each entry and an operand of four bytes    *)
(* may span two pages, eight pushes five.                                  *)
(***************************************************************************)
EXTENDS Paging

Entry(p, us, rw, pfa) == [p |-> p, us |-> us, rw |-> rw, a |-> FALSE, d |-> FALSE, pfa |-> pfa]
User(pfa) == Entry(TRUE, TRUE, TRUE, pfa)
ReadOnly(pfa) == Entry(TRUE, TRUE, FALSE, pfa)
System(pfa) == Entry(TRUE, FALSE, TRUE, pfa)
Absent(pfa) == Entry(FALSE, TRUE, TRUE, pfa)

MCDirs == {"one", "two"}
MCTables == {"A", "B", "C"}

Table(x, y) == 0 :> x @@ 1 :> y

PDEs(Of(_)) ==
  "one" :> (0 :> Of("A") @@ 1 :> Of("B") @@ 2 :> Of("C")) @@
  "two" :> (0 :> Of("B") @@ 1 :> Of("A") @@ 2 :> Of("C"))

(* Every page may be written; or some may not, or only by the system.      *)
OpenTables == "A" :> Table(User(1), User(2)) @@ "B" :> Table(User(3), User(4)) @@
              "C" :> Table(User(5), User(0))
MixedTables == "A" :> Table(User(1), ReadOnly(2)) @@ "B" :> Table(ReadOnly(3), Absent(4)) @@
               "C" :> Table(User(5), System(0))

Op(kind, lin, size, n, fetch, put) ==
  [kind |-> kind, base |-> 0, off |-> lin, size |-> size, n |-> n, fetch |-> fetch, put |-> put]

Load(lin, size) == <<Op("mem", lin, size, 1, TRUE, FALSE)>>
Store(lin, size) == <<Op("mem", lin, size, 1, FALSE, TRUE)>>
Update(lin, size) == <<Op("mem", lin, size, 1, TRUE, TRUE)>>
Push(sp, n, size) == <<Op("push", sp, size, n, FALSE, TRUE)>>
Pop(sp, n, size) == <<Op("pop", sp, size, n, TRUE, FALSE)>>

Plan(pte, cpl, limit) ==
  [pde |-> PDEs(User), pte |-> pte, dir |-> "one", frame |-> 0, cpl |-> cpl, steps |-> limit,
   instructions |-> {}, externals |-> {}, loads |-> {}, switches |-> {}, edits |-> {},
   tests |-> {}, paging |-> {}, levels |-> {}, snapshots |-> FALSE]

With(p, instructions) == [p EXCEPT !.instructions = instructions]

(* Pages 0, 2 and 4 share an entry, and so do 1, 3 and 5.                  *)
Contention ==
  [With(Plan(OpenTables, 3, 4),
        {Load(1, 1), Store(0, 2), Load(17, 4), Store(15, 2), Update(38, 4), Push(38, 8, 4),
         Pop(2, 8, 4), Push(0, 2, 2), Load(22, 4) \o Store(7, 4), Load(34, 1) \o Push(8, 1, 2)})
   EXCEPT !.loads = {"one"}, !.switches = MCDirs]

Privileges ==
  [With(Plan(MixedTables, 3, 4),
        {Load(6, 4), Store(6, 4), Store(4, 4), Update(22, 4), Store(38, 4), Load(40, 1),
         Load(34, 2) \o Store(16, 2), Store(0, 1) \o Store(24, 1), Pop(38, 2, 4)})
   EXCEPT !.levels = {0, 3}, !.loads = {"two"}, !.paging = BOOLEAN]

(* The guest edits entries, with and without loading CR3 afterwards.       *)
Edits ==
  [With(Plan(MixedTables, 3, 5), {Load(16, 1), Store(16, 1), Load(24, 1), Store(8, 1)})
   EXCEPT !.edits = {[table |-> "B", i |-> 1, e |-> User(4)],
                     [table |-> "B", i |-> 0, e |-> User(5)],
                     [table |-> "A", i |-> 1, e |-> Absent(2)]},
          !.loads = {"one"}, !.switches = {"one"}]

Outside ==
  [With(Plan(OpenTables, 0, 4), {Load(0, 1), Store(32, 1), Store(16, 4)})
   EXCEPT !.externals = [page : {0, 4}, write : BOOLEAN, vm : BOOLEAN],
          !.paging = BOOLEAN, !.levels = {0, 3},
          !.tests = {[e |-> [v |-> TRUE, la |-> 4, pa |-> 2, d |-> TRUE, mode |-> 3], rep |-> r]
                       : r \in {0, 2}}
                    \cup {[e |-> [v |-> FALSE, la |-> 0, pa |-> 1, d |-> FALSE, mode |-> 0],
                           rep |-> 1]},
          !.loads = {"one"}]

Snapshots ==
  [With(Plan(OpenTables, 3, 6), {Load(0, 1), Store(16, 1), Store(32, 1)})
   EXCEPT !.snapshots = TRUE, !.loads = {"two"},
          !.edits = {[table |-> "A", i |-> 0, e |-> User(2)]}]

MCPlans == {Contention, Privileges, Edits, Outside, Snapshots}

(* An operand of the coprocessor that starts on one page and ends on the   *)
(* next, whose frame is not the next one.                                  *)
MCCoprocessor == {With(Plan(OpenTables, 3, 1), {<<Op("npx", 36, 8, 1, FALSE, TRUE)>>})}
=============================================================================
