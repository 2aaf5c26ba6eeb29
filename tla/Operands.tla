------------------------------ MODULE Operands ------------------------------
(***************************************************************************)
(* The memory operands of an instruction, as the decode macros             *)
(* (ccpu386/c_oprnd.h) and the stack functions (c_stack.c) present them to *)
(* the paging unit: which items are checked before the instruction does    *)
(* anything, and which are then read and written.                          *)
(*                                                                         *)
(* An operand has a kind, a segment base, an offset, the size of an item,  *)
(* how many items it has, and whether it is read and written:              *)
(*   "mem"   one item of 1, 2 or 4 bytes                                   *)
(*   "npx"   one item of the coprocessor, size bytes long                  *)
(*   "push"  n items below the stack pointer, which is off                 *)
(*   "pop"   n items from the stack pointer up                             *)
(***************************************************************************)
EXTENDS PageTables, SequencesExt

CONSTANTS
  PageSize,       \* bytes of a page: 4096
  SegmentSize     \* bytes a 16-bit offset reaches: 65536

PageOf(lin) == lin \div PageSize
OffsetIn(lin) == lin % PageSize
LinearBytes(item) == item.lin .. item.lin + item.size - 1

(* Does the item end on another page than it starts on?                    *)
Spans(lin, size) == OffsetIn(lin) > PageSize - size

Item(op, off, size) == [lin |-> op.base + (off % SegmentSize), size |-> size]

(* validate_stack_space checks upwards from the lowest item to be pushed.  *)
StackItems(op) ==
  LET lowest == IF op.kind = "push" THEN op.off - op.n * op.size ELSE op.off
  IN  [k \in 1 .. op.n |-> Item(op, lowest + (k - 1) * op.size + SegmentSize, op.size)]

(* What an operand consists of, and what of it is checked: of a            *)
(* coprocessor operand, the first word.                                    *)
Items(op) ==
  IF op.kind \in {"mem", "npx"} THEN <<Item(op, op.off, op.size)>> ELSE StackItems(op)

CheckedItems(op) == IF op.kind = "npx" THEN <<Item(op, op.off, 2)>> ELSE Items(op)

(* A push stores the highest item first.                                   *)
PutItems(op) ==
  CASE ~ op.put -> <<>>
    [] op.put /\ op.kind = "push" -> Reverse(Items(op))
    [] OTHER -> Items(op)

FetchItems(op) == IF op.fetch THEN Items(op) ELSE <<>>

(* The kind of access the check asks for at a privilege level.             *)
CheckAccess(op, cpl) == (IF op.put THEN PG_W ELSE 0) + (IF cpl = 3 THEN PG_U ELSE 0)

(* The kind of access bios_read_byte and bios_write_byte ask for.          *)
BiosAccess(write, cpl) == (IF write THEN PG_W ELSE 0) + (IF cpl # 3 THEN PG_U ELSE 0)
=============================================================================
