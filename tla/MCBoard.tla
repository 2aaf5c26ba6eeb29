------------------------------- MODULE MCBoard -------------------------------
(***************************************************************************)
(* Instances of Board with three lines per controller: the cascade between *)
(* a line of higher and one of lower priority.                             *)
(***************************************************************************)
EXTENDS Board

All(a, S) == {a} \X S

Plan(raised, withdrawn, held, limit, mm, sm, modes) ==
  [raised |-> raised, withdrawn |-> withdrawn, held |-> held, limit |-> limit, modes |-> modes,
   masks |-> [a \in Adapters |-> IF a = "m" THEN mm ELSE sm]]

Devices == All("m", {0, 2}) \cup All("s", {0, 2})

(* Lines of the slave masked and withdrawn.                                *)
MousePlans == {
  Plan(All("m", {2}) \cup All("s", {0, 2}), All("s", {0, 2}), {}, 1, {{}}, {{}, {0}, {2}}, {})}

MCPlans == MousePlans \cup {
  \* fully nested: any mask, and withdrawals of master lines
  Plan(Devices, All("m", {0, 2}), {}, 2, {{}, {0}, {1}, {2}}, {{}, {0}, {2}},
       {"specific"}),
  \* withdrawals of slave lines, which are not masked meanwhile
  Plan(Devices, All("s", {0, 2}), {}, 3, {{}}, {{}}, {}),
  \* a line held back
  Plan(All("m", {0, 2}) \cup All("s", {0}), {}, {2}, 1, {{}, {2}}, {{}}, {}),
  \* a guest that polls the master
  Plan(All("m", {0, 2}), All("m", {0, 2}), {}, 2, {{}, {0}}, {{}}, {"poll"}),
  \* other priorities, other mask modes
  Plan(All("m", {0, 2}) \cup All("s", {0}), {}, {}, 1, {{}, {0}}, {{}}, {"priority", "rotate"}),
  Plan(All("m", {0, 2}) \cup All("s", {0}), {}, {}, 1, {{}, {0}}, {{}}, {"rotate"}),
  Plan(All("m", {0}) \cup All("s", {0, 2}), {}, {}, 1, {{}}, {{}, {0}}, {"smm"}),
  \* resets
  Plan(Devices, {}, {}, 2, {{}, Lines}, {{}, Lines}, {"shutdown", "reset"})}
=============================================================================
