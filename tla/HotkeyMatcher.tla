---------------------------- MODULE HotkeyMatcher ----------------------------
(***************************************************************************)
(* The held-key ledger of one input source and what it lets through:       *)
(* src/lib/kvm-base/hotkey.c, and the text synthesis of input.c that reads *)
(* the same ledger.                                                        *)
(*                                                                         *)
(* A key is a physical key (scan code and EXTENDED flag).  Its logical     *)
(* modifier, if it is one, is ModifierBit[key]; the two Ctrl keys share    *)
(* one.  A ledger is the sequence held[0 .. held_count - 1], in the order  *)
(* the keys went down.                                                     *)
(***************************************************************************)
EXTENDS Naturals, Sequences, SequencesExt, FiniteSets

CONSTANTS
  Keys,         \* physical keys
  ModifierBit,  \* kvm_hotkey_modifier_bit: the modifier a key is, or "none"
  ModifierKey,  \* the key that text synthesis presses for a modifier
  Registry      \* registered chords: [key : Keys, modifiers : SUBSET Modifiers]

Modifiers == {ModifierBit[k] : k \in Keys} \ {"none"}
States == {"PENDING", "DELIVERED", "CONSUMED"}

ASSUME MatcherAssumption ==
  /\ ModifierBit \in [Keys -> STRING]
  /\ ModifierKey \in [Modifiers -> Keys]
  /\ \A x \in Modifiers : ModifierBit[ModifierKey[x]] = x
  /\ Registry \subseteq [key : Keys, modifiers : SUBSET Modifiers]

Key(k, pressed, modifiers) == [key |-> k, pressed |-> pressed, modifiers |-> modifiers]
Make(k) == [type |-> "make", key |-> k]
Break(k) == [type |-> "break", key |-> k]
Hotkey(k) == [type |-> "hotkey", key |-> k]

IsHeld(held, k) == \E i \in DOMAIN held : held[i].key = k
Index(held, k) == CHOOSE i \in DOMAIN held : held[i].key = k
StateOf(held, k) == held[Index(held, k)].state

(* The modifiers a ledger holds down, whatever became of their makes.      *)
HeldModifiers(held) == {ModifierBit[held[i].key] : i \in DOMAIN held} \ {"none"}

(* kvm_hotkey_flush_pending: every pending key becomes delivered, and those *)
(* that may be replayed are, in order.                                     *)
Replayed(held) ==
  LET pending == SelectSeq(held, LAMBDA h : h.state = "PENDING" /\ h.replay)
  IN [i \in DOMAIN pending |-> Make(pending[i].key)]

(* Mutant: a chord consumes keys the guest already has.                    *)
SettleAll(held, state) == [i \in DOMAIN held |-> [held[i] EXCEPT !.state = state]]

Settle(held, state) ==
  [i \in DOMAIN held |->
     IF held[i].state = "PENDING" THEN [held[i] EXCEPT !.state = state] ELSE held[i]]

Result(held, out) == [held |-> held, out |-> out]

(* A break: unknown keys are dropped, consumed ones vanish with their make. *)
Released(held, k) ==
  IF ~IsHeld(held, k) THEN Result(held, <<>>)
  ELSE LET rest(h) == RemoveAt(h, Index(held, k)) IN
       IF StateOf(held, k) = "CONSUMED" THEN Result(rest(held), <<>>)
       ELSE Result(rest(Settle(held, "DELIVERED")), Append(Replayed(held), Break(k)))

(* A chord cannot use a modifier whose make the guest already has.         *)
Eligible(held, modifiers) ==
  \A i \in DOMAIN held :
    held[i].state = "DELIVERED" => ModifierBit[held[i].key] \notin modifiers

IsChordModifier(k) == \E r \in Registry : ModifierBit[k] \in r.modifiers

(* A make, and a repeat, which finds its key in the ledger.                *)
Pressed(held, k, modifiers, replay) ==
  LET known == IF IsHeld(held, k) THEN held
               ELSE Append(held, [key |-> k, state |-> "PENDING", replay |-> replay])
      flushed == Result(Settle(known, "DELIVERED"), Replayed(known))
  IN CASE StateOf(known, k) = "DELIVERED" ->
            [flushed EXCEPT !.out = Append(@, Make(k))]
       [] /\ StateOf(known, k) # "DELIVERED"
          /\ Eligible(known, modifiers)
          /\ [key |-> k, modifiers |-> modifiers] \in Registry ->
            Result(Settle(known, "CONSUMED"), <<Hotkey(k)>>)
       [] OTHER ->
            IF StateOf(known, k) = "CONSUMED" \/ IsChordModifier(k)
            THEN Result(known, <<>>) ELSE flushed

(* kvm_hotkey_transition, on one event of the source.                      *)
Transition(held, event, replay) ==
  IF event.pressed THEN Pressed(held, event.key, event.modifiers, replay)
  ELSE Released(held, event.key)

(* A batch of events, one after the other.                                 *)
SubmitAll(held, events, replay) ==
  FoldLeft(LAMBDA r, e : LET n == Transition(r.held, e, replay)
                         IN Result(n.held, r.out \o n.out),
           Result(held, <<>>), events)

(* kvm_keyboard_submit_character for a character that the layout maps to   *)
(* key k with the modifiers needed: the modifiers that are not held are    *)
(* pressed in a fixed order, then k is, and what was added is released in  *)
(* the reverse order.  Held keys are used and stay down.                   *)
Synthesis(held, k, needed) ==
  LET owned == SetToSeq(needed \ HeldModifiers(held))
      active(n) == HeldModifiers(held) \cup {owned[i] : i \in 1..n}
      n == Len(owned)
  IN [i \in 1..n |-> Key(ModifierKey[owned[i]], TRUE, active(i))]
     \o <<Key(k, TRUE, active(n))>>
     \o (IF IsHeld(held, k) THEN <<>> ELSE <<Key(k, FALSE, active(n))>>)
     \o [i \in 1..n |-> Key(ModifierKey[owned[n + 1 - i]], FALSE, active(n - i))]
=============================================================================
