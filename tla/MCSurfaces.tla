----------------------------- MODULE MCSurfaces -----------------------------
(***************************************************************************)
(* The surfaces of a session both ways: what the host's keyboard sends the *)
(* guest through them (KeyPath), and which of them show the guest          *)
(* (Presentation).  Here they share no state, and each behaviour is one of *)
(* theirs.                                                                 *)
(***************************************************************************)
EXTENDS MCKeyPath

CONSTANTS SerialMod, FirstSerial, ViewPlans   \* of MCPresentation

VARIABLES
  m, pub, s, ui, events, t, prompt, counts, display,
  part    \* whose behaviour this is

View == INSTANCE MCPresentation
          WITH Plans <- ViewPlans, fifo <- events, count <- counts, plan <- display

Instances == INSTANCE MCPresentation
               WITH Plans <- {}, fifo <- events, count <- counts, plan <- display
MCViewPlans == Instances!SafetyPlans

(* What Presentation asks of its constants.                                *)
ASSUME ViewPlansAssumption == View!PresentationAssumption

viewVars == <<m, pub, s, ui, events, t, prompt, counts, display>>
all == <<vars, viewVars, part>>

(* The other part stays in one of its initial states.                      *)
InitEach ==
  /\ Init /\ View!Init
  /\ \/ part = "keys" /\ display = CHOOSE p \in ViewPlans : TRUE
     \/ part = "view" /\ plan = CHOOSE p \in Plans : TRUE

KeyStep == part = "keys" /\ Next /\ UNCHANGED <<viewVars, part>>
ViewStep == part = "view" /\ View!Next /\ UNCHANGED <<vars, part>>

SpecEach == InitEach /\ [][KeyStep \/ ViewStep]_all /\ Fairness

(* The surfaces settle on what the reducer wants: see Presentation.        *)
ViewSettles == View!ViewSettles

(* The last frame of a running guest is shown: see Presentation.           *)
LastFrameIsShown == View!LastFrameIsShown

(* The operator is not left alone: see Presentation.                       *)
OperatorIsServed == View!OperatorIsServed
=============================================================================
