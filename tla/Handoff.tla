------------------------------ MODULE Handoff ------------------------------
(***************************************************************************)
(* What a warm handoff promises a viewer, with none of its mechanism.      *)
(*                                                                         *)
(* A composition is published by numbered generations.  `shown' is the     *)
(* generation new readers are sent to (0 when there is none), `asked' the  *)
(* generations somebody has asked for and not yet told to stop, `wanted'   *)
(* the compositions that should be on air at all.  The promise is in the   *)
(* guards: a generation viewers are sent to was asked for before, is never *)
(* restarted under them, and is told to stop only after the registry has   *)
(* moved on, or because the composition is not wanted any more.            *)
(***************************************************************************)
EXTENDS Naturals

CONSTANTS Comps, MaxGen

VARIABLES shown, asked, wanted

vars == <<shown, asked, wanted>>

Gens == 1..MaxGen

Init ==
    /\ shown = [c \in Comps |-> 0]
    /\ asked = {}
    /\ wanted = {}

Launch(c, g) ==
    /\ shown[c] # g
    /\ asked' = asked \cup {<<c, g>>}
    /\ UNCHANGED <<shown, wanted>>

Flip(c, g) ==
    /\ <<c, g>> \in asked
    /\ shown' = [shown EXCEPT ![c] = g]
    /\ UNCHANGED <<asked, wanted>>

Retire(c, g) ==
    /\ shown[c] # g
    /\ asked' = asked \ {<<c, g>>}
    /\ UNCHANGED <<shown, wanted>>

\* The final shutdown of an unwanted composition: the stop may be answered with an error
\* after it took effect, so the registry entry may outlive the generation.
TakeDown(c) ==
    /\ c \notin wanted
    /\ asked' = asked \ {<<c, shown[c]>>}
    /\ shown' \in {shown, [shown EXCEPT ![c] = 0]}
    /\ UNCHANGED wanted

Decide ==
    /\ wanted' \in SUBSET Comps
    /\ UNCHANGED <<shown, asked>>

\* The registry lives in the data plane's memory.
Forget ==
    /\ shown' = [c \in Comps |-> 0]
    /\ wanted' = {}
    /\ UNCHANGED asked

Next ==
    \/ \E c \in Comps, g \in Gens : Launch(c, g) \/ Flip(c, g) \/ Retire(c, g)
    \/ \E c \in Comps : TakeDown(c)
    \/ Decide
    \/ Forget

Spec == Init /\ [][Next]_vars
=============================================================================
