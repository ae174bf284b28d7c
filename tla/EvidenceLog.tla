------------------------------ MODULE EvidenceLog ------------------------------
(* What the recording store promises about frames, with no files, no index and *)
(* no writer in sight.  A frame is offered, becomes readable, and its caller   *)
(* may be told so (promised).  A successful session flush secures promised     *)
(* frames against power loss.  A stop takes every frame out of reach; a        *)
(* resume brings back every frame whose promise survived, may bring back       *)
(* frames nobody was promised, and never invents one.  SegmentStore implements *)
(* this module.                                                                *)
EXTENDS Naturals

CONSTANT Frames

VARIABLES
    running,    \* the store is open
    offered,    \* frames some caller tried to append
    visible,    \* frames a reader gets
    promised,   \* frames whose append was acknowledged, unless power was lost
    secured     \* frames a successful flush covered

vars == <<running, offered, visible, promised, secured>>

Init == /\ running = TRUE
        /\ offered = {}
        /\ visible = {}
        /\ promised = {}
        /\ secured = {}

Offer(f) ==
    /\ running
    /\ f \notin offered
    /\ offered' = offered \union {f}
    /\ UNCHANGED <<running, visible, promised, secured>>

(* A frame becomes readable; the acknowledgement may still turn into an error. *)
Record(f) ==
    /\ running
    /\ f \in offered \ visible
    /\ visible' = visible \union {f}
    /\ promised' \in {promised, promised \union {f}}
    /\ UNCHANGED <<running, offered, secured>>

Secure(F) ==
    /\ running
    /\ F \subseteq promised
    /\ secured' = secured \union F
    /\ UNCHANGED <<running, offered, visible, promised>>

(* The process dies (promises stand) or power is lost (secured frames stand).  *)
Stop ==
    /\ running' = FALSE
    /\ visible' = {}
    /\ promised' \in {promised, secured}
    /\ UNCHANGED <<offered, secured>>

(* Something outside the program destroys stored bytes while it is down.       *)
Lose(F) ==
    /\ ~running
    /\ promised' = promised \ F
    /\ secured' = secured \ F
    /\ UNCHANGED <<running, offered, visible>>

Resume(F) ==
    /\ ~running
    /\ promised \subseteq F
    /\ F \subseteq offered
    /\ running' = TRUE
    /\ visible' = F
    /\ UNCHANGED <<offered, promised, secured>>

Next ==
    \/ \E f \in Frames : Offer(f) \/ Record(f)
    \/ \E F \in SUBSET Frames : Secure(F) \/ Lose(F) \/ Resume(F)
    \/ Stop

Spec == Init /\ [][Next]_vars
=============================================================================
