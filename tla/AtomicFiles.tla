----------------------------- MODULE AtomicFiles -----------------------------
(***************************************************************************)
(* What writing through a temporary file promises a reader of the final    *)
(* paths: a path goes, in one step, from one writer's whole file to        *)
(* another's, and is never seen holding half of one or none at all.        *)
(***************************************************************************)
CONSTANTS Path, WholeFile, Absent

VARIABLE visible

Init == visible \in [Path -> WholeFile \cup {Absent}]

Replace ==
    \E p \in Path :
        /\ visible'[p] \in WholeFile
        /\ visible' = [visible EXCEPT ![p] = visible'[p]]

Next == Replace

Spec == Init /\ [][Next]_visible
=============================================================================
