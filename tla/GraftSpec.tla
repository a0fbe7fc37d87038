------------------------------ MODULE GraftSpec ------------------------------
(***************************************************************************)
(* What a run of tools/build_lg_substrate_image.py promises its caller:    *)
(* it ends with a non-zero status and nothing usable, or with a substrate  *)
(* whose every file has exactly the intended content.  The tool trusts     *)
(* what it reads, so the promise leaves out the files of which it was      *)
(* given less than there is, and only those.                               *)
(***************************************************************************)
EXTENDS SystemExt

CONSTANT NoImage

VARIABLES
    phase, base, donor, result,
    unread        \* the files that were not read to their end in this run
gvars == <<phase, base, donor, result, unread>>

Init ==
    /\ phase = "idle"
    /\ base \in BaseImages /\ donor \in DonorImages
    /\ result = NoImage /\ unread = {}

\* A caller starts a run; it may do so again whenever no run is under way.
Begin ==
    /\ phase # "running"
    /\ phase' = "running"
    /\ base' \in BaseImages /\ donor' \in DonorImages
    /\ result' = NoImage /\ unread' = {}

\* Reads come back short, now and then.
ReadShort == unread \subseteq unread' /\ unread' \subseteq Files

Work ==
    /\ phase = "running"
    /\ ReadShort
    /\ UNCHANGED <<phase, base, donor, result>>

Succeed ==
    /\ phase = "running"
    /\ phase' = "ok"
    /\ ReadShort
    /\ DOMAIN result' = Files
    /\ \A p \in Files \ unread' : result'[p] = Intended(base, donor)[p]
    /\ UNCHANGED <<base, donor>>

Abort ==
    /\ phase = "running"
    /\ phase' = "failed"
    /\ ReadShort
    /\ UNCHANGED <<base, donor, result>>

Next == Begin \/ Work \/ Succeed \/ Abort
Spec == Init /\ [][Next]_gvars
=============================================================================
