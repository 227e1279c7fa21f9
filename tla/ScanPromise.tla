---------------------------- MODULE ScanPromise ----------------------------
(***************************************************************************)
(* What a scan of one device promises to those who see only its phase: a   *)
(* walk asks for operations on the database, they are answered in any      *)
(* order, several at a time, and the scan is over when none is left.       *)
(*                                                                         *)
(* phase is the state the device reports: "walk" for Scanning, "work" for  *)
(* Parsing, "idle" for Idle and Inactive.                                  *)
(***************************************************************************)

CONSTANT Work       \* operations a walk may ask for
VARIABLES phase,
          pending   \* operations not yet answered

Init == phase = "idle" /\ pending = {}

Begin == phase = "idle" /\ phase' = "walk" /\ UNCHANGED pending

Request ==
    /\ phase = "walk" /\ UNCHANGED phase
    /\ pending \subseteq pending' /\ pending' \in SUBSET Work

Answer ==
    /\ phase \in {"walk", "work"} /\ UNCHANGED phase
    /\ pending' \subseteq pending

EndWalk == phase = "walk" /\ phase' = "work" /\ UNCHANGED pending

Finish ==
    /\ phase = "work" /\ phase' = "idle"
    /\ pending = {} /\ UNCHANGED pending

Next == Begin \/ Request \/ Answer \/ EndWalk \/ Finish

Spec == Init /\ [][Next]_<<phase, pending>>
=============================================================================
