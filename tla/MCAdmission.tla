---------------------------- MODULE MCAdmission ----------------------------
(* Small instances of Admission: requests that retry a run, and one that does not. *)
EXTENDS Admission

SharedRun == [q \in Requests |-> CASE q \in {"q1", "q2"} -> "r1"
                                   [] q = "q3" -> "r2"
                                   [] OTHER -> "r3"]
=============================================================================
