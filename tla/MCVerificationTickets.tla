----------------------- MODULE MCVerificationTickets ------------------------
(* Model checking of VerificationTickets: two texts of the form, which the *)
(* human may also have typed elsewhere.                                    *)
EXTENDS VerificationTickets

MCSources == {[sha |-> 1, start |-> 1], [sha |-> 2, start |-> 1], [sha |-> 2, start |-> 9]}
=============================================================================
