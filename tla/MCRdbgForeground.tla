------------------------- MODULE MCRdbgForeground --------------------------
(* Small instances of RdbgForeground for TLC.                              *)
EXTENDS RdbgForeground, TLC

CONSTANTS t1, t2, t3, None

ThreeTickets == {t1, t2, t3}

\* Tickets are interchangeable; sound for the runs without liveness properties.
TicketSymmetry == Permutations(Tickets)

NoPolicy == {FALSE}
=============================================================================
