--------------------------- MODULE MCRdbgArbiter ---------------------------
(* Small instances of RdbgArbiter for TLC.                                 *)
EXTENDS RdbgArbiter, TLC

CONSTANTS t1, t2, t3, t4, None

ThreeTickets == {t1, t2, t3}
FourTickets == {t1, t2, t3, t4}  \* for larger runs by hand

\* Tickets are interchangeable; sound for the runs without liveness properties.
TicketSymmetry == Permutations(Tickets)

NoPolicy == {FALSE}
OnlyPolicy == {TRUE}

(* The bound of arbiter_policy.  Two tickets take every path.  Beside a third, plans *)
(* end locally: what matters then is the queue, with a cleanup, its retry and the    *)
(* requests that wait beside them.  Only submissions and the start of remote work    *)
(* are left out, never a step that Fairness speaks of.                               *)

\* Identities are interchangeable and never reused: they are taken in order.
Supply == <<t1, t2, t3, t4>>
InOrder == \A i, j \in 1 .. Cardinality(Tickets) :
    (i < j /\ phase[Supply[i]] = "new") => phase[Supply[j]] = "new"

\* The tickets, with the cleanup that the active plan has registered.
Taken ==
    Cardinality(Tickets \ Fresh) + IF active # NoTicket /\ registered[active] THEN 1 ELSE 0

\* The tickets whose plan has reached the target or is about to.
Reaching == {t \in Tickets : effectTarget[t] \/ (t = active /\ op # "none")}

Bound == InOrder /\ (Taken <= 2 \/ Reaching = {})

\* The action constraint of the run.
StepsInBound == Bound'
=============================================================================
