-------------------------- MODULE RemoteOwnership --------------------------
(* What the RDBG arbiter promises its callers, without its mailbox, worker *)
(* or debugger protocol: remote work is done under one owner at a time, an *)
(* owner goes only when the target executes nothing for it or is gone, and *)
(* who is done stays done.                                                 *)

CONSTANTS Ids, NoId

VARIABLES stage,   \* of each operation: "new", "queued", "owner" or "done"
          owner,   \* the operation that may use the target
          busy,    \* may the target still execute something?
          alive    \* does the target exist?

vars == <<stage, owner, busy, alive>>

Init ==
    /\ stage = [t \in Ids |-> "new"]
    /\ owner = NoId
    /\ busy = FALSE
    /\ alive = TRUE

Move(S, s) == [t \in Ids |-> IF t \in S THEN s ELSE stage[t]]
In(s) == {t \in Ids : stage[t] = s}

Admit(t) ==
    /\ stage[t] = "new"
    /\ stage' = Move({t}, "queued")
    /\ UNCHANGED <<owner, busy, alive>>

\* Operations that never owned the target end without an effect.
Withdraw(S) ==
    /\ S \subseteq In("queued") \/ (\E t \in In("new") : S = {t})
    /\ stage' = Move(S, "done")
    /\ UNCHANGED <<owner, busy, alive>>

Grant(t) ==
    /\ owner = NoId /\ ~busy
    /\ stage[t] = "queued"
    /\ owner' = t
    /\ stage' = Move({t}, "owner")
    /\ UNCHANGED <<busy, alive>>

Act(t) ==
    /\ owner = t
    /\ busy' = ~busy
    /\ UNCHANGED <<stage, owner, alive>>

\* The owner may leave one operation behind, which it queues as it goes.
Release(t) ==
    /\ owner = t /\ ~busy
    /\ owner' = NoId
    /\ \/ stage' = Move({t}, "done")
       \/ \E f \in In("new") : stage' = [Move({t}, "done") EXCEPT ![f] = "queued"]
    /\ UNCHANGED <<busy, alive>>

TargetGone ==
    /\ alive
    /\ alive' = FALSE
    /\ UNCHANGED <<stage, owner, busy>>

Retire(t) ==
    /\ owner = t /\ ~alive
    /\ owner' = NoId
    /\ stage' = Move({t} \cup In("queued"), "done")
    /\ UNCHANGED <<busy, alive>>

Next ==
    \/ \E t \in Ids : Admit(t) \/ Grant(t) \/ Act(t) \/ Release(t) \/ Retire(t)
    \/ \E S \in SUBSET Ids : Withdraw(S)
    \/ TargetGone

Spec == Init /\ [][Next]_vars

=============================================================================
