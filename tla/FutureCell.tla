----------------------------- MODULE FutureCell -----------------------------
(***************************************************************************)
(* What a future promises its clients, whatever threads, locks, condition  *)
(* variables and coroutines it is made of: a cell that is written at most  *)
(* once and clients that ask for its content.  A client that asks gets the *)
(* outcome, or gives up, and gives up only while there is no outcome.      *)
(* task.hpp implements it (TaskPromise, property ImplementsFutureCell).    *)
(***************************************************************************)
CONSTANTS Clients, Outcomes

VARIABLES
    outcome,    \* "pending" until someone resolves the cell
    asking,     \* the clients inside a blocking call
    answer      \* what each client's last finished call returned

cellVars == <<outcome, asking, answer>>

Init ==
    /\ outcome = "pending"
    /\ asking = {}
    /\ answer = [c \in Clients |-> "none"]

Reply(c, a) == answer' = [answer EXCEPT ![c] = a]

Resolve ==
    /\ outcome = "pending"
    /\ outcome' \in Outcomes
    /\ UNCHANGED <<asking, answer>>

Ask(c) ==
    /\ c \notin asking
    /\ asking' = asking \cup {c}
    /\ UNCHANGED <<outcome, answer>>

\* The call returns the outcome itself, or only that there is one.
Answer(c) ==
    /\ c \in asking /\ outcome # "pending"
    /\ asking' = asking \ {c}
    /\ Reply(c, outcome) \/ Reply(c, "ready")
    /\ UNCHANGED outcome

GiveUp(c) ==
    /\ c \in asking /\ outcome = "pending"
    /\ asking' = asking \ {c}
    /\ Reply(c, "timeout")
    /\ UNCHANGED outcome

\* A look at the cell that does not block.
Look(c) ==
    /\ c \notin asking
    /\ Reply(c, IF outcome = "pending" THEN "running" ELSE outcome)
    /\ UNCHANGED <<outcome, asking>>

Next == Resolve \/ \E c \in Clients : Ask(c) \/ Answer(c) \/ GiveUp(c) \/ Look(c)

Spec == Init /\ [][Next]_cellVars
=============================================================================
