------------------------- MODULE ProtectionLifecycle -------------------------
(***************************************************************************)
(* What the futures runtime promises about the protection status of each   *)
(* side of a symbol, without executions, orders, memory and crashes: the   *)
(* status moves through pending or repairing, and it is "protected" only   *)
(* on an answer of the exchange that shows both a stop loss and a take     *)
(* profit.                                                                 *)
(***************************************************************************)
EXTENDS Integers

VARIABLES
    status,     \* protection status of the position row of each side
    answer      \* the last answer to get_positions, for this symbol

Sides == {1, -1}                                \* Buy, Sell
Answers == [ok : BOOLEAN, side : {-1, 0, 1}, stops : BOOLEAN]
NoAnswer == [ok |-> FALSE, side |-> 0, stops |-> FALSE]

Init ==
    /\ status = [s \in Sides |-> "closed"]
    /\ answer = NoAnswer

Ask ==
    /\ answer' \in Answers
    /\ UNCHANGED status

Becomes(s, new) == status' = [status EXCEPT ![s] = new] /\ UNCHANGED answer

Begin(s) ==
    Becomes(s, IF status[s] \in {"repairing", "unprotected", "failed"}
               THEN "repairing" ELSE "pending")

Fail(s) == Becomes(s, "failed")

InProgress(s) == status[s] \in {"pending", "repairing"}

\* A position of the symbol, whatever its side, with both prices set.
Confirm(s) ==
    /\ InProgress(s)
    /\ answer.ok /\ answer.side # 0 /\ answer.stops
    /\ Becomes(s, "protected")

Refuse(s) ==
    /\ status[s] = "pending"
    /\ answer.ok /\ answer.side # 0 /\ ~answer.stops
    /\ Becomes(s, "unprotected")

\* Reconciliation takes over what the exchange says of the side itself.
Import(s) ==
    /\ answer.ok /\ answer.side = s
    /\ Becomes(s, IF answer.stops THEN "protected" ELSE "unprotected")

Close(s) == Becomes(s, "closed")

Next ==
    \/ Ask
    \/ \E s \in Sides : Begin(s) \/ Fail(s) \/ Confirm(s) \/ Refuse(s)
                        \/ Import(s) \/ Close(s)

Spec == Init /\ [][Next]_<<status, answer>>
=============================================================================
