------------------------------ MODULE Transport ------------------------------
(***************************************************************************)
(* What the callers of Manager::query rely on: a synchronous exchange.     *)
(* A query is refused, fails with an exception, or yields the answer to    *)
(* that very query; there is never more than one at a time.                *)
(***************************************************************************)
EXTENDS Naturals

VARIABLES
    busy,    \* a caller is inside query()
    asked,   \* number of queries made
    result   \* how the last one ended, and which query the bytes answer

vars == <<busy, asked, result>>

NoResult == [kind |-> "none", of |-> 0]
Failure == [kind |-> "failure", of |-> 0]
AnswerTo(q) == [kind |-> "answer", of |-> q]

Init ==
    /\ busy = FALSE
    /\ asked = 0
    /\ result = NoResult

Ask ==
    /\ ~busy
    /\ busy' = TRUE
    /\ asked' = asked + 1
    /\ result' = NoResult

Refuse ==
    /\ ~busy
    /\ asked' = asked + 1
    /\ result' = Failure
    /\ UNCHANGED busy

GetAnswer ==
    /\ busy
    /\ busy' = FALSE
    /\ result' = AnswerTo(asked)
    /\ UNCHANGED asked

Fail ==
    /\ busy
    /\ busy' = FALSE
    /\ result' = Failure
    /\ UNCHANGED asked

Next == Ask \/ Refuse \/ GetAnswer \/ Fail

Spec == Init /\ [][Next]_vars
=============================================================================
