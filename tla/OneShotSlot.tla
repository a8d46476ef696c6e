---------------------------- MODULE OneShotSlot ----------------------------
(***************************************************************************)
(* What a caller of waitForHandshake() may rely on, whatever the sockets,  *)
(* the timers and the closures do: a verdict that is reached once and for  *)
(* all when it is a success, promises that settle all together with the    *)
(* verdict they waited for, and calls made after a verdict answered at     *)
(* once from it.  A failed verdict is weaker than it looks: a later        *)
(* failure replaces it and a handshake still under way reopens or          *)
(* overrules it.                                                           *)
(***************************************************************************)
CONSTANTS Callers, Results, Reasons

VARIABLES
    verdict,    \* [state |-> "open" | "ok" | "err", value |-> ...]
    call        \* call[w]: the promise that call w returned

vars == <<verdict, call>>

NoValue == "none"

Waiting == {w \in Callers : call[w].status = "pending"}

Answer(status, value) == [status |-> status, value |-> value]

Verdict(state, value) == [state |-> state, value |-> value]

AnswerWaiting(status, value) ==
    call' = [w \in Callers |-> IF w \in Waiting THEN Answer(status, value) ELSE call[w]]

Init ==
    /\ verdict = Verdict("open", NoValue)
    /\ call = [w \in Callers |-> Answer("uncalled", NoValue)]

Call(w) ==
    /\ call[w].status = "uncalled"
    /\ \/ /\ verdict.state = "open"
          /\ call' = [call EXCEPT ![w] = Answer("pending", NoValue)]
       \/ /\ verdict.state = "ok"
          /\ call' = [call EXCEPT ![w] = Answer("resolved", verdict.value)]
       \/ /\ verdict.state = "err"
          /\ call' = [call EXCEPT ![w] = Answer("rejected", verdict.value)]
    /\ UNCHANGED verdict

Succeed(r) ==
    /\ verdict.state # "ok"
    /\ verdict' = Verdict("ok", r)
    /\ AnswerWaiting("resolved", r)

FailFor(e) ==
    /\ verdict.state # "ok"
    /\ verdict' = Verdict("err", e)
    /\ AnswerWaiting("rejected", e)

Reopen ==
    /\ verdict.state = "err"
    /\ verdict' = Verdict("open", NoValue)
    /\ UNCHANGED call

Reach == (\E r \in Results : Succeed(r)) \/ (\E e \in Reasons : FailFor(e))

Next == (\E w \in Callers : Call(w)) \/ Reach \/ Reopen

(***************************************************************************)
(* The stronger contract of a server that never reopens a failed verdict:  *)
(* a call made after a failure is answered at once, always.                *)
(***************************************************************************)
ClosedNext == (\E w \in Callers : Call(w)) \/ Reach

(***************************************************************************)
(* A verdict is reached as long as a call waits for one.                   *)
(***************************************************************************)
Fairness == WF_vars(Waiting # {} /\ Reach)

SafeSpec == Init /\ [][Next]_vars

Spec == SafeSpec /\ Fairness

SafeClosedSpec == Init /\ [][ClosedNext]_vars

ClosedSpec == SafeClosedSpec /\ Fairness

=============================================================================
