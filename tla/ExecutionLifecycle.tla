--------------------------- MODULE ExecutionLifecycle ---------------------------
(***************************************************************************)
(* What workflow executions promise to a caller who only sees their stored *)
(* rows: an execution starts once, waits only while it runs, is resumed by *)
(* one new answer per wait, never goes back to the state before it, ends   *)
(* once, and its verdict changes only when somebody cancels.               *)
(***************************************************************************)
CONSTANTS Executions, Payloads
VARIABLES status, answer

Waiting == {"waiting_input", "waiting_event", "waiting_approval"}

Init == /\ status = [e \in Executions |-> "absent"]
        /\ answer = [e \in Executions |-> {}]

Start(e) == /\ status[e] = "absent"
            /\ status' = [status EXCEPT ![e] = "running"]
            /\ UNCHANGED answer

Wait(e) == /\ status[e] = "running"
           /\ \E s \in Waiting : status' = [status EXCEPT ![e] = s]
           /\ UNCHANGED answer

Resume(e, p) == /\ status[e] \in Waiting
                /\ answer[e] # {p}
                /\ status' = [status EXCEPT ![e] = "running"]
                /\ answer' = [answer EXCEPT ![e] = {p}]

End(e) == /\ status[e] = "running"
          /\ \E s \in {"completed", "failed"} : status' = [status EXCEPT ![e] = s]
          /\ UNCHANGED answer

Cancel(e) == /\ status[e] # "absent"
             /\ status' = [status EXCEPT ![e] = "cancelled"]
             /\ UNCHANGED answer

Next == \E e \in Executions :
    Start(e) \/ Wait(e) \/ (\E p \in Payloads : Resume(e, p)) \/ End(e) \/ Cancel(e)

Spec == Init /\ [][Next]_<<status, answer>>
=============================================================================
