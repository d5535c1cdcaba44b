----------------------------- MODULE TaskLifecycle -----------------------------
(***************************************************************************)
(* What a collaboration task promises to somebody who only sees its row:   *)
(* its requirement is analysed until a user confirms it, then it is        *)
(* planned, executed and evaluated; a bounded number of revisions; it      *)
(* ends once.                                                              *)
(***************************************************************************)
EXTENDS Naturals
CONSTANT MaxRetries
VARIABLES status, retries

Moves == {<<"absent", "pending">>, <<"pending", "requirement_analysis">>,
          <<"requirement_analysis", "requirement_confirmation">>,
          <<"requirement_confirmation", "requirement_analysis">>,
          <<"requirement_confirmation", "planning">>,
          <<"planning", "execution">>, <<"execution", "evaluation">>,
          <<"evaluation", "completed">>}
Active == {"requirement_analysis", "planning", "execution", "evaluation", "revision"}

Init == status = "absent" /\ retries = 0

Move == <<status, status'>> \in Moves /\ UNCHANGED retries
Reject == /\ status = "evaluation" /\ status' = "revision"
          /\ retries < MaxRetries /\ retries' = retries + 1
Revise == /\ status = "revision" /\ retries < MaxRetries
          /\ status' = "execution" /\ UNCHANGED retries
Fail == status \in Active /\ status' = "failed" /\ UNCHANGED retries
Cancel == status # "absent" /\ status' = "cancelled" /\ UNCHANGED retries

Next == Move \/ Reject \/ Revise \/ Fail \/ Cancel
Spec == Init /\ [][Next]_<<status, retries>>
=============================================================================
