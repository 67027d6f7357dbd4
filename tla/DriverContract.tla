--------------------------- MODULE DriverContract ---------------------------
(***************************************************************************)
(* What a protocol driver promises about writes, whatever its protocol:    *)
(* the part of the ProtocolDriver trait that handle_write relies on.       *)
(* Requests are answered in the order in which they were submitted, each   *)
(* of them once, and none is lost.  The promise is one of safety: a driver *)
(* whose PLC is out of reach may keep its requests.                        *)
(***************************************************************************)
EXTENDS Naturals, Sequences

CONSTANT Requests

VARIABLES
    pending,        \* requests without an answer, in order of submission
    answer          \* what each request was answered

contractVars == <<pending, answer>>

Waiting(r) == \E i \in 1..Len(pending) : pending[i] = r

Init ==
    /\ pending = << >>
    /\ answer = [r \in Requests |-> "none"]

\* submit_write, or the send of handle_write.
Submit(r) ==
    /\ answer[r] = "none"
    /\ ~Waiting(r)
    /\ pending' = Append(pending, r)
    /\ UNCHANGED answer

\* Some step of read_cycle sends the reply of the oldest request.
Reply(result) ==
    /\ pending # << >>
    /\ answer[Head(pending)] = "none"
    /\ answer' = [answer EXCEPT ![Head(pending)] = result]
    /\ pending' = Tail(pending)

Next == (\E r \in Requests : Submit(r)) \/ (\E result \in {"ok", "err"} : Reply(result))

Spec == Init /\ [][Next]_contractVars
=============================================================================
