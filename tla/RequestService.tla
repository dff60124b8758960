--------------------------- MODULE RequestService ---------------------------
(***************************************************************************)
(* What the API client promises to its callers, without sessions, slots or *)
(* connections: a call to SendRequest is answered with the answer to that  *)
(* very request, or it fails, and in either case it comes back.            *)
(***************************************************************************)
EXTENDS Naturals

CONSTANT Worker

VARIABLES status,   \* what has become of a worker's call
          number,   \* the number of a worker's current request
          answer    \* the request whose answer the worker was last given

vars == <<status, number, answer>>

Init ==
    /\ status = [w \in Worker |-> "idle"]
    /\ number = [w \in Worker |-> 0]
    /\ answer = [w \in Worker |-> <<w, 0>>]

Call(w) ==
    /\ status[w] = "idle"
    /\ status' = [status EXCEPT ![w] = "asked"]
    /\ number' = [number EXCEPT ![w] = @ + 1]
    /\ UNCHANGED answer

Answer(w) ==
    /\ status[w] = "asked"
    /\ status' = [status EXCEPT ![w] = "answered"]
    /\ answer' = [answer EXCEPT ![w] = <<w, number[w]>>]
    /\ UNCHANGED number

Fail(w) ==
    /\ status[w] = "asked"
    /\ status' = [status EXCEPT ![w] = "failed"]
    /\ UNCHANGED <<number, answer>>

\* There was no session to be had.
Refuse(w) ==
    /\ status[w] = "asked"
    /\ status' = [status EXCEPT ![w] = "idle"]
    /\ UNCHANGED <<number, answer>>

Return(w) ==
    /\ status[w] \in {"answered", "failed"}
    /\ status' = [status EXCEPT ![w] = "idle"]
    /\ UNCHANGED <<number, answer>>

Proceed(w) == Answer(w) \/ Fail(w) \/ Refuse(w) \/ Return(w)

Next == \E w \in Worker : Call(w) \/ Proceed(w)

Spec == Init /\ [][Next]_vars

FairSpec == Spec /\ \A w \in Worker : WF_vars(Proceed(w))

=============================================================================
