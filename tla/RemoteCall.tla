----------------------------- MODULE RemoteCall -----------------------------
(***************************************************************************)
(* What a hypercall looks like to the guest kernel: it hands over one      *)
(* request, the VMM serves exactly that request once, and the call returns *)
(* what the VMM answered; or the VMM ends while it serves the request and  *)
(* the guest never runs again.                                             *)
(***************************************************************************)

CONSTANTS
  Answers,    \* the answers the VMM may give to each request, a function
  None

VARIABLES phase, request, reply

Init == phase = "idle" /\ request = None /\ reply = None

Call(q) ==
  /\ phase = "idle"
  /\ phase' = "called" /\ request' = q /\ reply' = None

Serve(r) ==
  /\ phase = "called"
  /\ r \in Answers[request]
  /\ phase' = "served" /\ reply' = r /\ request' = None

Return ==
  /\ phase = "served"
  /\ phase' = "idle" /\ reply' = None /\ UNCHANGED request

End ==
  /\ phase = "called"
  /\ phase' = "ended" /\ UNCHANGED <<request, reply>>

Next == \/ \E q \in DOMAIN Answers : Call(q)
        \/ \E r \in UNION {Answers[q] : q \in DOMAIN Answers} : Serve(r)
        \/ Return
        \/ End

Spec == Init /\ [][Next]_<<phase, request, reply>>
=============================================================================
