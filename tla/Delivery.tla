------------------------------- MODULE Delivery -------------------------------
(***************************************************************************)
(* What the pipeline promises about every message, without queues, locks,  *)
(* workers or retries: a message that was taken ends either settled, with  *)
(* durable evidence of its outcome, or dropped by the broker; and an end   *)
(* is final.                                                               *)
(***************************************************************************)
CONSTANT Event

VARIABLES
  fate,          \* "none", "live", "settled" or "dropped"
  evidence       \* events with a password in Graph or a safe dead-letter entry

Init ==
  /\ fate \in [Event -> {"none", "live"}]
  /\ evidence = {}

Accept(e) ==
  /\ fate[e] = "none"
  /\ fate' = [fate EXCEPT ![e] = "live"]
  /\ UNCHANGED evidence

\* Evidence may also come after the end, from a worker that lost its lock.
Document(e) ==
  /\ fate[e] # "none"
  /\ evidence' = evidence \cup {e}
  /\ UNCHANGED fate

Settle(e) ==
  /\ fate[e] = "live"
  /\ e \in evidence
  /\ fate' = [fate EXCEPT ![e] = "settled"]
  /\ UNCHANGED evidence

Drop(e) ==
  /\ fate[e] = "live"
  /\ fate' = [fate EXCEPT ![e] = "dropped"]
  /\ UNCHANGED evidence

Next == \E e \in Event : Accept(e) \/ Document(e) \/ Settle(e) \/ Drop(e)

Spec == Init /\ [][Next]_<<fate, evidence>>

=============================================================================
