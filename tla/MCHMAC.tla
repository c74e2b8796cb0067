-------------------------------- MODULE MCHMAC --------------------------------
(***************************************************************************)
(* An instance of HMAC: deliveries of one signed request, of another with  *)
(* its nonce, of one with another nonce, of ones Wrap refuses, and of one  *)
(* whose timestamp is in milliseconds, far ahead of the clock.             *)
(***************************************************************************)
EXTENDS HMAC, TLC

CONSTANTS n1, n2

Carry(body, timestamp, nonce, signed, headers) ==
  [body |-> body, timestamp |-> timestamp, nonce |-> nonce, signed |-> signed,
   headers |-> headers]

Deliveries ==
  {Carry("valid", 1, n1, TRUE, TRUE), Carry("valid", 3, n1, TRUE, TRUE),
   Carry("incomplete", 3, n2, TRUE, TRUE), Carry("bad_json", 3, n2, TRUE, TRUE),
   Carry("valid", 1, n1, FALSE, TRUE), Carry("valid", 1, n1, TRUE, FALSE),
   Carry("unreadable", 1, n1, TRUE, TRUE),
   Carry("too_large", 1, n1, TRUE, TRUE),
   Carry("valid", 100, n2, TRUE, TRUE)}

\* One signed request.
OneRequest == {Carry("valid", 2, n1, TRUE, TRUE)}

RequestSymmetry == Permutations(Request)

=============================================================================
