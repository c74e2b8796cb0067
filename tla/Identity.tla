------------------------------- MODULE Identity -------------------------------
(***************************************************************************)
(* internal/migration/classifier.go and upn.go, with the key that          *)
(* internal/syncstatus makes of a UPN.  A text is a sequence of characters;*)
(* "?" is one that is neither letter, digit, hyphen, at sign nor space, and*)
(* the primary domain is a single symbol.                                  *)
(***************************************************************************)
EXTENDS Integers, Sequences, FiniteSetsExt

Space == " "
Digit == {"1", "2"}
Lower == [A |-> "a"]
Letter == {"a"} \cup DOMAIN Lower

TrimSpace(text) ==
  LET inner == {i \in DOMAIN text : text[i] # Space}
  IN  IF inner = {} THEN <<>> ELSE SubSeq(text, Min(inner), Max(inner))

ToLower(text) == [i \in DOMAIN text |-> IF text[i] \in DOMAIN Lower THEN Lower[text[i]] ELSE text[i]]

Only(text, characters) == \A i \in DOMAIN text : text[i] \in characters

ClassifyCN(cn) ==
  LET normalized == TrimSpace(cn)
  IN  CASE normalized = <<>> -> "unknown"
        [] "@" \in {normalized[i] : i \in DOMAIN normalized} -> "external_email"
        [] normalized # <<>> /\ Only(normalized, Digit) -> "student_id"
        [] normalized # <<>> /\ normalized[1] \in Letter /\ Only(normalized, Letter \cup Digit \cup {"-"}) ->
             "employee_id"
        [] OTHER -> "unknown"

NoUPN == <<>>

\* Whatever is not a UPN is an error to Submit.
BuildUPN(cn) ==
  LET normalized == TrimSpace(cn)
  IN  IF ClassifyCN(normalized) \in {"student_id", "employee_id"} THEN normalized \o <<"@", "domain">>
      ELSE NoUPN

\* The key of the record; Microsoft Entra does not tell cases apart either.
normalizeUPN(upn) == ToLower(TrimSpace(upn))

=============================================================================
