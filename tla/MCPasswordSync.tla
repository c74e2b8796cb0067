---------------------------- MODULE MCPasswordSync ----------------------------
(***************************************************************************)
(* Constants of the model-checking runs of PasswordSync.                   *)
(***************************************************************************)
EXTENDS PasswordSync, Identity, TLC

CONSTANTS e1, e2, e3, e4, e5, u1, u2, w1, w2

OneAccount == [e \in Event |-> u1]
Employees == [e \in Event |-> "employee_id"]
BadAndGoodAccount == [e \in Event |-> IF e \in {e1, e2} THEN u2 ELSE u1]
Mixed == [e \in Event |-> CASE e = e1 -> "employee_id" [] e = e2 -> "employee_id"
                             [] e = e3 -> "external_email" [] e = e4 -> "unknown"
                             [] e = e5 -> "student_id"]
ChangeThenLogin == [e \in Event |-> IF e = e2 THEN "login_bootstrap" ELSE "password_change"]

\* CNs with these accounts and identities; one account is spelled in two ways.
Spelled == [e \in Event |-> IF e = e1 THEN <<"A", "1">> ELSE <<" ", "a", "1">>]
Named == [e \in Event |-> CASE e = e1 -> <<"A", "-", "1">> [] e = e2 -> <<"a", "-", "1", " ">>
                             [] e = e3 -> <<"a", "@", "1">> [] e = e4 -> <<"1", "a">>
                             [] e = e5 -> <<"1", "2">>]

Agree(cn, identity, account) ==
  \A e, f \in Event :
    /\ identity[e] = ClassifyCN(cn[e])
    /\ NoUPN \notin {BuildUPN(cn[e]), BuildUPN(cn[f])} =>
         (account[e] = account[f] <=> normalizeUPN(BuildUPN(cn[e])) = normalizeUPN(BuildUPN(cn[f])))

ASSUME AccountsAreThose ==
  Agree(Spelled, Employees, OneAccount) /\ Agree(Named, Mixed, BadAndGoodAccount)

Texts(n) == UNION {[1 .. k -> Letter \cup Digit \cup {"-", "@", " ", "?"}] : k \in 0 .. n}

\* Submit gets a UPN exactly for the identities it goes on with, and two events
\* share a record exactly when their CNs differ in case and outer spaces only.
ASSUME UPNOfIdentity ==
  /\ \A cn \in Texts(3) : ClassifyCN(cn) \in {"student_id", "employee_id"} <=> BuildUPN(cn) # NoUPN
  /\ \A cn, other \in {t \in Texts(2) : BuildUPN(t) # NoUPN} :
       normalizeUPN(BuildUPN(cn)) = normalizeUPN(BuildUPN(other))
         <=> ToLower(TrimSpace(cn)) = ToLower(TrimSpace(other))

WorkerSymmetry == Permutations({w1, w2})

=============================================================================
