-------------------------------- MODULE Graph --------------------------------
(***************************************************************************)
(* Microsoft Graph as internal/graphclient uses it: a lookup, then a patch *)
(* of the user or its creation.  Graph's answers are external; what the    *)
(* client makes of them is classifyGraphResponse.                          *)
(***************************************************************************)
EXTENDS Naturals

CONSTANT
  GraphFaults    \* the statuses Graph may answer besides the expected ones;
                 \* 0 stands for an error of the token or HTTP client

ASSUME GraphAssumption == GraphFaults \subseteq {0, 400, 403, 409, 429, 500, 503}

VARIABLES
  accounts,      \* UPNs that exist in the directory
  written,       \* history: events whose password Graph applied
  refused        \* history: events Graph answered 400 or 403

graphVars == <<accounts, written, refused>>

Status == {0, 200, 201, 204, 400, 403, 404, 409, 429, 500, 503}

ClassifyThrottlingPermanent(status) ==
  IF status \in 200 .. 299 THEN "ok"
  ELSE IF status \in 400 .. 499 THEN "permanent"
  ELSE "transient"

\* What the client makes of an answer to the patch or the creation.
classifyGraphResponse(status) ==
  IF status \in 200 .. 299 THEN "ok"
  ELSE IF status \in {400, 403} THEN "permanent"
  ELSE "transient"

\* A cancelled context turns every request into a client error.
Failures(canceled) == IF canceled THEN {0} ELSE GraphFaults

Answer(e, status) ==
  refused' = IF status \in {400, 403} THEN refused \cup {e} ELSE refused

\* GET /users/{upn}
Lookup(e, u, canceled, status) ==
  /\ \/ status \in Failures(canceled)
     \/ ~ canceled /\ status = IF u \in accounts THEN 200 ELSE 404
  /\ Answer(e, status)
  /\ UNCHANGED <<accounts, written>>

Apply(e, u) ==
  /\ accounts' = accounts \cup {u}
  /\ written' = written \cup {e}

\* PATCH of an existing user or POST of a new one.  A client error does not
\* tell whether Graph applied the request.
Write(e, u, verb, canceled, status) ==
  LET conflict == verb = "create" /\ u \in accounts
  IN  /\ \/ /\ ~ canceled /\ ~ conflict
            /\ status = IF verb = "create" THEN 201 ELSE 204
            /\ Apply(e, u)
         \/ ~ canceled /\ conflict /\ status = 400 /\ UNCHANGED <<accounts, written>>
         \/ status \in Failures(canceled) /\ UNCHANGED <<accounts, written>>
         \/ status = 0 /\ 0 \in Failures(canceled) /\ ~ conflict /\ Apply(e, u)
      /\ Answer(e, status)

\* The directory has none or all of the accounts at first.
GraphInit(upns) ==
  /\ accounts \in {{}, upns}
  /\ written = {}
  /\ refused = {}

=============================================================================
