---------------------------- MODULE MCRateLimiter ----------------------------
(***************************************************************************)
(* Instances of RateLimiter: who sends what.                               *)
(***************************************************************************)
EXTENDS RateLimiter, TLC

CONSTANTS portal, other, proxy, forwarded

Carry(p, f) == [peer |-> p, forwarded |-> f]

\* Every peer, and behind the proxy every header of up to two hops, a longer
\* one and two headers.
Hop == {portal, proxy, NoIP}
Value == UNION {[1 .. n -> Hop] : n \in 0 .. 2} \cup {<<other, portal, proxy>>}
Sources ==
  {Carry(p, <<>>) : p \in IP \cup {NoIP}} \cup {Carry(other, <<<<portal>>>>)}
  \cup {Carry(proxy, <<v>>) : v \in Value} \cup {Carry(proxy, <<<<portal>>, <<portal>>>>)}

\* A burst from one address, directly, and one request that takes any way.
Burst == [r \in Request |-> IF r = forwarded THEN Sources ELSE {Carry(portal, <<>>)}]

RequestSymmetry == Permutations(Request \ {forwarded})

=============================================================================
