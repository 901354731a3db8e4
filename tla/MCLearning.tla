----------------------------- MODULE MCLearning -----------------------------
(* Instances of Learning for TLC.                                            *)
EXTENDS Learning

CONSTANTS plain, keyed, hinted

\* One call without a key, two with one.
Keyed == [x \in Calls |-> IF x = plain THEN None ELSE "k"]
Less == (TRUE :> {plain, keyed}) @@ (FALSE :> {plain, keyed, hinted})
OneHint == [x \in Calls |-> IF x = hinted THEN 1 ELSE None]

\* An earlier process saw one small run.
OneRun == {[EmptyStore EXCEPT ![Base].obs = <<0>>]}
=============================================================================
