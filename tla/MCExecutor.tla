----------------------------- MODULE MCExecutor -----------------------------
(* Instances of Executor for TLC.                                            *)
EXTENDS ExecutorRefinement

CONSTANTS a, b, c

Est(mem, vram, dur) == [mem |-> mem, vram |-> vram, cpu |-> 1, dur |-> dur]

NoGpus == <<>>
NoVram == [g \in {} |-> 0]

\* One function for both tasks, or one each.
SameFn == [t \in Tasks |-> "f"]
OwnFn == [t \in Tasks |-> IF t = a THEN "f" ELSE "g"]

Small == [t \in Tasks |-> Est(1, 0, None)]
SmallShort == [t \in Tasks |-> Est(1, 0, 1)]

\* a and b need a GPU, c does not.
OneGpu == <<1>>
OneVram == [g \in {1} |-> 3]
OnGpu == [t \in Tasks |-> IF t = c THEN Est(1, 0, None) ELSE Est(1, 2, None)]
OnGpuShort == [t \in Tasks |-> IF t = c THEN Est(1, 0, 1) ELSE Est(1, 1, 1)]

\* Three pins; a and c do not fit together (the comparisons are strict).
TwoGpus == <<1, 2>>
TwoVram == [g \in {1, 2} |-> 3]
OnGpus ==
  [t \in Tasks |-> CASE t = a -> Est(2, 2, None) [] t = b -> Est(1, 2, None)
                      [] t = c -> Est(2, 0, None)]
=============================================================================
