---------------------------- MODULE MCAccounting ----------------------------
(* Instances of Accounting for TLC.                                          *)
EXTENDS Accounting

CONSTANTS a, b, c, d, w1, w2, w3

Need(mem, vram) == [mem |-> mem, vram |-> vram]

\* a and b need the GPU, and not both at once; c and d need memory only.  c
\* overruns its estimate.  a may have to wait for a snapshot with the GPU, d for
\* the only worker without a pin.
OneGpu == <<"gpu">>
TwoPinned == w1 :> "gpu" @@ w2 :> "gpu" @@ w3 :> None
Estimates == a :> Need(1, 1) @@ b :> Need(1, 1) @@ c :> Need(1, 0) @@ d :> Need(2, 0)
Overrun == [Estimates EXCEPT ![c].mem = 2]
Lines == {<<c, a>>, <<a, b>>, <<c, d>>}
Narrow == "memory" :> 3 @@ "gpu" :> 2

\* Workers without a GPU, and no room for both tasks.
NoGpu == <<>>
NoPin == [w \in {w1, w2, w3} |-> None]
Twice == {<<a, b>>}
TwoBig == a :> Need(2, 0) @@ b :> Need(2, 0)
Tight == "memory" :> 3
=============================================================================
