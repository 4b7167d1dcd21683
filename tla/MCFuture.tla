------------------------------ MODULE MCFuture ------------------------------
(* Instances of Future for TLC.                                            *)
EXTENDS Future, TLC
CONSTANTS a, b, c, then1, then2, err1, err2
ThreeWaiters == {a, b, c}
GetGetWaitFor == (a :> "Get") @@ (b :> "Get") @@ (c :> "WaitFor")
TwoThen == {then1, then2}
TwoErr == {err1, err2}
=============================================================================
