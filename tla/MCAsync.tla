------------------------------- MODULE MCAsync -------------------------------
(* Instances of Async for TLC.                                             *)
EXTENDS Async
CONSTANTS t1, t2, t3, t4
FourTasks == {t1, t2, t3, t4}
OneThrows == {t4}
=============================================================================
