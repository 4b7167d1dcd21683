\* Two Get and a WaitFor, two Then and two OnError race with two calls of
\* SetValue and SetInvalid and the promise's destruction.
SPECIFICATION FairSpec
CONSTANTS
  a = a  b = b  c = c
  then1 = then1  then2 = then2  err1 = err1  err2 = err2
  Nobody = Nobody
  Waiters <- ThreeWaiters
  Operation <- GetGetWaitFor
  Listeners <- TwoThen
  ErrListeners <- TwoErr
  MaxCalls = 2
INVARIANTS TypeOK GetSeesValue WaitersAgree CallbacksOnce WaiterNotForgotten
PROPERTY WaiterReturns
\* The promise ends, and waiters that are not notified sleep for ever.
CHECK_DEADLOCK FALSE
