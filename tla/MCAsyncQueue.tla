---------------------------- MODULE MCAsyncQueue ----------------------------
(* The model values of the runs of AsyncQueue.                               *)
EXTENDS AsyncQueue

CONSTANTS c1, c2, w1

TwoConsumers == {c1, c2}
OneWatcher == {w1}

=============================================================================
