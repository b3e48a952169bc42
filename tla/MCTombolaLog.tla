---------------------------- MODULE MCTombolaLog ----------------------------
(* TombolaLog: threads that log and are killed while any insert may fail,  *)
(* threads that log more than the queue and the pool hold, or one thread   *)
(* that logs while somebody reads the table.                               *)
EXTENDS TombolaLog

Loggers ==
  [threads |-> Thread, kinds |-> Kind, keys |-> {1}, events |-> MaxEvents - 1,
   rows |-> 0, views |-> {}, crash |-> TRUE, fails |-> TRUE]

Overflow == [Loggers EXCEPT !.kinds = {"error"}, !.events = MaxEvents, !.crash = FALSE]

Readers(view, kinds, events) ==
  [threads |-> {CHOOSE th \in Thread : TRUE}, kinds |-> kinds, keys |-> Key, events |-> events,
   rows |-> 3, views |-> {view}, crash |-> FALSE, fails |-> FALSE]

All == {Loggers, Overflow, Readers("log", {"audit", "error"}, 1), Readers("audit", {"audit"}, 2)}
=============================================================================
