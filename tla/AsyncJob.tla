------------------------------- MODULE AsyncJob --------------------------------
(***************************************************************************)
(* What an asynchronous handle promises to whoever holds it                *)
(* (data-mig/core/handle.go): a status that ends once, an error that is    *)
(* there exactly when the work did not get done by the time Wait returns,  *)
(* and "cancelled" only for somebody who asked for it.                     *)
(***************************************************************************)

VARIABLES
  status,      \* Status()
  err,         \* Err(): "" for nil
  closed,      \* the channel Wait blocks on
  cancelled    \* Cancel() was called

job == <<status, err, closed, cancelled>>

Init ==
  /\ status = "pending"
  /\ err = ""
  /\ closed = FALSE
  /\ cancelled = FALSE

Cancel ==
  /\ cancelled' = TRUE
  /\ UNCHANGED <<status, err, closed>>

Start ==
  /\ status = "pending" /\ status' = "running"
  /\ UNCHANGED <<err, closed, cancelled>>

\* The work is done, or failed with its error...
End ==
  /\ status = "running"
  /\ \/ status' = "done" /\ err' = err
     \/ status' = "failed" /\ err' = "error"
  /\ UNCHANGED <<closed, cancelled>>

\* ... or was cancelled, whose error may follow a moment later.
EndCancelled ==
  /\ status = "running" /\ cancelled
  /\ status' = "cancelled"
  /\ UNCHANGED <<err, closed, cancelled>>
Explain ==
  /\ status = "cancelled" /\ ~closed
  /\ err' = "cancelled"
  /\ UNCHANGED <<status, closed, cancelled>>

\* Wait returns.
Finish ==
  /\ \/ status = "done" /\ err = ""
     \/ status = "failed" /\ err = "error"
     \/ status = "cancelled" /\ err = "cancelled"
  /\ closed' = TRUE
  /\ UNCHANGED <<status, err, cancelled>>

Next == Cancel \/ Start \/ End \/ EndCancelled \/ Explain \/ Finish

Spec == Init /\ [][Next]_job

=============================================================================
