--------------------------- MODULE OrderedOutput ---------------------------
(***************************************************************************)
(* What a correlation job promises, with no nodes in it: slices are        *)
(* numbered as they are handed out, the output is an append-only log that  *)
(* takes them in the order of their numbers however they are computed, and *)
(* the job is over only when all of them are in it.                        *)
(***************************************************************************)
EXTENDS Naturals, Sequences

VARIABLES
  issued,     \* number of slices handed out
  closed,     \* no more slices will be handed out
  log,        \* the output
  over        \* the job has ended

vars == <<issued, closed, log, over>>

Init == issued = 0 /\ closed = FALSE /\ log = <<>> /\ over = FALSE

Issue ==
  /\ ~closed
  /\ issued' = issued + 1
  /\ UNCHANGED <<closed, log, over>>

Close ==
  /\ ~closed
  /\ closed' = TRUE
  /\ UNCHANGED <<issued, log, over>>

Write ==
  /\ Len(log) < issued
  /\ log' = Append(log, Len(log))
  /\ UNCHANGED <<issued, closed, over>>

End ==
  /\ closed /\ Len(log) = issued /\ ~over
  /\ over' = TRUE
  /\ UNCHANGED <<issued, closed, log>>

Next == Issue \/ Close \/ Write \/ End

Spec == Init /\ [][Next]_vars /\ WF_vars(Write) /\ WF_vars(End)
=============================================================================
