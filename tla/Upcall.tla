------------------------------- MODULE Upcall -------------------------------
(***************************************************************************)
(* What the kernel and a Java file system may expect of one FUSE callback: *)
(*                                                                         *)
(*   - the file system is called once at most for each request;            *)
(*   - if it is called, the request is answered with its outcome: success, *)
(*     the errno it threw, ERANGE for a BufferOverflowException, EFAULT    *)
(*     for anything else; a success may still turn into an error when its  *)
(*     results cannot be handed over;                                      *)
(*   - if it is not called, the request is answered with EFAULT.           *)
(***************************************************************************)
CONSTANT Errnos   \* the errnos a file system puts in its FuseExceptions

VARIABLES
  phase,     \* "idle", "asked" or "served"
  outcome,   \* what the file system did, "none" before it was called
  answer     \* what the kernel was told, "none" before it is

uvars == <<phase, outcome, answer>>

Outcomes ==
  {"ok", "null", "overlong", "overflow", "noErrno", "exception", "error"}
    \cup Errnos

AnswersTo(o) ==
  CASE o = "ok"       -> {"ok", "EFAULT", "refused"}
    [] o = "null"     -> {"ENOENT", "EFAULT"}
    [] o = "overlong" -> {"ENAMETOOLONG"}
    [] o = "overflow" -> {"ERANGE"}
    [] o \in Errnos   -> {o}
    [] OTHER          -> {"EFAULT"}

Init ==
  /\ phase = "idle"
  /\ outcome = "none"
  /\ answer = "none"

Ask ==
  /\ phase = "idle"
  /\ phase' = "asked"
  /\ outcome' = "none"
  /\ answer' = "none"

Reject ==
  /\ phase = "asked"
  /\ phase' = "idle"
  /\ answer' = "EFAULT"
  /\ UNCHANGED outcome

Serve(o) ==
  /\ phase = "asked"
  /\ phase' = "served"
  /\ outcome' = o
  /\ UNCHANGED answer

Answer(a) ==
  /\ phase = "served"
  /\ a \in AnswersTo(outcome)
  /\ phase' = "idle"
  /\ answer' = a
  /\ UNCHANGED outcome

Next ==
  \/ Ask
  \/ Reject
  \/ \E o \in Outcomes : Serve(o) \/ \E a \in AnswersTo(outcome) : Answer(a)

Spec == Init /\ [][Next]_uvars

=============================================================================
