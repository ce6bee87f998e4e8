---------------------------- MODULE CallbacksMC ----------------------------
(***************************************************************************)
(* Instances of Callbacks for TLC.                                         *)
(***************************************************************************)
EXTENDS Callbacks

\* The operations whose callbacks keep to the common shape: utime and getattr
\* misread the return value, and setxattr hides its variables.
PlainOps == Operations \ {"getattr", "utime", "setxattr"}
=============================================================================
