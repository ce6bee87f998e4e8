---------------------------- MODULE HandleService ----------------------------
(***************************************************************************)
(* What a Java file system is promised about the handle it may attach to   *)
(* an open file (Filesystem.java: "fh is filehandle passed from open"):    *)
(*                                                                         *)
(*   - the handle object of a file stays reachable (pinned) from the end   *)
(*     of its open to its release, and no longer;                          *)
(*   - every call about an open file is given the handle of that very      *)
(*     file, or null if it has none.                                       *)
(*                                                                         *)
(* An element of Files is one opening of a file; its handle object goes    *)
(* by the same name.                                                       *)
(***************************************************************************)
CONSTANTS
  Files,     \* the openings
  Threads,   \* the threads the file system is called on
  NULL

VARIABLES
  state,     \* "new", "open" or "closed", for each opening
  pinned,    \* the openings whose handle object cannot be collected
  serving    \* for each thread, the call the file system is running

svars == <<state, pinned, serving>>

Nothing == [file |-> NULL, obj |-> NULL]

HandleOf(f) == IF f \in pinned THEN f ELSE NULL

Init ==
  /\ state = [f \in Files |-> "new"]
  /\ pinned = {}
  /\ serving = [t \in Threads |-> Nothing]

\* open() has succeeded, with a handle or without.
Open(f, withHandle) ==
  /\ state[f] = "new"
  /\ state' = [state EXCEPT ![f] = "open"]
  /\ pinned' = IF withHandle THEN pinned \cup {f} ELSE pinned
  /\ UNCHANGED serving

OpenFails(f) ==
  /\ state[f] = "new"
  /\ state' = [state EXCEPT ![f] = "closed"]
  /\ UNCHANGED <<pinned, serving>>

\* read, write, flush, fsync or release.
Call(t, f) ==
  /\ state[f] = "open"
  /\ serving[t] = Nothing
  /\ serving' = [serving EXCEPT ![t] = [file |-> f, obj |-> HandleOf(f)]]
  /\ UNCHANGED <<state, pinned>>

Return(t) ==
  /\ serving[t] # Nothing
  /\ serving' = [serving EXCEPT ![t] = Nothing]
  /\ UNCHANGED <<state, pinned>>

\* The file is released and nobody is using it.
Close(f) ==
  /\ state[f] = "open"
  /\ \A t \in Threads : serving[t].file # f
  /\ state' = [state EXCEPT ![f] = "closed"]
  /\ pinned' = pinned \ {f}
  /\ UNCHANGED serving

Next ==
  \/ \E f \in Files, h \in BOOLEAN : Open(f, h)
  \/ \E f \in Files : OpenFails(f)
  \/ \E t \in Threads, f \in Files : Call(t, f)
  \/ \E t \in Threads : Return(t)
  \/ \E f \in Files : Close(f)

Spec == Init /\ [][Next]_svars

=============================================================================
