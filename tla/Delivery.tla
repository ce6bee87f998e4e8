------------------------------ MODULE Delivery ------------------------------
(***************************************************************************)
(* What a process may expect when it reads something of varying size out   *)
(* of a mounted file system, a link's target, an attribute's value, the    *)
(* list of the attributes or a directory, while others change it:          *)
(*                                                                         *)
(*   - it gets an error, or all of what was there at one moment since it   *)
(*     began to read, never half of it and never a mix of two moments;     *)
(*   - the only items that may be cut are those that are Cuttable.         *)
(*                                                                         *)
(* How many calls it takes is not its concern.                             *)
(***************************************************************************)
EXTENDS Sequences

CONSTANTS
  Kinds,       \* what is read
  Held,        \* for each kind, what may be there: sequences of items
  Cuttable     \* for each kind, the items that may arrive cut

VARIABLES
  kind,        \* what this process reads
  content,     \* what is there
  reading,     \* is a read in progress?
  seen,        \* what was there at some moment since it began
  result       \* what the last read gave

dvars == <<kind, content, reading, seen, result>>

Nothing == [is |-> "nothing", items |-> <<>>]
Error   == [is |-> "error", items |-> <<>>]

\* The ways in which s may arrive.
Shows(k, s, items) ==
  /\ DOMAIN items = DOMAIN s
  /\ \A i \in DOMAIN s :
       /\ items[i].name = s[i]
       /\ items[i].whole \/ s[i] \in Cuttable[k]

Init ==
  /\ kind \in Kinds
  /\ content \in Held[kind]
  /\ ~reading
  /\ seen = <<>>
  /\ result = Nothing

Change ==
  /\ content' \in Held[kind]
  /\ UNCHANGED <<kind, reading, seen, result>>

Ask ==
  /\ ~reading
  /\ reading'
  /\ seen' = content
  /\ result' = Nothing
  /\ UNCHANGED <<kind, content>>

See ==
  /\ reading
  /\ seen' = content
  /\ UNCHANGED <<kind, content, reading, result>>

Deliver ==
  /\ reading
  /\ ~reading'
  /\ result'.is = "value"
  /\ Shows(kind, seen, result'.items)
  /\ UNCHANGED <<kind, content, seen>>

Fail ==
  /\ reading
  /\ ~reading'
  /\ result' = Error
  /\ UNCHANGED <<kind, content, seen>>

Next == Change \/ Ask \/ See \/ Deliver \/ Fail

Spec == Init /\ [][Next]_dvars

=============================================================================
