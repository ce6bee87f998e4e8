--------------------------- MODULE CallbacksProofs ---------------------------
(***************************************************************************)
(* Proofs about Callbacks.                                                 *)
(***************************************************************************)
EXTENDS Callbacks, FiniteSetTheorems, TLAPS

\* A list of C variables that names none twice.
Distinct(s) ==
  /\ s \in Seq(Holders)
  /\ \A i, j \in 1..Len(s) : s[i] = s[j] => i = j

LEMMA DistinctLists ==
  ASSUME NEW a \in Holders, NEW b \in Holders, NEW c \in Holders,
         a # b, b # c, a # c
  PROVE  Distinct(<<a>>) /\ Distinct(<<a, b>>) /\ Distinct(<<a, b, c>>)
<1>1. Distinct(<<a>>)
  BY DEF Distinct
<1>2. Distinct(<<a, b>>)
  BY DEF Distinct
<1>3. Distinct(<<a, b, c>>)
  <2> DEFINE s == <<a, b, c>>
  <2>1. s \in Seq(Holders) /\ Len(s) = 3
    OBVIOUS
  <2>2. s[1] = a /\ s[2] = b /\ s[3] = c
    OBVIOUS
  <2>3. \A i \in 1..3 : i = 1 \/ i = 2 \/ i = 3
    OBVIOUS
  <2> HIDE DEF s
  <2>4. Distinct(s)
    BY <2>1, <2>2, <2>3 DEF Distinct
  <2> QED
    BY <2>4 DEF s
<1> QED
  BY <1>1, <1>2, <1>3

\* The argument list of an operation names C variables, each once.
LEMMA ArgsDistinct ==
  ASSUME NEW o \in Operations
  PROVE  Distinct(Args(o))
<1>1. CASE o \in PathOnly
  <2>1. Args(o) = <<"jPath">>
    BY <1>1 DEF Args, PathOnly, TwoPaths
  <2> QED
    BY <2>1 DEF Holders, Distinct
<1>2. CASE o \in TwoPaths
  <2>1. Args(o) = <<"jFrom", "jTo">>
    BY <1>2 DEF Args, PathOnly, TwoPaths
  <2> QED
    BY <2>1 DEF Holders, Distinct
<1>3. CASE o \in {"getattr", "readlink", "getdir", "open"}
  <2>1. \E x \in {"jGetattr", "jLink", "jDirEntList", "jOpen"} :
          Args(o) = <<"jPath", x>>
    BY <1>3 DEF Args, PathOnly, TwoPaths
  <2>2. PICK x \in {"jGetattr", "jLink", "jDirEntList", "jOpen"} :
          Args(o) = <<"jPath", x>>
    BY <2>1
  <2> QED
    BY <2>2 DEF Holders, Distinct
<1>4. CASE o \in {"read", "write", "removexattr", "listxattr",
                  "listxattrsize"}
  <2>1. \E x \in {"jBuf", "jName", "jList", "jSize"} :
          Args(o) = <<"jPath", x>>
    BY <1>4 DEF Args, PathOnly, TwoPaths
  <2>2. PICK x \in {"jBuf", "jName", "jList", "jSize"} :
          Args(o) = <<"jPath", x>>
    BY <2>1
  <2> QED
    BY <2>2 DEF Holders, Distinct
<1>5. CASE o = "statfs"
  <2>1. Args(o) = <<"jStatfs">>
    BY <1>5 DEF Args, PathOnly, TwoPaths
  <2> QED
    BY <2>1 DEF Holders, Distinct
<1>6. CASE o \in {"setxattr", "getxattr"}
  <2>1. Args(o) = <<"jPath", "jName", "jValue">>
    BY <1>6 DEF Args, PathOnly, TwoPaths
  <2> QED
    BY <2>1, DistinctLists DEF Holders
<1>7. CASE o = "getxattrsize"
  <2>1. Args(o) = <<"jPath", "jName", "jSize">>
    BY <1>7 DEF Args, PathOnly, TwoPaths
  <2> QED
    BY <2>1, DistinctLists DEF Holders
<1> QED
  BY <1>1, <1>2, <1>3, <1>4, <1>5, <1>6, <1>7 DEF Operations

-----------------------------------------------------------------------------
(* Type correctness, and the local references.                             *)

\* `l' local references are alive, those of the C variables `h' among them;
\* they are all of them unless setxattr is requested.
Counted(h, l) ==
  /\ IsFiniteSet(h)
  /\ Cardinality(h) \in Nat
  /\ Cardinality(h) <= l
  /\ "setxattr" \notin Ops => l = Cardinality(h)

\* The arguments made so far are the first of the list.
Prefix ==
  /\ Cardinality(held) <= Len(Args(op))
  /\ held = {Args(op)[i] : i \in 1..Cardinality(held)}

\* What the place in the code says about the variables.
Place ==
  /\ op \in Ops
  /\ at = "done" => held = {}
  /\ at = "make" => Prefix
  /\ at = "read" /\ op = "getdir" =>
       "jName" \notin held /\ "jDirEnt" \notin held
  /\ at = "entries" =>
       /\ op = "getdir"
       /\ bytes => "jName" \in held
       /\ "jName" \in held => "jDirEnt" \in held
       /\ "jDirEnt" \in held => left > 0
  /\ bytes => at \in {"entries", "cleanup"}
  /\ pending => PinFails

IInv == TypeOK /\ Counted(held, live) /\ Place

LEMMA CountMore ==
  ASSUME NEW h, NEW l \in Nat, NEW x, x \notin h, Counted(h, l)
  PROVE  Counted(h \cup {x}, l + 1) /\ Cardinality(h \cup {x}) = Cardinality(h) + 1
<1>1. IsFiniteSet(h \cup {x}) /\ Cardinality(h \cup {x}) = Cardinality(h) + 1
  BY FS_AddElement DEF Counted
<1> QED
  BY <1>1 DEF Counted

LEMMA CountLess ==
  ASSUME NEW h, NEW l \in Nat, NEW x, x \in h, Counted(h, l)
  PROVE  Counted(h \ {x}, l - 1) /\ l - 1 \in Nat
<1>1. IsFiniteSet(h \ {x}) /\ Cardinality(h \ {x}) = Cardinality(h) - 1
  BY FS_RemoveElement DEF Counted
<1>2. Cardinality(h \ {x}) \in Nat
  BY <1>1, FS_CardinalityType
<1> QED
  BY <1>1, <1>2 DEF Counted

LEMMA CountNone ==
  ASSUME NEW l \in Nat, "setxattr" \notin Ops => l = 0
  PROVE  Counted({}, l)
<1>1. IsFiniteSet({}) /\ Cardinality({}) = 0
  BY FS_EmptySet
<1> QED
  BY <1>1 DEF Counted

\* Leaving the block keeps the count.
LEMMA LeaveCounts ==
  ASSUME op \in Ops, NEW still, NEW l \in Nat, Counted(still, l), Leave(still)
  PROVE  /\ Counted(held', l)
         /\ held' \subseteq still
         /\ at' = "cleanup"
<1>1. CASE op = "setxattr"
  <2>1. held' = {}
    BY <1>1 DEF Leave
  <2> QED
    BY <1>1, <2>1, CountNone DEF Leave
<1>2. CASE op # "setxattr"
  BY <1>2 DEF Leave
<1> QED
  BY <1>1, <1>2

\* The next argument is a C variable that does not hold anything yet.
LEMMA NextArgument ==
  ASSUME IInv, at = "make", ~ArgsMade
  PROVE  LET x == Args(op)[Cardinality(held) + 1]
         IN /\ x \in Holders
            /\ x \notin held
            /\ held \cup {x} =
                 {Args(op)[i] : i \in 1..(Cardinality(held) + 1)}
            /\ Cardinality(held) + 1 <= Len(Args(op))
<1> DEFINE c == Cardinality(held)
<1>1. Distinct(Args(op))
  BY ArgsDistinct DEF IInv, TypeOK
<1>2. c \in Nat /\ c + 1 \in 1..Len(Args(op)) /\ Prefix
  <2>1. c \in Nat /\ c <= Len(Args(op)) /\ c # Len(Args(op)) /\ Prefix
    BY DEF IInv, Counted, Place, Prefix, ArgsMade
  <2>2. Len(Args(op)) \in Nat
    BY <1>1 DEF Distinct
  <2> QED
    BY <2>1, <2>2
<1>3. Args(op)[c + 1] \in Holders
  BY <1>1, <1>2 DEF Distinct
<1>4. Args(op)[c + 1] \notin held
  <2>1. ASSUME NEW i \in 1..c PROVE Args(op)[i] # Args(op)[c + 1]
    <3>1. i \in 1..Len(Args(op)) /\ i # c + 1
      BY <1>1, <1>2 DEF Distinct
    <3> QED
      BY <3>1, <1>1, <1>2 DEF Distinct
  <2> QED
    BY <2>1, <1>2 DEF Prefix
<1>5. 1..(c + 1) = (1..c) \cup {c + 1}
  BY <1>2
<1>6. held \cup {Args(op)[c + 1]} = {Args(op)[i] : i \in 1..(c + 1)}
  BY <1>2, <1>5 DEF Prefix
<1>7. c + 1 <= Len(Args(op))
  BY <1>2
<1> QED
  BY <1>3, <1>4, <1>6, <1>7

-----------------------------------------------------------------------------

LEMMA InitIInv == Init => IInv
<1> SUFFICES ASSUME Init PROVE IInv
  OBVIOUS
<1>1. Counted(held, live)
  BY CountNone DEF Init
<1>2. TypeOK
  <2>1. left \in 0..MaxEntries
    BY BoundsAssumption DEF Init
  <2>2. op \in Operations
    BY OpsAssumption DEF Init
  <2>3. live \in Nat
    BY DEF Init
  <2> QED
    BY <2>1, <2>2, <2>3, Zenon DEF Init, TypeOK, Codes
<1>3. Place
  BY DEF Init, Place
<1> QED
  BY <1>1, <1>2, <1>3 DEF IInv

\* A request finds no C variable holding anything.
LEMMA BeginKeeps ==
  ASSUME IInv, NEW o \in Ops, Begin(o)
  PROVE  IInv'
<1>1. TypeOK'
  <2>1. left' \in 0..MaxEntries
    BY BoundsAssumption DEF Begin
  <2>2. op' \in Operations
    BY OpsAssumption DEF Begin
  <2> QED
    BY <2>1, <2>2, Zenon DEF IInv, TypeOK, Begin, refs, Codes
<1>2. held = {} /\ held' = held /\ live' = live
  BY DEF IInv, Place, Begin, refs
<1>3. Counted(held', live')
  BY <1>2 DEF IInv
<1>4. Cardinality(held') = 0
  BY <1>2, FS_EmptySet
<1>5. Prefix'
  <2>1. Len(Args(o)) \in Nat
    BY ArgsDistinct, OpsAssumption DEF Distinct
  <2>2. 1..0 = {}
    OBVIOUS
  <2>3. op' = o
    BY DEF Begin
  <2> QED
    BY <1>2, <1>4, <2>1, <2>2, <2>3 DEF Prefix
<1>6. Place'
  BY <1>5 DEF IInv, Place, Begin, refs
<1> QED
  BY <1>1, <1>3, <1>6 DEF IInv

LEMMA MakeArgumentKeeps ==
  ASSUME IInv, MakeArgument
  PROVE  IInv'
<1> DEFINE x == Args(op)[Cardinality(held) + 1]
<1>1. /\ x \in Holders /\ x \notin held
      /\ held \cup {x} = {Args(op)[i] : i \in 1..(Cardinality(held) + 1)}
      /\ Cardinality(held) + 1 <= Len(Args(op))
  BY NextArgument DEF MakeArgument
<1>2. held' = held \cup {x} /\ live' = live + 1 /\ op' = op /\ at' = "make"
  BY DEF MakeArgument
<1>3. Counted(held', live') /\ Cardinality(held') = Cardinality(held) + 1
  BY <1>1, <1>2, CountMore DEF IInv, TypeOK
<1>4. TypeOK'
  BY <1>1, <1>2 DEF IInv, TypeOK, MakeArgument, reply
<1>5. Prefix'
  BY <1>1, <1>2, <1>3 DEF Prefix
<1>6. Place'
  BY <1>2, <1>5 DEF IInv, Place, MakeArgument, reply
<1> QED
  BY <1>3, <1>4, <1>6 DEF IInv

\* An action that leaves the block with some of the variables, changes none
\* of the references besides, and keeps to its types.
LEMMA LeaveKeeps ==
  ASSUME IInv, NEW still, still \subseteq Holders, live' \in Nat,
         Counted(still, live'), Leave(still),
         op' = op, bytes' = bytes, left' = left,
         pending' \in BOOLEAN, pending' => PinFails,
         jerrno' \in Codes, outcome' \in Outcomes \cup {"none"},
         filled' \in BOOLEAN, answer' = answer, missed' \in BOOLEAN,
         ub' \in BOOLEAN
  PROVE  IInv'
<1>1. Counted(held', live') /\ held' \subseteq still /\ at' = "cleanup"
  BY LeaveCounts DEF IInv, Place
<1>2. TypeOK'
  BY <1>1 DEF IInv, TypeOK
<1>3. Place'
  BY <1>1 DEF IInv, Place
<1> QED
  BY <1>1, <1>2, <1>3 DEF IInv

LEMMA MakeArgumentFailsKeeps ==
  ASSUME IInv, MakeArgumentFails
  PROVE  IInv'
<1> DEFINE x == Args(op)[Cardinality(held) + 1]
<1>1. x \in Holders /\ x \notin held
  BY NextArgument DEF MakeArgumentFails
<1>2. PICK still \in {held, held \cup {x}} :
        Leave(still) /\ Counted(still, live') /\ live' \in Nat
  <2>1. CASE Leave(held) /\ live' = live
    BY <2>1 DEF IInv, TypeOK
  <2>2. CASE Leave(held \cup {x}) /\ live' = live + 1
    BY <1>1, <2>2, CountMore DEF IInv, TypeOK
  <2> QED
    BY <2>1, <2>2 DEF MakeArgumentFails
<1>3. still \subseteq Holders
  BY <1>1 DEF IInv, TypeOK
<1>4. /\ op' = op /\ bytes' = bytes /\ left' = left
      /\ pending' = FALSE /\ jerrno' = "EFAULT" /\ outcome' = outcome
      /\ filled' = filled /\ answer' = answer /\ missed' = TRUE /\ ub' = ub
  BY DEF MakeArgumentFails, Caught
<1>5. "EFAULT" \in Codes
  BY DEF Codes
<1> QED
  BY <1>2, <1>3, <1>4, <1>5, LeaveKeeps DEF IInv, TypeOK

\* What C makes of the adapter's return value is an errno it knows.
LEMMA ReceivedCodes ==
  ASSUME NEW out \in Outcomes
  PROVE  Received(out) \in Codes
<1>1. CASE Escapes(out)
  BY <1>1, Zenon DEF Received, Codes
<1>2. CASE ~Escapes(out)
  <2>1. Returned(out) \in Codes
    <3>1. out \in {"ok", "null", "overlong", "overflow", "exception"} \cup Errnos
      BY <1>2 DEF Outcomes, Escapes
    <3> QED
      BY <3>1, SMT DEF Returned, Codes
  <2> QED
    BY <1>2, <2>1, SMT DEF Received, Codes
<1> QED
  BY <1>1, <1>2

LEMMA CallJavaKeeps ==
  ASSUME IInv, NEW out \in Outcomes, CallJava(out)
  PROVE  IInv'
<1>1. jerrno' \in Codes /\ outcome' \in Outcomes \cup {"none"}
  BY ReceivedCodes DEF CallJava
<1>2. /\ op' = op /\ live' = live /\ bytes' = bytes /\ left' = left
      /\ pending' = pending /\ filled' = filled /\ answer' = answer
      /\ missed' = missed /\ ub' \in BOOLEAN
  BY DEF CallJava, Misread
<1>3. CASE jerrno' = "ok" /\ op \in HasResults
  <2>1. at' = "read" /\ held' = held
    BY <1>3 DEF CallJava
  <2>2. TypeOK'
    BY <1>1, <1>2, <2>1 DEF IInv, TypeOK
  <2>3. op = "getdir" => "jName" \notin held /\ "jDirEnt" \notin held
    <3>1. SUFFICES ASSUME op = "getdir"
                   PROVE  "jName" \notin held /\ "jDirEnt" \notin held
      OBVIOUS
    <3>2. Args(op) = <<"jPath", "jDirEntList">>
      BY <3>1 DEF Args, PathOnly, TwoPaths
    <3>3. Cardinality(held) = 2
      BY <3>2 DEF CallJava, ArgsMade
    <3>4. held = {Args(op)[i] : i \in 1..2}
      BY <3>3 DEF IInv, Place, Prefix, CallJava
    <3>5. \A i \in 1..2 : i = 1 \/ i = 2
      OBVIOUS
    <3> QED
      BY <3>2, <3>4, <3>5
  <2>4. ~bytes
    BY DEF IInv, Place, CallJava
  <2>5. Place'
    BY <1>2, <2>1, <2>3, <2>4 DEF IInv, Place
  <2>6. Counted(held', live')
    BY <1>2, <2>1 DEF IInv
  <2> QED
    BY <2>2, <2>5, <2>6 DEF IInv
<1>4. CASE ~(jerrno' = "ok" /\ op \in HasResults)
  <2>1. Leave(held)
    BY <1>4 DEF CallJava
  <2> QED
    BY <1>1, <1>2, <2>1, LeaveKeeps DEF IInv, TypeOK, Place
<1> QED
  BY <1>3, <1>4

\* Every action that does nothing but leave the block with all references.
LEMMA LeavingKeeps ==
  ASSUME IInv,
         BadFlag \/ ReadFields \/ ReadPosition \/ ReadFails \/ EntryFails
           \/ EntryRefused \/ ListingDone
           \/ \E threw \in BOOLEAN : ReadOpen(threw)
  PROVE  IInv'
<1> USE DEF IInv, TypeOK, Place
<1>1. "EFAULT" \in Codes /\ "refused" \in Codes
  BY DEF Codes
<1>2. CASE BadFlag
  BY <1>1, <1>2, LeaveKeeps DEF BadFlag
<1>3. CASE ReadFields
  BY <1>3, LeaveKeeps DEF ReadFields
<1>4. CASE ReadPosition
  BY <1>4, LeaveKeeps DEF ReadPosition
<1>5. CASE ReadFails
  BY <1>1, <1>5, LeaveKeeps DEF ReadFails, Caught
<1>6. CASE EntryFails
  BY <1>1, <1>6, LeaveKeeps DEF EntryFails, Caught
<1>7. CASE EntryRefused
  BY <1>1, <1>7, LeaveKeeps DEF EntryRefused
<1>8. CASE ListingDone
  BY <1>8, LeaveKeeps DEF ListingDone
<1>9. CASE \E threw \in BOOLEAN : ReadOpen(threw)
  BY <1>9, LeaveKeeps DEF ReadOpen
<1> QED
  BY <1>2, <1>3, <1>4, <1>5, <1>6, <1>7, <1>8, <1>9

LEMMA ReadSizeKeeps ==
  ASSUME IInv, NEW n \in 0..MaxEntries, ReadSize(n)
  PROVE  IInv'
<1>1. TypeOK'
  BY DEF IInv, TypeOK, ReadSize, refs, reply
<1>2. Counted(held', live')
  BY DEF IInv, ReadSize, refs
<1>3. Place'
  BY DEF IInv, Place, ReadSize, refs
<1> QED
  BY <1>1, <1>2, <1>3 DEF IInv

\* The references of one directory entry come and go.
LEMMA EntryKeeps ==
  ASSUME IInv, EntryGet \/ EntryName \/ EntryBytes \/ EntryFilled
  PROVE  IInv'
<1>1. CASE EntryGet
  <2>1. held' = held \cup {"jDirEnt"} /\ live' = live + 1
    BY <1>1 DEF EntryGet
  <2>2. Counted(held', live')
    BY <1>1, <2>1, CountMore DEF IInv, TypeOK, EntryGet
  <2>3. TypeOK'
    BY <1>1, <2>1 DEF IInv, TypeOK, EntryGet, reply, Holders
  <2>4. Place'
    BY <1>1, <2>1 DEF IInv, Place, EntryGet
  <2> QED
    BY <2>2, <2>3, <2>4 DEF IInv
<1>2. CASE EntryName
  <2>1. held' = held \cup {"jName"} /\ live' = live + 1
    BY <1>2 DEF EntryName
  <2>2. Counted(held', live')
    BY <1>2, <2>1, CountMore DEF IInv, TypeOK, EntryName
  <2>3. TypeOK'
    BY <1>2, <2>1 DEF IInv, TypeOK, EntryName, reply, Holders
  <2>4. Place'
    BY <1>2, <2>1 DEF IInv, Place, EntryName
  <2> QED
    BY <2>2, <2>3, <2>4 DEF IInv
<1>3. CASE EntryBytes
  <2>1. TypeOK'
    BY <1>3 DEF IInv, TypeOK, EntryBytes, reply
  <2>2. Counted(held', live')
    BY <1>3 DEF IInv, EntryBytes
  <2>3. Place'
    BY <1>3 DEF IInv, Place, EntryBytes
  <2> QED
    BY <2>1, <2>2, <2>3 DEF IInv
<1>4. CASE EntryFilled
  <2>1. held' = (held \ {"jName"}) \ {"jDirEnt"} /\ live' = (live - 1) - 1
    BY <1>4 DEF EntryFilled, IInv, TypeOK
  <2>2. "jName" \in held /\ "jDirEnt" \in held \ {"jName"} /\ left > 0
    BY <1>4 DEF EntryFilled, IInv, Place
  <2>3. Counted(held \ {"jName"}, live - 1) /\ live - 1 \in Nat
    BY <2>2, CountLess DEF IInv, TypeOK
  <2>4. Counted(held', live') /\ live' \in Nat
    BY <2>1, <2>2, <2>3, CountLess
  <2>5. left' \in 0..MaxEntries
    BY <1>4, <2>2, BoundsAssumption DEF EntryFilled, IInv, TypeOK
  <2>6. TypeOK'
    BY <1>4, <2>1, <2>4, <2>5 DEF IInv, TypeOK, EntryFilled, reply
  <2>7. Place'
    BY <1>4, <2>1 DEF IInv, Place, EntryFilled
  <2> QED
    BY <2>4, <2>6, <2>7 DEF IInv
<1> QED
  BY <1>1, <1>2, <1>3, <1>4

LEMMA CleanupKeeps ==
  ASSUME IInv, Cleanup
  PROVE  IInv'
<1>1. live' \in Nat /\ ("setxattr" \notin Ops => live' = 0)
  BY DEF IInv, TypeOK, Counted, Cleanup
<1>2. Counted(held', live')
  BY <1>1, CountNone DEF Cleanup
<1>3. TypeOK'
  BY <1>1 DEF IInv, TypeOK, Cleanup
<1>4. Place'
  BY DEF IInv, Place, Cleanup
<1> QED
  BY <1>2, <1>3, <1>4 DEF IInv

LEMMA StepIInv == IInv /\ [Next]_vars => IInv'
<1> SUFFICES ASSUME IInv, [Next]_vars PROVE IInv'
  OBVIOUS
<1>1. CASE UNCHANGED vars
  <2>1. TypeOK'
    BY <1>1 DEF IInv, TypeOK, vars, refs, reply
  <2>2. Counted(held', live') /\ Place'
    BY <1>1 DEF IInv, Place, Prefix, vars, refs, reply
  <2> QED
    BY <2>1, <2>2 DEF IInv
<1>2. CASE Next
  BY <1>2, BeginKeeps, MakeArgumentKeeps, MakeArgumentFailsKeeps,
     CallJavaKeeps, LeavingKeeps, ReadSizeKeeps, EntryKeeps, CleanupKeeps
     DEF Next, Run
<1> QED
  BY <1>1, <1>2

LEMMA Inductive == Spec => []IInv
<1> QED
  BY InitIInv, StepIInv, PTL DEF Spec

\* The variables of a callback keep to their types: the loop over a listing
\* never counts below 0, and the cleanup never deletes more local references
\* than the thread has.
THEOREM TypeCorrect == Spec => []TypeOK
<1>1. IInv => TypeOK
  BY DEF IInv
<1> QED
  BY <1>1, Inductive, PTL

\* Whatever fails on its way, a callback leaves nothing to its thread: for
\* every operation but setxattr, whose variables hide those of the cleanup,
\* and while NewGlobalRef, after which javafs_open does not look for an
\* exception, has memory.
THEOREM NothingLeft ==
  ASSUME "setxattr" \notin Ops, ~PinFails
  PROVE  Spec => []LeavesNothing
<1>1. IInv => LeavesNothing
  <2> SUFFICES ASSUME IInv, at = "done" PROVE LeavesNothing
    BY DEF LeavesNothing
  <2>1. held = {} /\ ~bytes /\ ~pending
    BY DEF IInv, Place
  <2>2. live = 0
    BY <2>1, FS_EmptySet DEF IInv, Counted
  <2> QED
    BY <2>1, <2>2 DEF LeavesNothing
<1> QED
  BY <1>1, Inductive, PTL

\* The local references of the thread that no C variable holds any more stay
\* as many as they are.
LosesNoReference == live' - Cardinality(held') = live - Cardinality(held)

LEMMA LosesNothingStep ==
  ASSUME IInv, [Next]_vars, op # "setxattr"
  PROVE  LosesNoReference
<1> USE DEF LosesNoReference
<1>1. live \in Nat /\ Cardinality(held) \in Nat
  BY DEF IInv, TypeOK, Counted
<1>2. CASE UNCHANGED <<held, live>>
  BY <1>2
<1>3. ASSUME NEW x, x \notin held, held' = held \cup {x}, live' = live + 1
      PROVE  LosesNoReference
  BY <1>1, <1>3, CountMore DEF IInv
<1>4. CASE MakeArgument
  BY <1>3, <1>4, NextArgument DEF MakeArgument
<1>5. CASE MakeArgumentFails
  BY <1>2, <1>3, <1>5, NextArgument DEF MakeArgumentFails, Leave
<1>6. CASE EntryGet \/ EntryName
  BY <1>3, <1>6 DEF EntryGet, EntryName
<1>7. CASE EntryFilled
  <2>1. held' = (held \ {"jName"}) \ {"jDirEnt"} /\ live' = live - 2
    BY <1>7 DEF EntryFilled
  <2>2. "jName" \in held /\ "jDirEnt" \in held \ {"jName"}
    BY <1>7 DEF EntryFilled, IInv, Place
  <2>3. /\ IsFiniteSet(held \ {"jName"})
        /\ Cardinality(held \ {"jName"}) = Cardinality(held) - 1
    BY <2>2, FS_RemoveElement DEF IInv, Counted
  <2>4. Cardinality(held') = Cardinality(held \ {"jName"}) - 1
    BY <2>1, <2>2, <2>3, FS_RemoveElement
  <2> QED
    BY <1>1, <2>1, <2>3, <2>4
<1>8. CASE Cleanup
  <2>1. Cardinality(held') = 0 /\ live' = live - Cardinality(held)
    BY <1>8, FS_EmptySet DEF Cleanup
  <2> QED
    BY <1>1, <2>1
<1>9. CASE EntryBytes \/ \E n \in 0..MaxEntries : ReadSize(n)
  BY <1>2, <1>9 DEF EntryBytes, ReadSize, refs
<1>10. CASE \/ \E out \in Outcomes : CallJava(out)
            \/ BadFlag \/ ReadFields \/ ReadPosition \/ ReadFails
            \/ EntryFails \/ EntryRefused \/ ListingDone
            \/ \E threw \in BOOLEAN : ReadOpen(threw)
  BY <1>2, <1>10
     DEF CallJava, BadFlag, ReadFields, ReadPosition, ReadFails, EntryFails,
         EntryRefused, ListingDone, ReadOpen, Leave
<1>11. ASSUME NEW o \in Ops, Begin(o) PROVE LosesNoReference
  BY <1>2, <1>11 DEF Begin, refs
<1>12. CASE UNCHANGED vars
  BY <1>2, <1>12 DEF vars, refs
<1> QED
  BY <1>4, <1>5, <1>6, <1>7, <1>8, <1>9, <1>10, <1>11, <1>12 DEF Next, Run

\* setxattr is the only operation that loses local references, whichever JNI
\* call fails and whatever the thread has served before.
THEOREM OnlySetxattrLoses ==
  Spec => [][op # "setxattr" => LosesNoReference]_vars
<1>1. IInv /\ [Next]_vars => [op # "setxattr" => LosesNoReference]_vars
  BY LosesNothingStep
<1> QED
  BY <1>1, Inductive, PTL DEF Spec

-----------------------------------------------------------------------------
(* A callback comes to its end.                                            *)

LEMMA RemainingNat ==
  ASSUME IInv
  PROVE  /\ Remaining \in Nat
         /\ at \in {"make", "read", "entries"} => Remaining > 1
         /\ at = "make" => Remaining > 4 * MaxEntries + 3
<1>1. MaxEntries \in Nat /\ left \in Nat
  BY BoundsAssumption DEF IInv, TypeOK
<1>2. CASE at = "make"
  <2>1. /\ Len(Args(op)) \in Nat /\ Cardinality(held) \in Nat
        /\ Cardinality(held) <= Len(Args(op))
    BY <1>2, ArgsDistinct DEF Distinct, IInv, TypeOK, Counted, Place, Prefix
  <2>2. Remaining = 4 * MaxEntries + 4 + Len(Args(op)) - Cardinality(held)
    BY <1>2 DEF Remaining
  <2> QED
    BY <1>1, <1>2, <2>1, <2>2
<1>3. CASE at = "entries"
  <2>1. Remaining = 4 * left + 2 - EntryBehind
    BY <1>3 DEF Remaining
  <2>2. /\ EntryBehind \in 0..3
        /\ EntryBehind # 0 => left > 0
    BY <1>3 DEF EntryBehind, IInv, Place
  <2> QED
    BY <1>1, <1>3, <2>1, <2>2
<1>4. CASE at \in {"read", "cleanup", "done"}
  BY <1>1, <1>4 DEF Remaining
<1> QED
  BY <1>2, <1>3, <1>4 DEF IInv, TypeOK

\* Each step of the loop over a listing gets on with the entry, and the last
\* with the listing.
LEMMA EntryRunsDown ==
  ASSUME IInv, EntryGet \/ EntryName \/ EntryBytes \/ EntryFilled
  PROVE  Remaining' < Remaining
<1>1. left \in Nat
  BY DEF IInv, TypeOK
<1>2. at = "entries" /\ at' = "entries"
  BY DEF EntryGet, EntryName, EntryBytes, EntryFilled
<1>3. /\ Remaining = 4 * left + 2 - EntryBehind
      /\ Remaining' = 4 * left' + 2 - EntryBehind'
  BY <1>2 DEF Remaining
<1>4. /\ bytes => "jName" \in held
      /\ "jName" \in held => "jDirEnt" \in held
  BY <1>2 DEF IInv, Place
<1>5. CASE EntryGet \/ EntryName \/ EntryBytes
  <2>1. left' = left /\ EntryBehind' = EntryBehind + 1
    BY <1>4, <1>5 DEF EntryGet, EntryName, EntryBytes, EntryBehind
  <2>2. EntryBehind \in Nat
    BY DEF EntryBehind
  <2> QED
    BY <1>1, <1>3, <2>1, <2>2
<1>6. CASE EntryFilled
  <2>1. left' = left - 1 /\ EntryBehind' = 0 /\ EntryBehind = 3
    BY <1>6 DEF EntryFilled, EntryBehind
  <2> QED
    BY <1>1, <1>3, <2>1
<1> QED
  BY <1>5, <1>6

LEMMA RunsDownStep ==
  ASSUME IInv, Next, at # "done"
  PROVE  Remaining' < Remaining
<1>1. MaxEntries \in Nat
  BY BoundsAssumption
<1>2. CASE MakeArgument
  <2>1. Cardinality(held') = Cardinality(held) + 1 /\ Cardinality(held) \in Nat
    BY <1>2, NextArgument, CountMore DEF MakeArgument, IInv, TypeOK, Counted
  <2>2. Len(Args(op)) \in Nat
    BY ArgsDistinct DEF Distinct, IInv, TypeOK
  <2>3. /\ Remaining = 4 * MaxEntries + 4 + Len(Args(op)) - Cardinality(held)
        /\ Remaining' = 4 * MaxEntries + 4 + Len(Args(op)) - Cardinality(held')
    BY <1>2 DEF MakeArgument, Remaining
  <2> QED
    BY <1>1, <2>1, <2>2, <2>3
<1>3. CASE at' = "cleanup" /\ at \in {"make", "read", "entries"}
  BY <1>3, RemainingNat DEF Remaining
<1>4. CASE at = "make" /\ at' = "read"
  BY <1>1, <1>4, RemainingNat DEF Remaining
<1>5. ASSUME NEW n \in 0..MaxEntries, ReadSize(n)
      PROVE  Remaining' < Remaining
  <2>1. at = "read" /\ at' = "entries" /\ left' = n
    BY <1>5 DEF ReadSize
  <2>2. "jName" \notin held' /\ "jDirEnt" \notin held' /\ ~bytes'
    BY <1>5 DEF ReadSize, IInv, Place, refs
  <2>3. EntryBehind' = 0
    BY <2>2 DEF EntryBehind
  <2> QED
    BY <1>1, <2>1, <2>3 DEF Remaining
<1>6. CASE EntryGet \/ EntryName \/ EntryBytes \/ EntryFilled
  BY <1>6, EntryRunsDown
<1>7. CASE Cleanup
  BY <1>7 DEF Cleanup, Remaining
<1>8. CASE \E out \in Outcomes : CallJava(out)
  BY <1>3, <1>4, <1>8 DEF CallJava, Leave
<1>9. CASE MakeArgumentFails \/ BadFlag \/ ReadFields \/ ReadPosition
             \/ ReadFails \/ EntryFails \/ EntryRefused \/ ListingDone
             \/ \E threw \in BOOLEAN : ReadOpen(threw)
  BY <1>3, <1>9
     DEF MakeArgumentFails, BadFlag, ReadFields, ReadPosition, ReadFails,
         EntryFails, EntryRefused, ListingDone, ReadOpen, Leave
<1>10. ASSUME NEW o \in Ops PROVE ~Begin(o)
  BY DEF Begin
<1> QED
  BY <1>2, <1>5, <1>6, <1>7, <1>8, <1>9, <1>10 DEF Next, Run

\* Every step of a callback brings it nearer its answer, and the steps ahead
\* of it are a number: for any operation, any length of the listing and any
\* failures on the way, a callback takes at most as many.
THEOREM CallbacksRunDown ==
  Spec => CallbackRunsDown /\ [](Remaining \in Nat)
<1>1. IInv /\ [Next]_vars => [at # "done" => Remaining' < Remaining]_vars
  BY RunsDownStep
<1>2. IInv => Remaining \in Nat
  BY RemainingNat
<1> QED
  BY <1>1, <1>2, Inductive, PTL DEF Spec, CallbackRunsDown

-----------------------------------------------------------------------------
(* What is answered.                                                       *)

\* The operations whose callback misreads what the adapter returns.
Misreads == {"utime", "getattr"}

\* The request has been turned down for a flag that XAttrSetMode does not know.
TurnedDown == op = "setxattr" /\ \E flag \in Flags : ~KnownFlag(flag)

\* `code' tells the kernel what the file system did, unless the callback
\* misreads it; and it tells of success only if the results are there.
Reports(code) ==
  /\ outcome = "none" => code = "EFAULT" /\ (missed \/ TurnedDown)
  /\ op \notin Misreads =>
       /\ outcome # "none" => code \in Promise!AnswersTo(outcome)
       /\ outcome = "ok" /\ ~missed => code \in {"ok", "refused"}
  /\ code = "ok" /\ op \in HasResults => filled

\* A callback reads results of successful calls only.
RInv ==
  /\ at = "make" => outcome = "none"
  /\ at \in {"read", "entries"} =>
       jerrno = "ok" /\ outcome = "ok" /\ op \in HasResults
  /\ at = "cleanup" => Reports(jerrno)
  /\ at = "done" => IF answer = "none" THEN outcome = "none" ELSE Reports(answer)

LEMMA AnswersTo ==
  ASSUME NEW out \in Outcomes
  PROVE  /\ out = "ok" => Promise!AnswersTo(out) = {"ok", "EFAULT", "refused"}
         /\ out # "ok" => "ok" \notin Promise!AnswersTo(out)
         /\ "none" \notin Promise!AnswersTo(out)
<1>1. out \in {"ok", "null", "overlong", "overflow", "noErrno", "exception",
               "error"} \/ out \in Errnos
  BY DEF Outcomes
<1>2. "ok" \notin Errnos /\ "none" \notin Errnos
  BY ErrnosAssumption
<1> QED
  BY <1>1, <1>2, SMT DEF Promise!AnswersTo

\* C receives what Upcall promises of the outcome.
LEMMA ReceivedPromised ==
  ASSUME NEW out \in Outcomes, op \notin Misreads
  PROVE  /\ Received(out) \in Promise!AnswersTo(out)
         /\ out = "ok" => Received(out) = "ok"
<1>1. CASE Escapes(out)
  <2>1. out \in {"noErrno", "error"} /\ out \notin Errnos
    BY <1>1, ErrnosAssumption DEF Escapes
  <2>2. Received(out) = "EFAULT"
    BY <1>1 DEF Received
  <2> QED
    BY <2>1, <2>2 DEF Promise!AnswersTo
<1>2. CASE ~Escapes(out)
  <2>1. Received(out) = Returned(out)
    BY <1>2 DEF Received, Misreads
  <2>2. CASE out \in {"ok", "null", "overlong", "overflow", "exception"}
    <3>1. out \notin Errnos
      BY <2>2, ErrnosAssumption
    <3> QED
      BY <2>1, <2>2, <3>1, SMT DEF Returned, Promise!AnswersTo
  <2>3. CASE out \in Errnos
    <3>1. out \notin {"ok", "null", "overlong", "overflow", "exception"}
      BY <2>3, ErrnosAssumption
    <3> QED
      BY <2>1, <2>3, <3>1, SMT DEF Returned, Promise!AnswersTo
  <2> QED
    BY <1>2, <2>2, <2>3 DEF Outcomes, Escapes
<1> QED
  BY <1>1, <1>2

LEMMA InitRInv == Init => RInv
  BY DEF Init, RInv

LEMMA StepRInv == IInv /\ RInv /\ [Next]_vars => RInv'
<1> SUFFICES ASSUME IInv, RInv, [Next]_vars PROVE RInv'
  OBVIOUS
<1> USE DEF RInv
<1>1. "ok" \in Outcomes /\ HasResults \cap Misreads = {}
  BY DEF Outcomes, HasResults, ReadsFields, ReadsPosition, Misreads
<1>2. CASE UNCHANGED vars
  BY <1>2 DEF vars, reply, Reports, TurnedDown
<1>3. ASSUME NEW o \in Ops, Begin(o) PROVE RInv'
  BY <1>3 DEF Begin
<1>4. CASE MakeArgument
  BY <1>4 DEF MakeArgument
<1>5. CASE MakeArgumentFails
  BY <1>5 DEF MakeArgumentFails, Leave, Caught, Reports, TurnedDown
<1>6. ASSUME NEW out \in Outcomes, CallJava(out) PROVE RInv'
  <2>1. /\ jerrno' = Received(out) /\ outcome' = out /\ op' = op
        /\ filled' = filled /\ missed' = missed
    BY <1>6 DEF CallJava
  <2>2. out # "none"
    BY ErrnosAssumption DEF Outcomes
  <2>3. op \notin Misreads =>
          /\ jerrno' \in Promise!AnswersTo(out)
          /\ out = "ok" => jerrno' = "ok"
          /\ jerrno' = "ok" => out = "ok"
    BY <2>1, ReceivedPromised, AnswersTo
  <2>4. CASE jerrno' = "ok" /\ op \in HasResults
    BY <1>1, <1>6, <2>1, <2>3, <2>4 DEF CallJava
  <2>5. CASE ~(jerrno' = "ok" /\ op \in HasResults)
    <3>1. at' = "cleanup"
      BY <1>6, <2>5 DEF CallJava, Leave
    <3>2. Reports(jerrno)'
      BY <2>1, <2>2, <2>3, <2>5 DEF Reports
    <3> QED
      BY <3>1, <3>2
  <2> QED
    BY <2>4, <2>5
<1>7. CASE BadFlag
  BY <1>7 DEF BadFlag, Leave, Reports, TurnedDown
<1>8. CASE ReadFields
  BY <1>1, <1>8, AnswersTo DEF ReadFields, Leave, Reports
<1>9. CASE ReadPosition
  BY <1>1, <1>9, AnswersTo DEF ReadPosition, Leave, Reports
<1>10. CASE ReadFails
  BY <1>1, <1>10, AnswersTo DEF ReadFails, Leave, Caught, Reports
<1>11. ASSUME NEW threw \in BOOLEAN, ReadOpen(threw) PROVE RInv'
  BY <1>1, <1>11, AnswersTo DEF ReadOpen, Leave, Reports
<1>12. ASSUME NEW n \in 0..MaxEntries, ReadSize(n) PROVE RInv'
  BY <1>12 DEF ReadSize, reply
<1>13. CASE EntryGet \/ EntryName \/ EntryBytes \/ EntryFilled
  BY <1>13 DEF EntryGet, EntryName, EntryBytes, EntryFilled, reply
<1>14. CASE EntryFails
  BY <1>1, <1>14, AnswersTo DEF EntryFails, Leave, Caught, Reports
<1>15. CASE EntryRefused
  BY <1>1, <1>15, AnswersTo DEF EntryRefused, Leave, Reports
<1>16. CASE ListingDone
  BY <1>1, <1>16, AnswersTo DEF ListingDone, Leave, Reports
<1>17. CASE Cleanup
  <2>1. answer' = jerrno /\ Reports(answer)' /\ at' = "done"
    BY <1>17 DEF Cleanup, Reports, TurnedDown
  <2>2. jerrno # "none"
    BY ErrnosAssumption DEF IInv, TypeOK, Codes
  <2> QED
    BY <2>1, <2>2
<1> QED
  BY <1>2, <1>3, <1>4, <1>5, <1>6, <1>7, <1>8, <1>9, <1>10, <1>11, <1>12,
     <1>13, <1>14, <1>15, <1>16, <1>17 DEF Next, Run

LEMMA Reporting == Spec => [](IInv /\ RInv)
<1>1. IInv /\ RInv /\ [Next]_vars => (IInv /\ RInv)'
  BY StepIInv, StepRInv
<1> QED
  BY <1>1, InitIInv, InitRInv, PTL DEF Spec

\* Success is answered to a caller who wants data only with the data, whatever
\* the operations, their outcomes and the failures of JNI.
THEOREM SuccessMeansResults == Spec => []ResultsRead
<1>1. RInv => ResultsRead
  BY DEF RInv, Reports, ResultsRead
<1> QED
  BY <1>1, Reporting, PTL

\* A request fails without the file system having seen it only if a JNI call
\* failed; for setxattr, if its flags are known.
THEOREM RequestsServed ==
  ASSUME "setxattr" \in Ops => \A flag \in Flags : KnownFlag(flag)
  PROVE  Spec => []ServedUnlessJniFailed
<1>1. IInv /\ RInv => ServedUnlessJniFailed
  BY DEF IInv, Place, RInv, Reports, TurnedDown, ServedUnlessJniFailed
<1> QED
  BY <1>1, Reporting, PTL

\* The return value of the adapter's method decides between success and
\* error, for the operations whose callback takes it for what it is, whichever
\* others are requested in between.
THEOREM ReturnValueDecides ==
  Spec => [](op \notin Misreads => ReturnValueReported)
<1>1. IInv /\ RInv => (op \notin Misreads => ReturnValueReported)
  <2> SUFFICES ASSUME IInv, RInv, op \notin Misreads, at = "done",
                      outcome # "none", ~Escapes(outcome), ~missed,
                      answer # "refused"
               PROVE  answer = "ok" <=> Returned(outcome) = "ok"
    BY DEF ReturnValueReported
  <2>1. outcome \in Outcomes /\ "ok" \notin Errnos
    BY ErrnosAssumption DEF IInv, TypeOK
  <2>2. answer = "ok" <=> outcome = "ok"
    BY <2>1, AnswersTo DEF RInv, Reports
  <2>3. Returned(outcome) = "ok" <=> outcome = "ok"
    <3>1. outcome \in {"ok", "null", "overlong", "overflow", "exception"}
                        \cup Errnos
      BY <2>1 DEF Outcomes, Escapes
    <3> QED
      BY <2>1, <3>1, SMT DEF Returned
  <2> QED
    BY <2>2, <2>3
<1> QED
  BY <1>1, Reporting, PTL

\* Every callback but those of utime and getattr implements the upcall: the
\* file system is called at most once, and the answer is what it did.
THEOREM ImplementsUpcall ==
  ASSUME Ops \cap Misreads = {}
  PROVE  Spec => AnswersAsRaised
<1>1. Init => Promise!Init
  BY DEF Init, Promise!Init
<1>2. IInv /\ RInv /\ [Next]_vars => [Promise!Next]_(Promise!uvars)
  <2> SUFFICES ASSUME IInv, RInv, [Next]_vars
               PROVE  [Promise!Next]_(Promise!uvars)
    OBVIOUS
  <2> USE DEF Promise!uvars
  <2>1. CASE UNCHANGED vars
    BY <2>1 DEF vars, reply
  <2>2. ASSUME NEW o \in Ops, Begin(o) PROVE Promise!Ask
    BY <2>2 DEF Begin, Promise!Ask
  <2>3. CASE \E out \in Outcomes : CallJava(out)
    <3>1. PICK out \in Outcomes : CallJava(out)
      BY <2>3
    <3>2. at = "make" /\ outcome = "none" /\ outcome' = out /\ out # "none"
      BY <3>1, ErrnosAssumption DEF CallJava, RInv, Outcomes
    <3>3. at' # "done" /\ answer' = answer
      BY <3>1 DEF CallJava, Leave
    <3>4. Promise!Serve(out) /\ out \in Promise!Outcomes
      BY <3>2, <3>3 DEF Promise!Serve, Promise!Outcomes, Outcomes
    <3> QED
      BY <3>4 DEF Promise!Next
  <2>4. CASE Cleanup
    <3>1. at = "cleanup" /\ at' = "done" /\ answer' = jerrno
            /\ outcome' = outcome /\ Reports(jerrno)
      BY <2>4 DEF Cleanup, RInv
    <3>2. CASE outcome = "none"
      BY <3>1, <3>2 DEF Reports, Promise!Next, Promise!Reject
    <3>3. CASE outcome # "none"
      <4>1. jerrno \in Promise!AnswersTo(outcome)
        BY <3>1, <3>3 DEF Reports, IInv, Place
      <4>2. Promise!Answer(jerrno)
        BY <3>1, <3>3, <4>1 DEF Promise!Answer
      <4>3. outcome \in Promise!Outcomes
        BY <3>3 DEF IInv, TypeOK, Outcomes, Promise!Outcomes
      <4> QED
        BY <4>1, <4>2, <4>3 DEF Promise!Next
    <3> QED
      BY <3>2, <3>3
  <2>5. CASE MakeArgument \/ MakeArgumentFails \/ BadFlag \/ ReadFields
               \/ ReadPosition \/ ReadFails \/ EntryFails \/ EntryRefused
               \/ ListingDone \/ \E threw \in BOOLEAN : ReadOpen(threw)
    <3>1. /\ at # "done" /\ at' # "done"
          /\ outcome' = outcome /\ answer' = answer
      BY <2>5 DEF MakeArgument, MakeArgumentFails, BadFlag, ReadFields,
         ReadPosition, ReadFails, EntryFails, EntryRefused, ListingDone,
         ReadOpen, Leave, reply
    <3> QED
      BY <3>1
  <2>6. CASE EntryGet \/ EntryName \/ EntryBytes \/ EntryFilled
               \/ \E n \in 0..MaxEntries : ReadSize(n)
    BY <2>6 DEF EntryGet, EntryName, EntryBytes, EntryFilled, ReadSize, reply
  <2> QED
    BY <2>1, <2>2, <2>3, <2>4, <2>5, <2>6 DEF Next, Run, Promise!Next
<1> QED
  BY <1>1, <1>2, Reporting, PTL DEF Spec, AnswersAsRaised, Promise!Spec

=============================================================================
