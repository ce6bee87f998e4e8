------------------------------ MODULE Callbacks ------------------------------
(***************************************************************************)
(* One FUSE thread running javafs_* callbacks one after the other: from    *)
(* the request, through JNI and FilesystemToFuseFSAdapter, to a method of  *)
(* the Java file system, and back to the errno the kernel is answered.     *)
(*                                                                         *)
(* All callbacks have one shape: make the argument objects, stop at the    *)
(* first exception, call Java, stop at an errno, read the results back,    *)
(* and go to the cleanup that frees the local references held in C         *)
(* variables.  What differs is data: the arguments of each operation and   *)
(* the results it reads.  The thread stays attached to the JVM, so a local *)
(* reference that is not freed lives as long as the thread: `live' counts  *)
(* them across callbacks.                                                  *)
(*                                                                         *)
(* The handle in ffi->fh is the subject of FileHandles; the static         *)
(* variables every callback reads are the subject of FuseMount.            *)
(***************************************************************************)
EXTENDS Naturals, Sequences, FiniteSets

CONSTANTS
  Ops,         \* the operations requested, a subset of Operations
  Errnos,      \* the errnos the file system puts in its FuseExceptions
  Flags,       \* the flags setxattr is called with
  MaxEntries,  \* bound: the longest directory listing
  MaxLeaked,   \* bound: no callback starts with more live references
  JniFails,    \* can a JNI call throw?
  PinFails     \* can NewGlobalRef in javafs_open throw?

PathOnly ==
  {"mknod", "mkdir", "unlink", "rmdir", "chmod", "chown", "truncate", "utime",
   "flush", "release", "fsync"}
TwoPaths == {"symlink", "rename", "link"}

\* The operations of javafs_oper; a size query (size == 0) of an extended
\* attribute is an operation of its own.
Operations ==
  PathOnly \cup TwoPaths \cup
    {"getattr", "readlink", "getdir", "open", "read", "write", "statfs",
     "setxattr", "getxattr", "getxattrsize", "listxattr", "listxattrsize",
     "removexattr"}

\* The argument objects of each operation, in the order they are made, by
\* the C variable that holds the local reference.
Args(o) ==
  CASE o \in PathOnly             -> <<"jPath">>
    [] o \in TwoPaths             -> <<"jFrom", "jTo">>
    [] o = "getattr"              -> <<"jPath", "jGetattr">>
    [] o = "readlink"             -> <<"jPath", "jLink">>
    [] o = "getdir"               -> <<"jPath", "jDirEntList">>
    [] o = "open"                 -> <<"jPath", "jOpen">>
    [] o \in {"read", "write"}    -> <<"jPath", "jBuf">>
    [] o = "statfs"               -> <<"jStatfs">>
    [] o = "removexattr"          -> <<"jPath", "jName">>
    [] o \in {"setxattr", "getxattr"} -> <<"jPath", "jName", "jValue">>
    [] o = "getxattrsize"         -> <<"jPath", "jName", "jSize">>
    [] o = "listxattr"            -> <<"jPath", "jList">>
    [] o = "listxattrsize"        -> <<"jPath", "jSize">>

\* How the results are read: from fields of the argument object, or with
\* position() of a buffer.
ReadsFields   == {"statfs", "getxattrsize", "listxattrsize"}
ReadsPosition == {"readlink", "read", "write", "getxattr", "listxattr"}
HasResults    == ReadsFields \cup ReadsPosition \cup {"open", "getdir"}

\* What may come of the call: success, no attributes where the file system
\* returns an object, a link target too long to encode, a
\* BufferOverflowException, a FuseException without an Errno, another
\* Exception, an Error, or the errno of a FuseException.
Outcomes ==
  {"ok", "null", "overlong", "overflow", "noErrno", "exception", "error"}
    \cup Errnos

ASSUME OpsAssumption   == Ops \subseteq Operations
ASSUME FlagsAssumption == Flags \subseteq Nat
ASSUME BoundsAssumption == MaxEntries \in Nat /\ MaxLeaked \in Nat
ASSUME FailsAssumption == JniFails \in BOOLEAN /\ PinFails \in BOOLEAN
ASSUME ErrnosAssumption ==
  Errnos \cap {"ok", "null", "overlong", "overflow", "noErrno", "exception",
               "error", "none", "refused"} = {}

VARIABLES
  op,        \* the operation requested last
  at,        \* where its callback is; "done" once the kernel has its answer
  held,      \* the C variables that hold a local reference
  live,      \* how many local references the thread has
  bytes,     \* is the byte array of a directory entry's name pinned?
  left,      \* the entries of the listing not yet handed to the filler
  pending,   \* is a Java exception pending?
  jerrno,    \* the C variable jerrno
  outcome,   \* what the file system did, "none" before it was called
  filled,    \* have the results been handed to the kernel side?
  answer,    \* what the kernel was told, "none" before it is
  missed,    \* history: a JNI call of this callback has failed
  ub         \* the C code has run into undefined behaviour

refs  == <<held, live, bytes>>
reply == <<jerrno, filled, answer, missed>>
vars  == <<op, at, refs, left, pending, outcome, reply, ub>>

Holders ==
  {"jPath", "jFrom", "jTo", "jGetattr", "jLink", "jDirEntList", "jOpen",
   "jBuf", "jStatfs", "jName", "jValue", "jSize", "jList", "jDirEnt"}

Codes ==
  {"ok", "EFAULT", "ENOENT", "ENAMETOOLONG", "ERANGE", "refused"} \cup Errnos

TypeOK ==
  /\ op \in Operations
  /\ at \in {"done", "make", "read", "entries", "cleanup"}
  /\ held \subseteq Holders
  /\ live \in Nat
  /\ bytes \in BOOLEAN
  /\ left \in 0..MaxEntries
  /\ pending \in BOOLEAN
  /\ jerrno \in Codes
  /\ outcome \in Outcomes \cup {"none"}
  /\ filled \in BOOLEAN
  /\ answer \in Codes \cup {"none"}
  /\ missed \in BOOLEAN
  /\ ub \in BOOLEAN

Init ==
  /\ op \in Ops
  /\ at = "done"
  /\ held = {}
  /\ live = 0
  /\ bytes = FALSE
  /\ left = 0
  /\ pending = FALSE
  /\ jerrno = "ok"
  /\ outcome = "none"
  /\ filled = FALSE
  /\ answer = "none"
  /\ missed = FALSE
  /\ ub = FALSE

-----------------------------------------------------------------------------
(* The way into Java.                                                      *)

\* The kernel's request reaches javafs_<o>.
Begin(o) ==
  /\ at = "done"
  /\ live <= MaxLeaked
  /\ op' = o
  /\ at' = "make"
  /\ jerrno' = "ok"
  /\ outcome' = "none"
  /\ filled' = FALSE
  /\ answer' = "none"
  /\ missed' = FALSE
  /\ left' = 0
  /\ UNCHANGED <<refs, pending, ub>>

\* Leaving the while (1) block with the references of `still'.  The variables
\* that javafs_setxattr has filled are declared inside it and end with it.
Leave(still) ==
  /\ at' = "cleanup"
  /\ held' = IF op = "setxattr" THEN {} ELSE still

\* ExceptionCheck finds an exception, which is cleared; jerrno was 0.
Caught ==
  /\ pending' = FALSE
  /\ jerrno' = "EFAULT"
  /\ missed' = TRUE

ArgsMade == Cardinality(held) = Len(Args(op))

\* Mutant: a stray break after the second argument.
MakeArgumentBreaks ==
  /\ at = "make"
  /\ ~ArgsMade
  /\ ~pending
  /\ LET still == held \cup {Args(op)[Cardinality(held) + 1]}
     IN IF held = {} THEN at' = at /\ held' = still ELSE Leave(still)
  /\ live' = live + 1
  /\ UNCHANGED <<op, bytes, left, pending, outcome, reply, ub>>

MakeArgument ==
  /\ at = "make"
  /\ ~ArgsMade
  /\ ~pending
  /\ held' = held \cup {Args(op)[Cardinality(held) + 1]}
  /\ live' = live + 1
  /\ UNCHANGED <<op, at, bytes, left, pending, outcome, reply, ub>>

\* The JNI call threw; or it was made with the exception of an earlier
\* callback pending, and gave a reference all the same or did not.  It does
\* not give NULL without an exception: NewObject may not, and
\* NewDirectByteBuffer only on a JVM that has no direct buffers at all.
MakeArgumentFails ==
  /\ at = "make"
  /\ ~ArgsMade
  /\ JniFails \/ pending
  /\ \/ /\ Leave(held)
        /\ UNCHANGED live
     \/ /\ pending
        /\ Leave(held \cup {Args(op)[Cardinality(held) + 1]})
        /\ live' = live + 1
  /\ Caught
  /\ UNCHANGED <<op, bytes, left, outcome, filled, answer, ub>>

-----------------------------------------------------------------------------
(* The adapter, and what C makes of its return value.                      *)

CanHappen(out) ==
  /\ out = "null" => op \in {"getattr", "statfs"}
  /\ out = "overlong" => op = "readlink"

\* handleException catches Exceptions but dereferences the Errno of a
\* FuseException, and an Error passes it by.
Escapes(out) == out \in {"noErrno", "error"}

\* Mutant: handleException does not know BufferOverflowException.
ReturnedNoOverflow(out) ==
  CASE out = "null"      -> IF op = "getattr" THEN "ENOENT" ELSE "EFAULT"
    [] out = "overlong"  -> "ENAMETOOLONG"
    [] out = "exception" -> "EFAULT"
    [] OTHER             -> out

\* The adapter's return value: 0 ("ok") or an errno.
Returned(out) ==
  CASE out = "null"      -> IF op = "getattr" THEN "ENOENT" ELSE "EFAULT"
    [] out = "overlong"  -> "ENAMETOOLONG"
    [] out = "overflow"  -> "ERANGE"
    [] out = "exception" -> "EFAULT"
    [] OTHER             -> out

\* Mutant: mkdir and rmdir are called as void methods, as utime is.
ReceivedVoid(out) ==
  IF Escapes(out) THEN "EFAULT"
  ELSE CASE op \in {"utime", "mkdir", "rmdir"} -> "ok"
         [] op = "getattr"                     -> "ENOENT"
         [] OTHER                              -> Returned(out)

\* Mutant: an exception is cleared and jerrno left at 0.
ReceivedSwallows(out) ==
  IF Escapes(out) THEN "ok"
  ELSE CASE op = "utime"   -> "ok"
         [] op = "getattr" -> "ENOENT"
         [] OTHER          -> Returned(out)

\* jerrno after CallIntMethod and exception_check_jerrno.  utime is called as
\* a void method, and the value returned to getattr is taken for an object.
Received(out) ==
  IF Escapes(out) THEN "EFAULT"
  ELSE CASE op = "utime"   -> "ok"
         [] op = "getattr" -> "ENOENT"
         [] OTHER          -> Returned(out)

\* javafs_getattr dereferences an errno as an object.
Misread(out) == op = "getattr" /\ ~Escapes(out) /\ Returned(out) # "ok"

\* XAttrSetMode.byFlag knows the flags XATTR_CREATE and XATTR_REPLACE.
KnownFlag(flag) == flag \in {1, 2}

\* The Java method runs, with the outcome `out'.
CallJava(out) ==
  /\ at = "make"
  /\ ArgsMade
  /\ CanHappen(out)
  /\ op = "setxattr" => \E flag \in Flags : KnownFlag(flag)
  /\ outcome' = out
  /\ jerrno' = Received(out)
  /\ ub' = Misread(out)
  /\ IF jerrno' = "ok" /\ op \in HasResults
       THEN at' = "read" /\ UNCHANGED held
       ELSE Leave(held)
  /\ UNCHANGED <<op, live, bytes, left, pending, filled, answer, missed>>

\* byFlag throws an IllegalArgumentException: the file system is not called.
BadFlag ==
  /\ at = "make"
  /\ ArgsMade
  /\ op = "setxattr"
  /\ \E flag \in Flags : ~KnownFlag(flag)
  /\ jerrno' = "EFAULT"
  /\ Leave(held)
  /\ UNCHANGED <<op, live, bytes, left, pending, outcome, filled, answer,
                 missed, ub>>

-----------------------------------------------------------------------------
(* The way back.                                                           *)

ReadFields ==
  /\ at = "read"
  /\ op \in ReadsFields
  /\ filled' = TRUE
  /\ Leave(held)
  /\ UNCHANGED <<op, live, bytes, left, pending, outcome, jerrno, answer,
                 missed, ub>>

ReadPosition ==
  /\ at = "read"
  /\ op \in ReadsPosition
  /\ filled' = TRUE
  /\ Leave(held)
  /\ UNCHANGED <<op, live, bytes, left, pending, outcome, jerrno, answer,
                 missed, ub>>

\* Mutant: the exception of position() is cleared and jerrno left at 0.
ReadFailsSilently ==
  /\ JniFails
  /\ at = "read"
  /\ op \in ReadsPosition \cup {"getdir"}
  /\ missed' = TRUE
  /\ Leave(held)
  /\ UNCHANGED <<op, live, bytes, left, pending, jerrno, outcome, filled,
                 answer, ub>>

\* position(), or size() of the listing, threw.
ReadFails ==
  /\ JniFails
  /\ at = "read"
  /\ op \in ReadsPosition \cup {"getdir"}
  /\ Caught
  /\ Leave(held)
  /\ UNCHANGED <<op, live, bytes, left, outcome, filled, answer, ub>>

\* javafs_open stores the handle and the two flags in ffi, and deletes the
\* local reference to the handle.  Nobody looks whether NewGlobalRef threw.
ReadOpen(threw) ==
  /\ at = "read"
  /\ op = "open"
  /\ threw => PinFails
  /\ pending' = threw
  /\ filled' = TRUE
  /\ Leave(held)
  /\ UNCHANGED <<op, live, bytes, left, outcome, jerrno, answer, missed, ub>>

ReadSize(n) ==
  /\ at = "read"
  /\ op = "getdir"
  /\ at' = "entries"
  /\ left' = n
  /\ UNCHANGED <<op, refs, pending, outcome, reply, ub>>

\* get(i)
EntryGet ==
  /\ at = "entries"
  /\ left > 0
  /\ "jDirEnt" \notin held
  /\ held' = held \cup {"jDirEnt"}
  /\ live' = live + 1
  /\ UNCHANGED <<op, at, bytes, left, pending, outcome, reply, ub>>

\* The fields of the entry; its name is an object.
EntryName ==
  /\ at = "entries"
  /\ "jDirEnt" \in held
  /\ "jName" \notin held
  /\ held' = held \cup {"jName"}
  /\ live' = live + 1
  /\ UNCHANGED <<op, at, bytes, left, pending, outcome, reply, ub>>

\* GetByteArrayElements
EntryBytes ==
  /\ at = "entries"
  /\ "jName" \in held
  /\ ~bytes
  /\ bytes' = TRUE
  /\ UNCHANGED <<op, at, held, live, left, pending, outcome, reply, ub>>

\* get(i) or GetByteArrayElements threw.
EntryFails ==
  /\ JniFails
  /\ at = "entries"
  /\ left > 0
  /\ "jDirEnt" \notin held \/ ("jName" \in held /\ ~bytes)
  /\ Caught
  /\ Leave(held)
  /\ UNCHANGED <<op, live, bytes, left, outcome, filled, answer, ub>>

\* Mutant: the entry's own reference is not deleted.
EntryFilledLeaks ==
  /\ at = "entries"
  /\ bytes
  /\ bytes' = FALSE
  /\ held' = held \ {"jName", "jDirEnt"}
  /\ live' = live - 1
  /\ left' = left - 1
  /\ UNCHANGED <<op, at, pending, outcome, reply, ub>>

\* Mutant: the loop does not count.
EntryFilledAgain ==
  /\ at = "entries"
  /\ bytes
  /\ bytes' = FALSE
  /\ held' = held \ {"jName", "jDirEnt"}
  /\ live' = live - 2
  /\ UNCHANGED <<op, at, left, pending, outcome, reply, ub>>

\* The filler has taken the entry: everything the entry needed is released.
EntryFilled ==
  /\ at = "entries"
  /\ bytes
  /\ bytes' = FALSE
  /\ held' = held \ {"jName", "jDirEnt"}
  /\ live' = live - 2
  /\ left' = left - 1
  /\ UNCHANGED <<op, at, pending, outcome, reply, ub>>

\* The filler has returned a code other than 0, which becomes jerrno.
EntryRefused ==
  /\ at = "entries"
  /\ bytes
  /\ jerrno' = "refused"
  /\ Leave(held)
  /\ UNCHANGED <<op, live, bytes, left, pending, outcome, filled, answer,
                 missed, ub>>

ListingDone ==
  /\ at = "entries"
  /\ left = 0
  /\ filled' = TRUE
  /\ Leave(held)
  /\ UNCHANGED <<op, live, bytes, left, pending, outcome, jerrno, answer,
                 missed, ub>>

\* Every variable that is not NULL is deleted, and jerrno is the answer.
Cleanup ==
  /\ at = "cleanup"
  /\ at' = "done"
  /\ held' = {}
  /\ live' = live - Cardinality(held)
  /\ bytes' = FALSE
  /\ answer' = jerrno
  /\ UNCHANGED <<op, left, pending, outcome, jerrno, filled, missed, ub>>

-----------------------------------------------------------------------------

Run ==
  \/ MakeArgument
  \/ MakeArgumentFails
  \/ \E out \in Outcomes : CallJava(out)
  \/ BadFlag
  \/ ReadFields
  \/ ReadPosition
  \/ ReadFails
  \/ \E threw \in BOOLEAN : ReadOpen(threw)
  \/ \E n \in 0..MaxEntries : ReadSize(n)
  \/ EntryGet
  \/ EntryName
  \/ EntryBytes
  \/ EntryFails
  \/ EntryFilled
  \/ EntryRefused
  \/ ListingDone
  \/ Cleanup

Next == ~ub /\ (Run \/ \E o \in Ops : Begin(o))

\* A callback that runs keeps running, and the file system returns from it;
\* the kernel need not ask for anything.
Fairness == WF_vars(~ub /\ Run)

Spec == Init /\ [][Next]_vars

FairSpec == Spec /\ Fairness

\* The callback as its two ends see it.
Promise == INSTANCE Upcall WITH
  phase <- IF at = "done" THEN "idle"
           ELSE IF outcome = "none" THEN "asked" ELSE "served"

-----------------------------------------------------------------------------
(* How many steps a callback has ahead of it, at most.                     *)

\* How many steps the loop over a listing has taken with the current entry.
EntryBehind ==
  IF bytes THEN 3
  ELSE IF "jName" \in held THEN 2
  ELSE IF "jDirEnt" \in held THEN 1 ELSE 0

Remaining ==
  CASE at = "make"    -> 4 * MaxEntries + 4 + Len(Args(op)) - Cardinality(held)
    [] at = "read"    -> 4 * MaxEntries + 3
    [] at = "entries" -> 4 * left + 2 - EntryBehind
    [] at = "cleanup" -> 1
    [] at = "done"    -> 0

-----------------------------------------------------------------------------
(* Properties.                                                             *)

\* Seen from outside, every callback is an upcall as Upcall promises it: the
\* file system is called once at most and its outcome is what the kernel is
\* answered.
AnswersAsRaised == Promise!Spec

\* Whichever Java method, filler call or JNI call fails, a callback that has
\* answered leaves no local reference, no pinned array and no exception to
\* the thread, which goes on to serve other requests for as long as the file
\* system is mounted.  Of the JNI calls NewGlobalRef in javafs_open is the
\* exception (PinFails): what it throws is still pending after the callback.
LeavesNothing ==
  at = "done" => live = 0 /\ held = {} /\ ~bytes /\ ~pending

\* An operation that returns data is answered with success only after its
\* results have been handed over: no caller reads statfs fields, the size of
\* an attribute, a byte count or a directory listing that was not filled in.
ResultsRead ==
  at = "done" /\ answer = "ok" /\ op \in HasResults => filled

\* A request that is answered without the file system having been called
\* failed because a JNI call did.
ServedUnlessJniFailed ==
  at = "done" /\ answer # "none" /\ outcome = "none" => missed

\* "Return value from every method is always 0 for success or errno for
\* error" (FuseFS.java): what a method of FuseFS returned without throwing
\* decides what the kernel is told, unless its results cannot be handed over.
ReturnValueReported ==
  /\ at = "done"
  /\ outcome # "none"
  /\ ~Escapes(outcome)
  /\ ~missed
  /\ answer # "refused"
  => (answer = "ok" <=> Returned(outcome) = "ok")

\* Every step of a callback brings it nearer its answer, whatever has failed
\* before: no argument is made twice, no error path goes back, and the loop
\* over a listing gets on with each entry.
CallbackRunsDown == [][at # "done" => Remaining' < Remaining]_vars

\* Every request is answered: neither an error path nor the loop over a
\* directory listing keeps a callback from returning.
CallbackReturns == at # "done" ~> (at = "done" \/ ub)

=============================================================================
