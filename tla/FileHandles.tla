----------------------------- MODULE FileHandles -----------------------------
(***************************************************************************)
(* File handles across the language border: javafs_open, the callbacks     *)
(* that take a handle (read, write, flush, fsync) and javafs_release, on   *)
(* several FUSE threads.                                                   *)
(*                                                                         *)
(* javafs_open pins the Java handle object with a JNI global reference and *)
(* stores that reference, a pointer into a table of the JVM, in ffi->fh,   *)
(* where the kernel side keeps it for the later callbacks.  The table is   *)
(* modelled by its slots: NewGlobalRef may take any free slot, and a freed *)
(* slot is taken again.                                                    *)
(*                                                                         *)
(* javafs_release calls DeleteGlobalRef and then DeleteLocalRef on the     *)
(* same pointer.  What the second call does to a slot that is no local     *)
(* reference is left open by JNI: StaleDelete says what this JVM does.     *)
(***************************************************************************)
EXTENDS Naturals, FiniteSets

CONSTANTS
  Files,        \* the openings of files; each handle goes by the same name
  Threads,      \* the threads fuse_main runs callbacks on
  Slots,        \* the JVM's global references
  StaleDelete,  \* DeleteLocalRef of a freed global: "ignored" or "cleared"
  JniFails,     \* can NewDirectByteBuffer, NewObject and NewGlobalRef fail?
  NULL

ASSUME NULLAssumption == NULL \notin Files \cup Slots
ASSUME StaleDeleteAssumption == StaleDelete \in {"ignored", "cleared"}
ASSUME JniFailsAssumption == JniFails \in BOOLEAN

VARIABLES
  life,     \* how far each opening has got
  fh,       \* ffi->fh of each opening, kept by the kernel
  table,    \* what each global reference refers to; NULL is a free slot
  thread,   \* the callback each thread is in
  pending,  \* threads with a Java exception pending between two callbacks
  given,    \* openings for which the file system has set a handle
  lost,     \* history: openings whose handle NewGlobalRef failed to pin
  told,     \* history: openings whose release() the file system has seen
  skipped   \* history: openings whose release() was never called in Java

kernel  == <<life, fh>>
history == <<given, lost, told, skipped>>
vars    == <<kernel, table, thread, pending, history>>

Lives ==
  {"new", "opening", "open", "releasing", "unpinning", "closed", "failed"}

Idle == [op |-> "none", file |-> NULL, at |-> "idle", obj |-> NULL]

Callback(op, f) == [op |-> op, file |-> f, at |-> "prepare", obj |-> NULL]

TypeOK ==
  /\ life \in [Files -> Lives]
  /\ fh \in [Files -> Slots \cup {NULL}]
  /\ table \in [Slots -> Files \cup {NULL}]
  /\ thread \in [Threads ->
                   [op : {"none", "open", "use", "release"},
                    file : Files \cup {NULL},
                    at : {"idle", "prepare", "java", "store", "deleteGlobal",
                          "deleteLocal"},
                    obj : Files \cup {NULL}]]
  /\ pending \subseteq Threads
  /\ given \subseteq Files
  /\ lost \subseteq given
  /\ told \subseteq Files
  /\ skipped \subseteq Files

Init ==
  /\ life = [f \in Files |-> "new"]
  /\ fh = [f \in Files |-> NULL]
  /\ table = [s \in Slots |-> NULL]
  /\ thread = [t \in Threads |-> Idle]
  /\ pending = {}
  /\ given = {}
  /\ lost = {}
  /\ told = {}
  /\ skipped = {}

Busy(t, op) == thread[t].op = op
File(t)     == thread[t].file

At(t, op, at) == thread[t].op = op /\ thread[t].at = at

Goto(t, at)    == thread' = [thread EXCEPT ![t].at = at]
Reply(t)       == thread' = [thread EXCEPT ![t] = Idle]
Becomes(f, to) == life' = [life EXCEPT ![f] = to]

-----------------------------------------------------------------------------
(* What the kernel asks for.  It opens before it uses, and releases once,  *)
(* when every use of the opening has been answered.                        *)

AskOpen(t, f) ==
  /\ thread[t] = Idle
  /\ life[f] = "new"
  /\ Becomes(f, "opening")
  /\ thread' = [thread EXCEPT ![t] = Callback("open", f)]
  /\ UNCHANGED <<fh, table, pending, history>>

AskUse(t, f) ==
  /\ thread[t] = Idle
  /\ life[f] = "open"
  /\ thread' = [thread EXCEPT ![t] = Callback("use", f)]
  /\ UNCHANGED <<kernel, table, pending, history>>

AskRelease(t, f) ==
  /\ thread[t] = Idle
  /\ life[f] = "open"
  /\ \A u \in Threads : File(u) # f
  /\ Becomes(f, "releasing")
  /\ thread' = [thread EXCEPT ![t] = Callback("release", f)]
  /\ UNCHANGED <<fh, table, pending, history>>

-----------------------------------------------------------------------------
(* The call into Java.                                                     *)

\* The object a method receives for the reference r.
Deref(r) == IF r = NULL THEN NULL ELSE table[r]

\* The arguments are made and the Java method runs; the handle argument is
\* whatever ffi->fh refers to now.
CallJava(t) ==
  /\ thread[t].at = "prepare"
  /\ t \notin pending
  /\ thread' = [thread EXCEPT
       ![t].at = "java",
       ![t].obj = IF thread[t].op = "open" THEN NULL ELSE Deref(fh[File(t)])]
  /\ told' = IF Busy(t, "release") THEN told \cup {File(t)} ELSE told
  /\ UNCHANGED <<kernel, table, pending, given, lost, skipped>>

\* Mutant: javafs_release returns at once, and the handle stays pinned.
PrepareFailsKeeps(t) ==
  /\ thread[t].at = "prepare"
  /\ JniFails \/ t \in pending
  /\ pending' = pending \ {t}
  /\ IF Busy(t, "use") THEN UNCHANGED life
       ELSE Becomes(File(t), IF Busy(t, "open") THEN "failed" ELSE "closed")
  /\ skipped' = IF Busy(t, "release") THEN skipped \cup {File(t)} ELSE skipped
  /\ Reply(t)
  /\ UNCHANGED <<fh, table, given, lost, told>>

\* exception_check_jerrno finds an exception after the first JNI call, or
\* after the second: one of that call, or one left by an earlier callback of
\* this thread.  It is cleared and the answer is EFAULT.
PrepareFails(t) ==
  /\ thread[t].at = "prepare"
  /\ JniFails \/ t \in pending
  /\ pending' = pending \ {t}
  /\ \/ /\ Busy(t, "open")
        /\ Becomes(File(t), "failed")
        /\ Reply(t)
        /\ UNCHANGED skipped
     \/ /\ Busy(t, "use")
        /\ Reply(t)
        /\ UNCHANGED <<life, skipped>>
     \/ /\ Busy(t, "release")
        /\ Goto(t, "deleteGlobal")
        /\ skipped' = skipped \cup {File(t)}
        /\ UNCHANGED life
  /\ UNCHANGED <<fh, table, given, lost, told>>

\* open() threw, and the adapter returned an errno.
OpenThrows(t) ==
  /\ At(t, "open", "java")
  /\ Becomes(File(t), "failed")
  /\ Reply(t)
  /\ UNCHANGED <<fh, table, pending, history>>

\* open() returned, having set a handle in the FuseFileInfo or not.
OpenReturns(t, withHandle) ==
  /\ At(t, "open", "java")
  /\ given' = IF withHandle THEN given \cup {File(t)} ELSE given
  /\ Goto(t, "store")
  /\ UNCHANGED <<kernel, table, pending, lost, told, skipped>>

\* Mutant: flush frees the handle as release does.
UseReturnsFrees(t) ==
  /\ At(t, "use", "java")
  /\ table' = [s \in Slots |-> IF s = fh[File(t)] THEN NULL ELSE table[s]]
  /\ Reply(t)
  /\ UNCHANGED <<kernel, pending, history>>

\* The file system has returned or thrown, with the same effect on handles.
UseReturns(t) ==
  /\ At(t, "use", "java")
  /\ Reply(t)
  /\ UNCHANGED <<kernel, table, pending, history>>

ReleaseReturns(t) ==
  /\ At(t, "release", "java")
  /\ thread' = [thread EXCEPT ![t].at = "deleteGlobal", ![t].obj = NULL]
  /\ UNCHANGED <<kernel, table, pending, history>>

-----------------------------------------------------------------------------
(* What javafs_open and javafs_release do with the reference.              *)

\* There is no handle, or NewGlobalRef has pinned it at slot s.
StoreHandle(t, s) ==
  /\ At(t, "open", "store")
  /\ \/ /\ File(t) \notin given
        /\ s = NULL
        /\ UNCHANGED table
     \/ /\ File(t) \in given
        /\ s # NULL
        /\ table[s] = NULL
        /\ table' = [table EXCEPT ![s] = File(t)]
  /\ fh' = [fh EXCEPT ![File(t)] = s]
  /\ Becomes(File(t), "open")
  /\ Reply(t)
  /\ UNCHANGED <<pending, history>>

\* Mutant: NewGlobalRef is called for the handle NULL, too.
StoreHandleFailsOnNull(t, exception) ==
  /\ JniFails
  /\ At(t, "open", "store")
  /\ fh' = [fh EXCEPT ![File(t)] = NULL]
  /\ pending' = IF exception THEN pending \cup {t} ELSE pending
  /\ lost' = lost \cup {File(t)}
  /\ Becomes(File(t), "open")
  /\ Reply(t)
  /\ UNCHANGED <<table, given, told, skipped>>

\* NewGlobalRef failed, with an exception or without.  Neither its result nor
\* the exception is looked at: the open is answered with success.
StoreHandleFails(t, exception) ==
  /\ JniFails
  /\ At(t, "open", "store")
  /\ File(t) \in given
  /\ fh' = [fh EXCEPT ![File(t)] = NULL]
  /\ pending' = IF exception THEN pending \cup {t} ELSE pending
  /\ lost' = lost \cup {File(t)}
  /\ Becomes(File(t), "open")
  /\ Reply(t)
  /\ UNCHANGED <<table, given, told, skipped>>

\* Mutant: the global reference is not deleted.
DeleteGlobalForgotten(t) ==
  LET f == File(t)
  IN /\ At(t, "release", "deleteGlobal")
     /\ IF fh[f] = NULL
          THEN Becomes(f, "closed") /\ Reply(t)
          ELSE Becomes(f, "unpinning") /\ Goto(t, "deleteLocal")
     /\ UNCHANGED <<fh, table, pending, history>>

\* Mutant: the handle is freed without a call of release().
DeleteGlobalAtOnce(t) ==
  LET f == File(t)
  IN /\ Busy(t, "release")
     /\ thread[t].at \in {"prepare", "deleteGlobal"}
     /\ \/ /\ fh[f] = NULL
           /\ Becomes(f, "closed")
           /\ Reply(t)
           /\ UNCHANGED table
        \/ /\ fh[f] # NULL
           /\ Becomes(f, "unpinning")
           /\ Goto(t, "deleteLocal")
           /\ table' = [table EXCEPT ![fh[f]] = NULL]
     /\ UNCHANGED <<fh, pending, history>>

\* if (jFh != NULL) DeleteGlobalRef(jFh)
DeleteGlobal(t) ==
  LET f == File(t)
  IN /\ At(t, "release", "deleteGlobal")
     /\ \/ /\ fh[f] = NULL
           /\ Becomes(f, "closed")
           /\ Reply(t)
           /\ UNCHANGED table
        \/ /\ fh[f] # NULL
           /\ Becomes(f, "unpinning")
           /\ Goto(t, "deleteLocal")
           /\ table' = [table EXCEPT ![fh[f]] = NULL]
     /\ UNCHANGED <<fh, pending, history>>

\* Mutant: ffi->fh keeps the stale reference.
DeleteLocalKeepsFh(t) ==
  LET f == File(t)
  IN /\ At(t, "release", "deleteLocal")
     /\ Becomes(f, "closed")
     /\ Reply(t)
     /\ UNCHANGED <<fh, table, pending, history>>

\* DeleteLocalRef(jFh), ffi->fh = 0
DeleteLocal(t) ==
  LET f == File(t)
  IN /\ At(t, "release", "deleteLocal")
     /\ table' = IF StaleDelete = "cleared"
                   THEN [table EXCEPT ![fh[f]] = NULL]
                   ELSE table
     /\ fh' = [fh EXCEPT ![f] = NULL]
     /\ Becomes(f, "closed")
     /\ Reply(t)
     /\ UNCHANGED <<pending, history>>

-----------------------------------------------------------------------------

Ask(t) ==
  \E f \in Files : AskOpen(t, f) \/ AskUse(t, f) \/ AskRelease(t, f)

Run(t) ==
  \/ CallJava(t)
  \/ PrepareFails(t)
  \/ OpenThrows(t)
  \/ \E h \in BOOLEAN : OpenReturns(t, h)
  \/ UseReturns(t)
  \/ ReleaseReturns(t)
  \/ \E s \in Slots \cup {NULL} : StoreHandle(t, s)
  \/ \E x \in BOOLEAN : StoreHandleFails(t, x)
  \/ DeleteGlobal(t)
  \/ DeleteLocal(t)

Next == \E t \in Threads : Ask(t) \/ Run(t)

\* A callback that runs keeps running, and the file system returns from it.
Fairness == \A t \in Threads : WF_vars(Run(t))

Spec == Init /\ [][Next]_vars

FairSpec == Spec /\ Fairness

-----------------------------------------------------------------------------
(* The promise to the file system, and how the code keeps it.              *)

StateOf(f) ==
  CASE life[f] \in {"new", "opening"}    -> "new"
    [] life[f] \in {"open", "releasing"} -> "open"
    [] OTHER                             -> "closed"

Serving(t) ==
  IF thread[t].at = "java" /\ ~Busy(t, "open")
    THEN [file |-> File(t), obj |-> thread[t].obj]
    ELSE [file |-> NULL, obj |-> NULL]

Service == INSTANCE HandleService WITH
  state   <- [f \in Files |-> StateOf(f)],
  pinned  <- {f \in Files : \E s \in Slots : table[s] = f},
  serving <- [t \in Threads |-> Serving(t)]

-----------------------------------------------------------------------------
(* How the threads, the openings and the references stand to each other.   *)

Engaged(t) ==
  \/ thread[t] = Idle
  \/ /\ Busy(t, "open")
     /\ File(t) \in Files
     /\ life[File(t)] = "opening"
     /\ thread[t].at \in {"prepare", "java", "store"}
     /\ thread[t].at # "store" => File(t) \notin given
     /\ thread[t].obj = NULL
  \/ /\ Busy(t, "use")
     /\ File(t) \in Files
     /\ life[File(t)] = "open"
     /\ thread[t].at \in {"prepare", "java"}
  \/ /\ Busy(t, "release")
     /\ File(t) \in Files
     /\ life[File(t)] = "releasing"
     /\ thread[t].at \in {"prepare", "java", "deleteGlobal"}
     /\ thread[t].at # "prepare" => File(t) \in told \cup skipped
  \/ /\ Busy(t, "release")
     /\ File(t) \in Files
     /\ life[File(t)] = "unpinning"
     /\ thread[t].at = "deleteLocal"
     /\ File(t) \in told \cup skipped

\* Two threads meet in one opening only to use it.
Apart(t, u) ==
  t # u /\ File(t) = File(u) /\ File(t) # NULL =>
    Busy(t, "use") /\ Busy(u, "use")

FhOf(f) ==
  /\ fh[f] # NULL => life[f] \in {"open", "releasing", "unpinning"}
  /\ life[f] = "unpinning" => fh[f] # NULL
  /\ life[f] \in {"open", "releasing"} =>
       (fh[f] = NULL <=> f \notin given \ lost)
  /\ life[f] = "new" => f \notin given
  /\ life[f] \in {"new", "opening"} => f \notin lost

\* The stale DeleteLocalRef can do no harm: the JVM ignores it, or no other
\* thread can have taken the slot in between.
SafeDelete == StaleDelete = "ignored" \/ \A t, u \in Threads : t = u

-----------------------------------------------------------------------------
(* Properties.                                                             *)

\* No callback runs beside the open or the release of its own file, each file
\* is where the callbacks about it say, and ffi->fh is empty exactly when the
\* file has no pinned handle, through every failure of a JNI call.
Bookkeeping ==
  /\ \A t \in Threads : Engaged(t)
  /\ \A t, u \in Threads : Apart(t, u)
  /\ \A f \in Files : FhOf(f)

\* Seen from Java, handles are kept as HandleService promises: pinned from
\* open to release, and each call is given the handle of its own file.
KeepsHandles == Service!Spec

\* The table holds the handles of the files that are open and nothing else,
\* each at the slot that the ffi->fh of its file names: there is no leak, and
\* no reference is freed under an open file.
TableExact ==
  \A f \in Files, s \in Slots :
    table[s] = f <=> fh[f] = s /\ life[f] \in {"open", "releasing"}

\* A reference to a handle goes in the release of its own file and nowhere
\* else: once the call of release() has returned, or a JNI failure has kept it
\* from being made, and no callback about the file is still to use it.
UnpinnedOnlyByRelease ==
  [][\A f \in Files, s \in Slots :
       table[s] = f /\ table'[s] # f =>
         /\ life[f] = "releasing"
         /\ f \in told \cup skipped
         /\ \A t \in Threads :
              File(t) = f => At(t, "release", "deleteGlobal")]_vars

\* "fh is filehandle passed from open": a call the file system gets about an
\* open file comes with the handle that file's open() set (or null when JNI
\* failed to pin it).
OwnHandle ==
  \A t \in Threads :
    thread[t].at = "java" /\ ~Busy(t, "open") =>
      thread[t].obj = IF File(t) \in given \ lost THEN File(t) ELSE NULL

\* A file that has been closed was released in Java too, once its open had
\* succeeded, unless a JNI failure kept release() from being called.
ReleaseSeen ==
  \A f \in Files : life[f] = "closed" => f \in told \cup skipped

\* "release" in Filesystem.java is "called when last filehandle is closed":
\* every file that was opened and has been closed has been released in Java.
ReleaseAlwaysSeen == \A f \in Files : life[f] = "closed" => f \in told

\* A release the kernel has asked for frees the handle of the file, whatever
\* the file system does in release().
ReleaseCompletes ==
  \A f \in Files :
    life[f] = "releasing" ~>
      life[f] = "closed" /\ \A s \in Slots : table[s] # f

=============================================================================
