------------------------------ MODULE FuseMount ------------------------------
(***************************************************************************)
(* The life of a mount: the boot-up and cleanup code of javafs.c and the   *)
(* static variables it shares with every FUSE callback.                    *)
(*                                                                         *)
(* An element of Mounts is one call of the native method                   *)
(* fuse.FuseMount.mount (Boot = "jni"), or the single run of the javafs    *)
(* executable (Boot = "main").  Each call fills the static variables step  *)
(* by step, runs fuse_main, and takes them down again.  Nothing in the     *)
(* code keeps two calls apart, so the model lets them interleave and       *)
(* records in `overlapped' that they did.                                  *)
(*                                                                         *)
(* A static pointer is abstracted to the call that made what it points to. *)
(* `ub' is TRUE once the C code has dereferenced a NULL or freed pointer,  *)
(* freed a pointer twice, or used an uninitialised JNIEnv; nothing is      *)
(* modelled after that.                                                    *)
(***************************************************************************)
EXTENDS Naturals

CONSTANTS
  Mounts,        \* the calls of mount()
  Workers,       \* the threads that fuse_main runs callbacks on
  NumClasses,    \* how many class structures alloc_classes fills, in order
  Loadable,      \* the classes among them that FindClass resolves
  Boot,          \* "jni" or "main"
  OutOfMemory,   \* can calloc, NewGlobalRef and thread attachment fail?
  FuseFails,     \* can fuse_main fail to mount (options, mount point, kernel)?
  NULL

ASSUME NumClassesAssumption == NumClasses \in Nat \ {0}
ASSUME LoadableAssumption   == Loadable \subseteq 1..NumClasses
ASSUME NULLAssumption       == NULL \notin Mounts
ASSUME BootAssumption       ==
  /\ Boot \in {"jni", "main"}
  /\ Boot = "main" => \A m, n \in Mounts : m = n
ASSUME FailsAssumption == OutOfMemory \in BOOLEAN /\ FuseFails \in BOOLEAN

VARIABLES
  pc,            \* where each call of mount() is
  idx,           \* the class alloc_classes or free_classes is at
  vm,            \* is the static vm non-NULL?
  classPtr,      \* the nine static class pointers
  fuseFS,        \* static jobject fuseFS
  threadGroup,   \* static jobject threadGroup
  structs,       \* class structures allocated and not freed
  fsRefs,        \* global references to a FuseFS object, not deleted
  tgRefs,        \* global references to a ThreadGroup, not deleted
  worker,        \* the callback each FUSE thread is in
  overlapped,    \* history: two calls of mount() were active at once
  served,        \* history: the calls of mount() whose fuse_main mounted
  unnoticed,     \* history: a JNI call failed and the code did not see it
  ub             \* the C code has run into undefined behaviour

boot  == <<pc, idx>>
world == <<vm, classPtr, fuseFS, threadGroup, structs, fsRefs, tgRefs>>
flags == <<overlapped, served, unnoticed, ub>>
vars  == <<boot, world, worker, flags>>

Classes == 1..NumClasses

Locations ==
  {"start", "alloc", "retainFs", "retainTg", "loop", "freeTg", "nullTg",
   "freeFs", "nullFs", "freeCls", "nullCls", "end", "returned"}

Idle == [at |-> "idle", fs |-> NULL]

TypeOK ==
  /\ pc \in [Mounts -> Locations]
  /\ idx \in [Mounts -> Classes]
  /\ vm \in BOOLEAN
  /\ classPtr \in [Classes -> Mounts \cup {NULL}]
  /\ fuseFS \in Mounts \cup {NULL}
  /\ threadGroup \in Mounts \cup {NULL}
  /\ structs \subseteq Mounts \X Classes
  /\ fsRefs \subseteq Mounts
  /\ tgRefs \subseteq Mounts
  /\ worker \in [Mounts \X Workers ->
                   [at : {"idle", "env", "object", "java"},
                    fs : Mounts \cup {NULL}]]
  /\ overlapped \in BOOLEAN
  /\ served \subseteq Mounts
  /\ unnoticed \in BOOLEAN
  /\ ub \in BOOLEAN

Active(m) == pc[m] \notin {"start", "returned"}

Init ==
  /\ pc = [m \in Mounts |-> "start"]
  /\ idx = [m \in Mounts |-> 1]
  /\ vm = FALSE
  /\ classPtr = [c \in Classes |-> NULL]
  /\ fuseFS = NULL
  /\ threadGroup = NULL
  /\ structs = {}
  /\ fsRefs = {}
  /\ tgRefs = {}
  /\ worker = [t \in Mounts \X Workers |-> Idle]
  /\ overlapped = FALSE
  /\ served = {}
  /\ unnoticed = FALSE
  /\ ub = FALSE

Goto(m, from, to) ==
  /\ pc[m] = from
  /\ pc' = [pc EXCEPT ![m] = to]

-----------------------------------------------------------------------------
(* Boot-up.                                                                *)

\* GetJavaVM (or JNI_CreateJavaVM) stores the JVM in vm and alloc_classes
\* starts.
EnterMount(m) ==
  /\ Goto(m, "start", "alloc")
  /\ idx' = [idx EXCEPT ![m] = 1]
  /\ vm' = TRUE
  /\ overlapped' = (overlapped \/ \E n \in Mounts : Active(n))
  /\ UNCHANGED <<classPtr, fuseFS, threadGroup, structs, fsRefs, tgRefs,
                 worker, served, unnoticed, ub>>

\* There is no JVM to be had: the call returns and has touched nothing.
EnterMountFails(m) ==
  /\ OutOfMemory
  /\ Goto(m, "start", "returned")
  /\ UNCHANGED <<idx, world, worker, flags>>

\* The static pointer of the class is set and alloc_classes goes on.
PublishClass(m) ==
  /\ Goto(m, "alloc", IF idx[m] = NumClasses THEN "retainFs" ELSE "alloc")
  /\ idx' = [idx EXCEPT ![m] = IF @ = NumClasses THEN 1 ELSE @ + 1]
  /\ classPtr' = [classPtr EXCEPT ![idx[m]] = m]
  /\ structs' = structs \cup {<<m, idx[m]>>}
  /\ UNCHANGED <<vm, fuseFS, threadGroup, fsRefs, tgRefs, worker, flags>>

\* alloc_jclass_X found the class, pinned it and resolved its members.
AllocClass(m) ==
  /\ idx[m] \in Loadable
  /\ PublishClass(m)

\* The static pointer becomes NULL and alloc_classes goes to err.
RefuseClass(m) ==
  /\ Goto(m, "alloc", "freeCls")
  /\ idx' = [idx EXCEPT ![m] = 1]
  /\ classPtr' = [classPtr EXCEPT ![idx[m]] = NULL]
  /\ UNCHANGED <<vm, fuseFS, threadGroup, structs, fsRefs, tgRefs, worker,
                 flags>>

\* alloc_jclass_X returned NULL: its own error handler has cleared the
\* exception and freed the structure.
AllocClassFails(m) ==
  /\ idx[m] \notin Loadable \/ OutOfMemory
  /\ RefuseClass(m)

\* NewGlobalRef gave NULL for the class and no exception is pending, which JNI
\* allows: the members are looked up in a class that is not there.
AllocClassUnnoticed(m) ==
  /\ OutOfMemory
  /\ pc[m] = "alloc"
  /\ unnoticed' = TRUE
  /\ ub' = TRUE
  /\ UNCHANGED <<boot, world, worker, overlapped, served>>

\* At "loop" the call is in fuse_main.
AfterRetainFs == IF Boot = "jni" THEN "retainTg" ELSE "loop"

\* retain_fuseFS, or alloc_filesystem when main() starts the JVM.
RetainFs(m) ==
  /\ Goto(m, "retainFs", AfterRetainFs)
  /\ fuseFS' = m
  /\ fsRefs' = fsRefs \cup {m}
  /\ UNCHANGED <<idx, vm, classPtr, threadGroup, structs, tgRefs, worker,
                 flags>>

\* Mutant: the exception is cleared and then forgotten.
RetainFsFailsIgnored(m) ==
  /\ OutOfMemory \/ Boot = "main"
  /\ Goto(m, "retainFs", AfterRetainFs)
  /\ fuseFS' = NULL
  /\ UNCHANGED <<idx, vm, classPtr, threadGroup, structs, fsRefs, tgRefs,
                 worker, flags>>

\* An exception is pending: NewGlobalRef gave NULL and threw or, in main(),
\* the class of the file system cannot be loaded or instantiated.  The
\* exception is printed and cleared.
RetainFsFails(m) ==
  /\ OutOfMemory \/ Boot = "main"
  /\ Goto(m, "retainFs", "freeCls")
  /\ fuseFS' = NULL
  /\ UNCHANGED <<idx, vm, classPtr, threadGroup, structs, fsRefs, tgRefs,
                 worker, flags>>

\* NewGlobalRef gave NULL and no exception is pending, which JNI allows: only
\* the exception is tested, so the boot-up goes on.
RetainFsUnnoticed(m) ==
  /\ OutOfMemory
  /\ Goto(m, "retainFs", AfterRetainFs)
  /\ fuseFS' = NULL
  /\ unnoticed' = TRUE
  /\ UNCHANGED <<idx, vm, classPtr, threadGroup, structs, fsRefs, tgRefs,
                 worker, overlapped, served, ub>>

RetainTg(m) ==
  /\ Goto(m, "retainTg", "loop")
  /\ threadGroup' = m
  /\ tgRefs' = tgRefs \cup {m}
  /\ UNCHANGED <<idx, vm, classPtr, fuseFS, structs, fsRefs, worker,
                 flags>>

RetainTgFails(m) ==
  /\ OutOfMemory
  /\ Goto(m, "retainTg", "freeFs")
  /\ threadGroup' = NULL
  /\ UNCHANGED <<idx, vm, classPtr, fuseFS, structs, fsRefs, tgRefs, worker,
                 flags>>

\* As RetainFsUnnoticed; here NULL does no harm, it stands for the main group.
RetainTgUnnoticed(m) ==
  /\ OutOfMemory
  /\ Goto(m, "retainTg", "loop")
  /\ threadGroup' = NULL
  /\ UNCHANGED <<idx, vm, classPtr, fuseFS, structs, fsRefs, tgRefs, worker,
                 flags>>

\* fuse_main has mounted the file system and begins to serve it.
FuseMainMounts(m) ==
  /\ pc[m] = "loop"
  /\ m \notin served
  /\ served' = served \cup {m}
  /\ UNCHANGED <<boot, world, worker, overlapped, unnoticed, ub>>

\* fuse_main returns once the file system is unmounted and its threads have
\* finished their callbacks, or because it could not mount.  Its result, which
\* tells the two apart, is not looked at: the cleanup is the same.
FuseMainReturns(m) ==
  /\ \A w \in Workers : worker[<<m, w>>].at = "idle"
  /\ m \in served \/ FuseFails
  /\ Goto(m, "loop", IF Boot = "jni" THEN "freeTg" ELSE "freeFs")
  /\ UNCHANGED <<idx, world, worker, flags>>

-----------------------------------------------------------------------------
(* Cleanup.  Each free_* function tests the static pointer, releases what  *)
(* it points to, and then stores NULL in it: two steps, as another call of *)
(* mount() may run in between.                                             *)

FreeThreadGroup(m) ==
  /\ \/ /\ threadGroup = NULL
        /\ Goto(m, "freeTg", "freeFs")
        /\ UNCHANGED <<tgRefs, ub>>
     \/ /\ threadGroup # NULL
        /\ Goto(m, "freeTg", "nullTg")
        /\ tgRefs' = tgRefs \ {threadGroup}
        /\ ub' = (threadGroup \notin tgRefs)
  /\ UNCHANGED <<idx, vm, classPtr, fuseFS, threadGroup, structs, fsRefs,
                 worker, overlapped, served, unnoticed>>

NullThreadGroup(m) ==
  /\ Goto(m, "nullTg", "freeFs")
  /\ threadGroup' = NULL
  /\ UNCHANGED <<idx, vm, classPtr, fuseFS, structs, fsRefs, tgRefs, worker,
                 flags>>

FreeFuseFS(m) ==
  /\ \/ /\ fuseFS = NULL
        /\ Goto(m, "freeFs", "freeCls")
        /\ UNCHANGED <<fsRefs, ub>>
     \/ /\ fuseFS # NULL
        /\ Goto(m, "freeFs", "nullFs")
        /\ fsRefs' = fsRefs \ {fuseFS}
        /\ ub' = (fuseFS \notin fsRefs)
  /\ UNCHANGED <<idx, vm, classPtr, fuseFS, threadGroup, structs, tgRefs,
                 worker, overlapped, served, unnoticed>>

\* Mutant: the static pointer is left dangling.
NullFuseFSForgotten(m) ==
  /\ Goto(m, "nullFs", "freeCls")
  /\ UNCHANGED <<idx, world, worker, flags>>

NullFuseFS(m) ==
  /\ Goto(m, "nullFs", "freeCls")
  /\ fuseFS' = NULL
  /\ UNCHANGED <<idx, vm, classPtr, threadGroup, structs, fsRefs, tgRefs,
                 worker, flags>>

\* Mutant: one class too many.
NextClassRunsOn(m, from) ==
  /\ Goto(m, from, IF idx[m] > NumClasses THEN "end" ELSE "freeCls")
  /\ idx' = [idx EXCEPT ![m] = @ + 1]

\* Mutant: the same class for ever.
NextClassStays(m, from) ==
  /\ Goto(m, from, "freeCls")
  /\ UNCHANGED idx

\* free_classes has dealt with class idx[m] and goes on to the next one.
NextClass(m, from) ==
  /\ Goto(m, from, IF idx[m] = NumClasses THEN "end" ELSE "freeCls")
  /\ idx' = [idx EXCEPT ![m] = IF @ = NumClasses THEN 1 ELSE @ + 1]

FreeClass(m) ==
  /\ LET c == idx[m]
         s == <<classPtr[c], c>>
     IN \/ /\ classPtr[c] = NULL
           /\ NextClass(m, "freeCls")
           /\ UNCHANGED <<structs, ub>>
        \/ /\ classPtr[c] # NULL
           /\ Goto(m, "freeCls", "nullCls")
           /\ structs' = structs \ {s}
           /\ ub' = (s \notin structs)
           /\ UNCHANGED idx
  /\ UNCHANGED <<vm, classPtr, fuseFS, threadGroup, fsRefs, tgRefs, worker,
                 overlapped, served, unnoticed>>

\* Mutant: the class pointer is left dangling.
NullClassForgotten(m) ==
  /\ NextClass(m, "nullCls")
  /\ UNCHANGED <<world, worker, flags>>

NullClass(m) ==
  /\ NextClass(m, "nullCls")
  /\ classPtr' = [classPtr EXCEPT ![idx[m]] = NULL]
  /\ UNCHANGED <<vm, fuseFS, threadGroup, structs, fsRefs, tgRefs, worker,
                 flags>>

\* vm = NULL (after DestroyJavaVM in main), and the call returns.
EndMount(m) ==
  /\ Goto(m, "end", "returned")
  /\ vm' = FALSE
  /\ UNCHANGED <<idx, classPtr, fuseFS, threadGroup, structs, fsRefs, tgRefs,
                 worker, flags>>

-----------------------------------------------------------------------------
(* Callbacks.  What every javafs_* function does with the static variables *)
(* on the thread <<m, w>>, a thread of mount m.                            *)

Begins(t) ==
  /\ pc[t[1]] = "loop"
  /\ t[1] \in served
  /\ worker[t].at = "idle"
  /\ worker' = [worker EXCEPT ![t].at = "env"]

\* get_env dereferences vm; a thread not yet known to the JVM is attached to
\* the group in threadGroup.
GetEnv(t) ==
  /\ Begins(t)
  /\ ub' = (~vm \/ (threadGroup # NULL /\ threadGroup \notin tgRefs))
  /\ UNCHANGED <<boot, world, overlapped, served, unnoticed>>

\* The result of AttachCurrentThreadAsDaemon is not looked at: when it fails,
\* env is an uninitialised variable.
GetEnvFails(t) ==
  /\ OutOfMemory
  /\ Begins(t)
  /\ unnoticed' = TRUE
  /\ ub' = TRUE
  /\ UNCHANGED <<boot, world, overlapped, served>>

\* A class structure is read: before the call to Java (the class of a new
\* argument object, the method ID) or after it (field and method IDs of the
\* results).
ReadClass(c) == ub' = (<<classPtr[c], c>> \notin structs)

\* One more class structure is read on the way into Java.
MakeArguments(t, c) ==
  /\ worker[t].at \in {"env", "object"}
  /\ worker' = [worker EXCEPT ![t].at = "object"]
  /\ ReadClass(c)
  /\ UNCHANGED <<boot, world, overlapped, served, unnoticed>>

\* CallIntMethod(env, fuseFS, ...): the file system of the static fuseFS runs.
CallJava(t) ==
  /\ worker[t].at = "object"
  /\ worker' = [worker EXCEPT ![t] = [at |-> "java", fs |-> fuseFS]]
  /\ ub' = (fuseFS \notin fsRefs)
  /\ UNCHANGED <<boot, world, overlapped, served, unnoticed>>

\* One more class structure is read on the way back.
ReadResults(t, c) ==
  /\ worker[t].at = "java"
  /\ ReadClass(c)
  /\ UNCHANGED <<boot, world, worker, overlapped, served, unnoticed>>

\* Mutant: release_env takes the JVM for finished with.
LeaveCallbackClearsVm(t) ==
  /\ worker[t].at # "idle"
  /\ worker' = [worker EXCEPT ![t] = Idle]
  /\ vm' = FALSE
  /\ UNCHANGED <<boot, classPtr, fuseFS, threadGroup, structs, fsRefs, tgRefs,
                 flags>>

\* The callback answers the kernel: after the call, or before it when an
\* argument could not be made.
LeaveCallback(t) ==
  /\ worker[t].at # "idle"
  /\ worker' = [worker EXCEPT ![t] = Idle]
  /\ UNCHANGED <<boot, world, flags>>

-----------------------------------------------------------------------------

\* The steps the calling thread takes by itself.
MountStep(m) ==
  \/ AllocClass(m)
  \/ AllocClassFails(m)
  \/ RetainFs(m)
  \/ RetainFsFails(m)
  \/ RetainFsUnnoticed(m)
  \/ RetainTg(m)
  \/ RetainTgFails(m)
  \/ RetainTgUnnoticed(m)
  \/ FreeThreadGroup(m)
  \/ NullThreadGroup(m)
  \/ FreeFuseFS(m)
  \/ NullFuseFS(m)
  \/ FreeClass(m)
  \/ NullClass(m)
  \/ EndMount(m)

WorkerStep(t) ==
  \/ GetEnv(t)
  \/ GetEnvFails(t)
  \/ \E c \in Classes : MakeArguments(t, c)
  \/ CallJava(t)
  \/ \E c \in Classes : ReadResults(t, c)
  \/ LeaveCallback(t)

Next ==
  /\ ~ub
  /\ \/ \E m \in Mounts : EnterMount(m)
     \/ \E m \in Mounts : EnterMountFails(m)
     \/ \E m \in Mounts : MountStep(m)
     \/ \E m \in Mounts : AllocClassUnnoticed(m)
     \/ \E m \in Mounts : FuseMainMounts(m)
     \/ \E m \in Mounts : FuseMainReturns(m)
     \/ \E t \in Mounts \X Workers : WorkerStep(t)

\* The thread that called mount() keeps running; nobody is obliged to call
\* mount() or to unmount, nor libfuse to mount.
Fairness == \A m \in Mounts : WF_vars(~ub /\ MountStep(m))

Spec == Init /\ [][Next]_vars

FairSpec == Spec /\ Fairness

-----------------------------------------------------------------------------
(* Who owns the statics while calls do not overlap: the one call that is   *)
(* active, and how much of them it has got follows from where it is.       *)

ClassesOf(m) ==
  \A c \in Classes :
    /\ classPtr[c] \in {m, NULL}
    /\ pc[m] = "alloc" => (classPtr[c] = m <=> c < idx[m])
    /\ pc[m] \in {"freeCls", "nullCls"} /\ c < idx[m] => classPtr[c] = NULL
    /\ pc[m] = "nullCls" /\ c = idx[m] => classPtr[c] = m
    /\ pc[m] = "end" => classPtr[c] = NULL
    /\ pc[m] \in {"retainFs", "retainTg", "loop", "freeTg", "nullTg",
                  "freeFs", "nullFs"} => classPtr[c] = m /\ idx[m] = 1

StructsOf(m) ==
  \A n \in Mounts, c \in Classes :
    <<n, c>> \in structs <=>
      /\ n = m
      /\ classPtr[c] = m
      /\ ~(pc[m] = "nullCls" /\ c = idx[m])

FsOf(m) ==
  /\ fuseFS \in {m, NULL}
  /\ fuseFS = m => pc[m] \in {"retainTg", "loop", "freeTg", "nullTg",
                              "freeFs", "nullFs"}
  /\ pc[m] \in {"retainTg", "loop"} /\ fuseFS = NULL => unnoticed
  /\ pc[m] = "nullFs" => fuseFS = m
  /\ fsRefs = IF fuseFS = m /\ pc[m] # "nullFs" THEN {m} ELSE {}

TgOf(m) ==
  /\ threadGroup \in {m, NULL}
  /\ threadGroup = m => pc[m] \in {"loop", "freeTg", "nullTg"}
  /\ pc[m] = "retainTg" \/ threadGroup = m => Boot = "jni"
  /\ pc[m] = "nullTg" => threadGroup = m
  /\ tgRefs = IF threadGroup = m /\ pc[m] # "nullTg" THEN {m} ELSE {}

Owns(m) == vm /\ ClassesOf(m) /\ StructsOf(m) /\ FsOf(m) /\ TgOf(m)

Pristine ==
  /\ ~vm
  /\ \A c \in Classes : classPtr[c] = NULL
  /\ fuseFS = NULL
  /\ threadGroup = NULL

NothingHeld == structs = {} /\ fsRefs = {} /\ tgRefs = {}

CallbacksInLoop ==
  \A m \in Mounts, w \in Workers :
    /\ worker[<<m, w>>].at # "idle" => pc[m] = "loop"
    /\ worker[<<m, w>>].at = "java" => worker[<<m, w>>].fs = m \/ ub

-----------------------------------------------------------------------------
(* How many steps of its own a call has ahead of it, at most.              *)

Remaining(m) ==
  LET left == NumClasses - idx[m]
  IN CASE pc[m] = "start"    -> 3 * NumClasses + 10
       [] pc[m] = "alloc"    -> 2 * NumClasses + 9 + left
       [] pc[m] = "retainFs" -> 2 * NumClasses + 8
       [] pc[m] = "retainTg" -> 2 * NumClasses + 7
       [] pc[m] = "loop"     -> 2 * NumClasses + 6
       [] pc[m] = "freeTg"   -> 2 * NumClasses + 5
       [] pc[m] = "nullTg"   -> 2 * NumClasses + 4
       [] pc[m] = "freeFs"   -> 2 * NumClasses + 3
       [] pc[m] = "nullFs"   -> 2 * NumClasses + 2
       [] pc[m] = "freeCls"  -> 2 * left + 3
       [] pc[m] = "nullCls"  -> 2 * left + 2
       [] pc[m] = "end"      -> 1
       [] pc[m] = "returned" -> 0

-----------------------------------------------------------------------------
(* Properties.                                                             *)

\* As long as two calls of mount() never overlap and no failure of a JNI call
\* goes unnoticed, no callback and no cleanup step of javafs.c dereferences a
\* NULL or freed static pointer or frees one twice, whichever steps of the
\* boot-up fail.
UndefinedOnlyByOverlap == ub => overlapped \/ unnoticed

\* While calls do not overlap, one call at most is active, it owns exactly the
\* structures and references its place in the code accounts for, at every
\* step between an allocation and the store that publishes it and between a
\* free and the store of NULL; only a call inside fuse_main has callbacks, and
\* they run the file system that was passed to it.  Once all have returned, by
\* whichever error path, everything is as it was: the process can mount again.
SoleOwner ==
  ~overlapped =>
    /\ \A m, n \in Mounts : Active(m) /\ Active(n) => m = n
    /\ \A m \in Mounts : Active(m) => Owns(m)
    /\ (\A m \in Mounts : ~Active(m)) => Pristine /\ NothingHeld
    /\ CallbacksInLoop

\* Between get_env and its answer a callback reads the static pointers and
\* what they point to again and again, without a lock: while any callback
\* runs, no thread changes them.
StaticsStable ==
  [][~overlapped' /\ (\E t \in Mounts \X Workers : worker[t].at # "idle") =>
       UNCHANGED world]_vars

\* FuseMount.mount logs "Filesystem is unmounted" when the native method
\* returns normally: in a call that has returned, fuse_main did mount.
UnmountedWasMounted ==
  \A m \in Mounts : pc[m] = "returned" => m \in served

\* A call of mount() that has begun gets as far as serving the file system or
\* returns, and one that has left fuse_main returns: the error paths and the
\* cleanup terminate.
EveryMountSettles ==
  \A m \in Mounts :
    /\ Active(m) ~> (ub \/ pc[m] \in {"loop", "returned"})
    /\ pc[m] \in {"freeTg", "freeFs"} ~> (ub \/ pc[m] = "returned")

=============================================================================
