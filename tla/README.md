# FUSE4Java in TLA+

FUSE4Java lets a Java object be mounted as a Unix file system.  A C library,
`core/src/main/c/javafs.c`, implements the callbacks of libfuse by calling,
through JNI, the methods of a Java object; an adapter,
`FilesystemToFuseFSAdapter`, turns byte buffers into strings and exceptions into
errnos and calls the user's `fuse.Filesystem`.  The hard part of the project is
the border between the languages: C code that has to release by hand what JNI
gives it, on every error path, on threads it did not create, with static
variables shared by all of them.  This directory specifies that border, checks
it with TLC and proves its main invariants with TLAPS.

Paths below are relative to the repository; `javafs.c`, `javafs_bindings.c` are
in `core/src/main/c`, the Java classes in `core/src/main/java/fuse`.


## 1. The system

    kernel --request--> libfuse thread --> javafs_<op>          (javafs.c)
                                             | get_env, JNI arguments
                                             v
                                  FilesystemToFuseFSAdapter      (fuse.impl)
                                             | strings, exceptions -> errno
                                             v
                                     fuse.Filesystem             (the user's)
                                             |
    kernel <---- -jerrno <---- results read back, references freed

| Component | State it keeps | Operations | Talks to |
|---|---|---|---|
| Mount boot-up and cleanup (`javafs.c`: `Java_fuse_FuseMount_mount`, `main`, `alloc_classes`, `retain_*`, `free_*`; `FuseMount.java`) | the statics `vm`, `fuseFS`, `threadGroup` and nine class pointers, shared by all mounts of the process | `mount()`, `main()` | the class bindings; `fuse_main`; every callback reads the statics |
| Thread attachment (`get_env`, `release_env`) | which libfuse threads the JVM knows | attach on first use, never detach | `vm`, `threadGroup` |
| File handles (`javafs_open`, `javafs_release`, `FuseFileInfo`, `FuseOpenSetter`) | a JNI global reference in `ffi->fh` per open file, kept by the kernel | open, read/write/flush/fsync, release | the JVM's reference table, shared by all threads |
| Callbacks (the 25 functions of `javafs_oper`) | the C variables of one call: local references, `jerrno`; per thread, the JVM's table of local references and its pending exception | one request each | the adapter, `fuseFS`, libfuse's filler |
| String-level adapter (`FilesystemToFuseFSAdapter`) | none (the wrapped file system, a `Charset`) | one method per callback, `handleException` | `Filesystem` |
| Directory listing (`FuseFSDirFiller`, `FuseFSDirEnt`, loop in `javafs_getdir`) | the list of entries of one call | `add`, the loop that hands the entries to the filler | adapter, filler |
| Extended attributes (five callbacks, `Filesystem.XAttrSetMode`, `XattrLister`) | none | set, get, list, remove, and size queries | adapter |
| Class bindings (`javafs_bindings.c`) | class structures: a global reference to the class and its member IDs | `alloc_jclass_*`, `free_jclass_*` | `alloc_classes` |
| Fake file system (`examples`) | an in-memory tree | a `Filesystem` | adapter |
| Bindings generator (`capigen`) | none | prints `javafs_bindings.*` | build time only |

What makes it hard:

* **Concurrency.**  libfuse calls back on several threads; all of them read the
  statics, and all share the JVM's table of global references.  Nothing keeps a
  second `mount()` from overwriting the statics of the first.
* **Failure half-way.**  Each allocation of the boot-up and each JNI call of a
  callback may fail, and C must free exactly what has been made so far.
* **Recycled references.**  A global reference is a raw pointer the kernel holds
  for as long as a file is open; the JVM gives a freed slot to somebody else.
* **Threads that live on.**  A thread is attached once and never detached, so
  what one callback leaves behind (references, pinned arrays, an exception) is
  there in the next.
* **Hand-written glue.**  The `Call...Method` for a return type, the order of
  exception checks and the variables the cleanup sees are chosen anew in every
  callback.

What correctness means, component by component:

* *Mounts*: one owner of the statics; nothing used before it is made or after it
  is freed; nothing left behind when the last call returns; a callback runs the
  file system of its own mount; every boot-up and every cleanup ends.
* *Handles*: a handle is pinned from open to release and no longer; every call
  is given the handle of its own file; every closed file was released in Java.
* *Callbacks*: the file system is asked at most once and the kernel is answered
  what it did; success means the results are there; nothing is left to the
  thread; every request is answered.
* *Adapter, listing, attributes*: what a process reads arrives whole, and is what
  was there at one moment, or an error says it did not; nothing is written past a
  buffer; a process that retries with the size it is told comes to an end.
* *Bindings*: a structure that callbacks can see has every slot filled; an error
  half-way leaves neither memory nor a global reference behind.

`PROJECT.json` lists the components with their status and the hazards of the code,
each at its line.


## 2. The modules

| Module | What it is |
|---|---|
| `FuseMount` | Boot-up, cleanup, the statics, and what any callback does with them |
| `FuseMountProofs` | its theorems |
| `Bindings` | `FuseMount` with `alloc_jclass_*` and `free_jclass_*` opened up, one step per C or JNI call; implements `FuseMount` |
| `ClassTables` | the lookups of the nine `alloc_jclass_*` and the slots of the nine structures |
| `BindingsMC`, `BindingsProofs` | the instances of both, and the theorems of `Bindings` |
| `HandleService` | abstract: what a file system is promised about file handles |
| `FileHandles` | open, use and release across JNI; implements `HandleService` |
| `FileHandlesMC`, `FileHandlesProofs` | its instances and its theorems |
| `Upcall` | abstract: what kernel and file system may expect of one callback |
| `Callbacks` | the pipeline of every callback on one thread; implements `Upcall` |
| `CallbacksMC`, `CallbacksProofs` | its instances and its theorems |
| `Delivery` | abstract: what a process may expect when it reads something of varying size |
| `Transfers` | `readlink`, `getxattr`, `listxattr`, `getdir` from the file system to the process; implements `Delivery` |
| `TransfersMC`, `TransfersProofs` | its instance and its theorems |

Some definitions are commented "Mutant:".  They are broken variants of the
definition that follows, used to show that each property fails when the code has
such a bug; no specification refers to them.

### FuseMount

An element of `Mounts` is one call of the native method `mount` (`Boot = "jni"`)
or the run of the `javafs` executable (`Boot = "main"`).

| Model | Code |
|---|---|
| `pc`, `idx` | where the call is; the class `alloc_classes`/`free_classes` is at |
| `vm`, `classPtr`, `fuseFS`, `threadGroup` | the statics; a pointer is abstracted to the call that made its target |
| `structs`, `fsRefs`, `tgRefs` | what is allocated and not freed |
| `worker` | the callback on each libfuse thread: `get_env`, class structures read for the arguments, the call on `fuseFS`, class structures read for the results |
| `EnterMount`, `AllocClass*`, `RetainFs*`, `RetainTg*` | the nested boot-up, with each way a step fails |
| `FuseMainMounts`, `FuseMainReturns` | `fuse_main` mounts and serves; it is over, or could not mount (`FuseFails`): its result is discarded and the cleanup is the same |
| `FreeThreadGroup`/`NullThreadGroup`, ... | `free_*`: release, then store NULL; two steps because another call may run in between |
| `overlapped`, `served`, `unnoticed` | history: two calls were active at once; whose `fuse_main` mounted; a JNI call failed and the code did not look |
| `ub` | a NULL or freed pointer was used, something was freed twice, or an uninitialised `JNIEnv` was used; nothing is modelled after that |

JNI allows `NewGlobalRef` to return NULL without an exception; the code looks at
the exception only (`RetainFsUnnoticed`, `RetainTgUnnoticed`).  `get_env` does not
look at the result of `AttachCurrentThreadAsDaemon` (`GetEnvFails`).

Nothing in `javafs.c` orders two calls of `mount()`, so the model lets them
interleave and the properties say what holds as long as they did not
(`~overlapped`), at every step of boot-up and cleanup and with any number of
calls one after the other.

### Bindings

`FuseMount` takes `alloc_jclass_X` for one step that publishes a structure
(`AllocClass`), returns NULL (`AllocClassFails`) or is undefined because
`NewGlobalRef` gave NULL unnoticed (`AllocClassUnnoticed`).  `Bindings` EXTENDS it
and replaces these steps and those of `free_jclass_X` by the calls inside:

| Model | Code |
|---|---|
| `step` | where in `alloc_jclass_X` or `free_jclass_X` a call of `mount()` is |
| `heap`, `pins` | structures between `calloc` and `free`; structures whose `class` is a live global reference |
| `ids` | how many slots of a structure are filled, in the order of `ClassTables` |
| `Calloc`, `FindClass`, `PinClass`, `Lookup` and their failures | the lines of `alloc_jclass_X` |
| `ReturnStructure` | `return`, and `alloc_classes` stores the pointer |
| `Unpin`, `Discard` | the error handler: `free_jclass_X` on what was just made, `return NULL` |
| `DeleteClassRef`, `FreeStructure` | `free_jclass_X` called by `free_classes` |

`ClassTables` has each list twice: in the order of the lines of
`javafs_bindings.c`, and as the members of the `struct` in `javafs_bindings.h`.
That the two agree is the assumption `EverySlotLookedUp`, which TLC evaluates for
the real tables.  A class is loadable, in the sense of `FuseMount`, if it is found
and has every member that is looked up (`LoadableResolves`).

The local reference that `FindClass` returns is never deleted.  In `mount()` the
JVM drops it on return and in `main()` it stays with the main thread, nine in all;
it is not modelled.

### FileHandles

An element of `Files` is one opening of a file, and stands for its handle object
too.  `fh` is `ffi->fh`; `table` is the JVM's table of global references, whose
freed slots are taken again in any order; `thread` is the callback on each thread
with the object its method received.  `AskOpen`, `AskUse` and `AskRelease` are the
kernel's protocol (open before use, release once, when every use has been
answered), an assumption about Linux, not code of the repository.  `read`,
`write`, `flush` and `fsync` do the same with a handle and are one operation,
"use".

`javafs_release` calls `DeleteGlobalRef` and then `DeleteLocalRef` on the same
pointer.  The JNI specification leaves the second call open; `StaleDelete` says
whether the JVM ignores it or clears the slot, which another thread may have
taken in between.  (With `-Xcheck:jni`, which `javafs.c` passes when it creates
the JVM, HotSpot reports and aborts; that JVM has no further behaviour to check.)

A failing `NewGlobalRef` in `javafs_open` is not looked at: the open succeeds
without a handle (`lost`) and the exception stays with the thread (`pending`).
`OwnHandle` expects null for a lost handle; the exception is caught by
`Callbacks_pending`.

### Callbacks

Every callback has the same shape, so the module has one pipeline and tables of
what differs: `Args` (the argument objects by C variable, in the order they are
made), and how the results are read (`ReadsFields`, `ReadsPosition`, `open`,
`getdir`).

| Model | Code |
|---|---|
| `at` | making arguments, reading results, in the loop of `getdir`, in the cleanup, answered |
| `held` | the C variables that hold a local reference |
| `live` | the local references of the thread, which outlive a callback that loses one |
| `bytes` | the pinned byte array of an entry's name |
| `MakeArgument`, `MakeArgumentFails` | one JNI call and `exception_check_jerrno` |
| `CallJava(out)` | the adapter with an outcome of the file system: `Returned` is `handleException` and the return value, `Received` is what the `Call...Method` of this callback makes of it, `Misread` an errno that `javafs_getattr` dereferences |
| `BadFlag` | `XAttrSetMode.byFlag` throws |
| `Read*`, `Entry*`, `ListingDone` | the results, with each failing call |
| `Leave` | leaving the block; the variables of `javafs_setxattr` are declared inside it and are not those the cleanup deletes |
| `Cleanup` | deletes what is not NULL, answers `-jerrno` |

The outcomes of the file system are success, no object where one is returned, a
link target too long to encode, a `BufferOverflowException`, a `FuseException`
with or without an `Errno`, another exception, and an `Error`.

Two callbacks misread the return value: `javafs_utime` calls `utime` as a void
method, and `javafs_getattr` takes the `int` it is returned for an object, so that
0 becomes `ENOENT` and an errno is dereferenced (`ub`).  `javafs_getattr` does
not compile as it stands either: line 309 of `javafs.c` names a variable
`JGetattr`; it is read as `jGetattr`.

### Transfers

`Callbacks` asks whether results were handed over; `Transfers` asks what they were.
One process reads things of one kind (a link, an attribute's value, the list of
attributes, a directory), and others change them at any moment.

| Model | Code |
|---|---|
| `content`, `snap` | what is there; what the file system found when it was called |
| `at` | in the size query, filling the buffer, handing entries to FUSE, or between two callbacks |
| `buf`, `Limit`, `pos` | the size of the buffer, what of it Java sees (`size - 1` for a link), and `position()` |
| `got` | the items that have arrived, each whole or cut |
| `QuerySize`, `SizeName`, `AnswerSize` | `size == 0`: `getxattrsize`, or `listxattrsize` with `XattrSizeLister` |
| `FillLink` | `readlink`: a CharBuffer of as many characters as the buffer has bytes (`ERANGE`), then the encoder (`ENAMETOOLONG`) |
| `ListName`, `ListNameOverflows` | `XattrValueLister.add`: `encode`, whose overflow is not looked at, and the terminator, which needs a byte |
| `Collect`, `HandEntry`, `EntryRefused` | `getdir`: entries collected in Java, copied one by one into `name[1024]`; the filler's negative code is negated again |
| `Begin`, `Continue`, `TakeNothing` | the process: asks for the size, or uses a buffer it has; on `ERANGE` it asks again; a size of 0 tells it that the value is empty, or that there are no attributes |

Items are abstract; a name has a number of characters, a number of bytes, and the
bytes of its widest character.  A name may be empty, as an attribute's value may,
and a surrogate pair that the charset cannot map is two characters and one byte.
`Encoded` is what the encoder guarantees when it
overflows: it stops before some character that does not fit, hence within that
many bytes of the end.  A name all of whose characters take one byte therefore
fills the buffer to the end and the terminator overflows, which is noticed; one
with wider characters may leave room for the terminator and is then cut in
silence.  `EstimateFrom` is given as a table because the sum over a list would
have to be recursive; `EstimateFromAssumption` defines it.


## 3. The runs

Run `tlc -config <cfg> <module>`.

| Run | Module | Bounds | Shows |
|---|---|---|---|
| `FuseMount_overlap` | BindingsMC | 2 mounts, classes of 1 and 2 slots, 1 thread each | with overlap and every failure free to happen: `SoleOwner`, `UndefinedOnlyByOverlap`, `PublishedComplete`, `NothingDropped`, the steps `StaticsStable` and `MountAdvances`, the refinement `ImplementsFuseMount`; under fairness `EveryMountSettles` |
| `FuseMount_main` | BindingsMC | 1 run of `javafs`, the 9 classes with all lookups, 1 thread | the invariants of `main()`, whose nesting differs; `PublishedComplete`, `BindingsFreed` for the real tables |
| `FuseMount_shipped` | BindingsMC | the classes and members that exist | *violation*: `UnmountedWasMounted` |
| `FileHandles_service` | FileHandlesMC | 3 files, 2 threads, 3 slots | `Bookkeeping`, `TableExact`, `OwnHandle`, `ReleaseSeen`, the steps `UnpinnedOnlyByRelease`, the refinement `KeepsHandles`; under fairness `ReleaseCompletes` |
| `FileHandles_stale` | FileHandlesMC | 2 files, 2 threads | *violation*: `OwnHandle` on a JVM that clears the slot |
| `Callbacks_upcalls` | CallbacksMC | all operations of the common shape, 2 errnos, listings up to 3, every JNI failure but of `NewGlobalRef` in `javafs_open` | `LeavesNothing`, `ResultsRead`, `ServedUnlessJniFailed`, `ReturnValueReported`, the refinement `AnswersAsRaised` |
| `Callbacks_returns` | CallbacksMC | all operations, every failure, leaks | the steps `CallbackRunsDown`; under fairness `CallbackReturns` |
| `Callbacks_utime` | CallbacksMC | `utime` | *violation*: `ReturnValueReported` |
| `Callbacks_shadowed` | CallbacksMC | `setxattr` | *violation*: `LeavesNothing` |
| `Callbacks_pending` | CallbacksMC | `open`, `NewGlobalRef` may throw | *violation*: `LeavesNothing` |
| `Callbacks_noflags` | CallbacksMC | `setxattr`, flags 0 | *violation*: `ServedUnlessJniFailed` |
| `Transfers` | TransfersMC | 5 names, lists up to 2, 2 changes, 4 sizes of buffer | `InsideBuffer`, `SizedFits`, `ListingAllOrNone`, the steps `ReadRunsDown`, the refinement `ImplementsDelivery`; under fairness `ReadSettles` |

Why the bounds are enough.  Two mounts give every pair of steps of two calls in
either order; two classes give a class that is freed before, at and after the one
`alloc_classes` fails at, and two slots a lookup that fails with one slot filled;
the run of `main` has all nine classes with every lookup of the bindings.  Three files over
two threads and three slots let a slot be freed and taken by either of two other
files while the first is still in `release`.  A listing of three entries has a
first, a middle and a last one; the length is chosen afresh in each call, 0
included.  In `Callbacks_returns` references leak, so `MaxLeaked` bounds
the number that a callback may start with; it bounds nothing in
`Callbacks_upcalls`, where it is 0, as `LeavesNothing` holds.  In `Transfers` one
name has one byte, one has three, and one has two characters of one and three
bytes, so that a list can end in the middle of a character, exactly at the end of
the buffer, or before it; the two edges of the lengths, no characters at all and
fewer bytes than characters, are there by themselves; buffers are of 1 byte, too small, just right and large;
two changes let the content grow between size and fetch, and again between the
retry and its fetch.  `MaxChanges` also stands for what `ReadSettles` has to assume,
that the others leave the content alone in the end: a process may retry for ever if
they never do.  For the invariants the proofs below lift all of these bounds.

Deadlock is checked in `Transfers`, where a process may always read again, and
nowhere else: a process in which every `mount()` has returned, and a
model in which every opening is closed, have nothing left to do, and after `ub`
nothing is modelled.

Fairness.  `FairSpec` assumes that a thread that runs C code keeps running and
that the file system returns from its methods; the code holds no lock and waits
for nothing else, so weak fairness of the steps of each thread is what a
scheduler gives.  Nobody is obliged to call `mount()`, to unmount, or to send a
request, and `FuseMainReturns` is not fair.  `DetailFairSpec` says the same of the
smaller steps of `Bindings`.  In `Transfers` the steps of a callback are fair, and
so are those of a process between the callbacks of one read (`Continue`,
`TakeNothing`); beginning to read and changing anything are not.

Measures.  Three action properties say how far a component is from its end.
`MountAdvances` takes `Remaining(m)`, the classes and cleanups ahead of a call of
`mount()`, and `Within(m)`, the steps ahead of it inside `alloc_jclass_X` or
`free_jclass_X`; `CallbackRunsDown` takes `Remaining` of `Callbacks`, to which a
listing adds four steps per entry (`EntryBehind` of them taken); `ReadRunsDown`
takes `Credit`, the changes still to come and the one a buffer has yet to show
(`Stale`), then `Stage`, the steps of one attempt, then the items ahead.  They say
more than the liveness properties, which only promise an end: a step back is a
violation even if it is made good later.

### What the code gets wrong

* **`mount()` that did not mount.**  `alloc_classes` looks up `fuse/FuseGetattr`
  and five other names that the Java sources do not define any more, and members
  that `fuse.FuseStatfs` no longer has; boot-up fails, the native method returns
  normally, and `FuseMount.mount` logs "Filesystem is unmounted".
* **A mount that is refused.**  The result of `fuse_main` is discarded, so a mount
  that libfuse or the kernel turns down ends in the same way.  It has no run of
  its own: `UnmountedWasMounted` fails for it as it does in `FuseMount_shipped`.
* **The unchecked `NewGlobalRef`** in `javafs_open`: when it fails the open
  succeeds all the same, the calls that follow receive null for the handle (which
  `OwnHandle` exempts), and the exception is left pending for the next, unrelated
  callback of the thread (`Callbacks_pending`).
* **The stale `DeleteLocalRef`** in `javafs_release` (see above): where the JVM
  clears the slot, the next call about another file receives null.
* **Release without `release()`.**  If the path buffer cannot be made, the file
  is closed and its handle freed, and Java is never told.  `ReleaseSeen` exempts the
  case and `ReleaseAlwaysSeen`, without the exemption, is proved for JNI calls that
  do not fail.
* **`utime`** answers success whatever happened.
* **`setxattr`** leaks its three argument references on every call: the variables
  in the block hide those of the cleanup.
* **`setxattr` without flags**, the usual call, throws in `XAttrSetMode.byFlag`.
* **Attribute lists of names with wide characters.**  The size answered can be too
  small however often it is asked for, and with a larger buffer a name can arrive
  cut.  `SizedFits`, `ReadSettles` and `Cuttable` exempt exactly these names; the
  same properties without the exemption are violated in the same instance.
* **A listing that FUSE refuses** is answered with a positive number instead of
  a negative errno.  `ListingAllOrNone` takes that number as it comes and tells the
  three cases apart by the sign; it does not refute it.

`getattr`, which misreads the returned value as described above, has no run of its
own.


## 4. The proofs

`tlapm <module>` checks them.  They hold for every value of the constants that
the named assumptions allow: any number of mounts, threads, classes, files, slots,
errnos and entries.  Every invariant and every action property of the passing runs
and every refinement is a theorem.

**FuseMountProofs.**  `TypeCorrect`, `SoleOwnership`, `NoUndefinedBehaviour`,
`StaticsAreStable`.  The inductive invariant is
`TypeOK /\ SoleOwner /\ UndefinedOnlyByOverlap`.  `SoleOwner` is what makes it
inductive: it says, for each location of the one active call, which pointers are
set, which structures and references exist, and in which of the two half-steps of
`free_*` they differ.  From it follow that the location's next dereference is of
something alive, that a callback finds the file system of its own mount
(callbacks exist only inside `fuse_main`, where `fuseFS` is the call's own), that
nobody changes the statics under it, and that a process without an active call
holds nothing.

Two pairs of theorems separate causes.  With memory for all (`~OutOfMemory`),
`OnlyOverlapsAreUnsafe` leaves overlapping calls as the only way to undefined
behaviour, so that `OneMountIsSafe`.  `NothingServed` says that one class that
cannot be loaded (`Loadable # Classes`) keeps every call, however many there are
and however they overlap, from getting `fuse_main` to mount; its invariant
`PastLoadable` is that a call has passed loadable classes only.
`ReturnedWasMounted` is the other direction: if all classes are loadable, there is
memory, and `fuse_main` is able to mount (`~FuseFails`), a call that has returned
did mount (`OnItsWay`).  That last assumption is about libfuse, not about this
code, which does not look at the result.

**BindingsProofs.**  The inductive invariant is `DetailInv`: the types and, short of
`ub`, `Orderly`.  It mentions neither `SoleOwner` nor `overlapped`, so it holds even
when calls overlap.  `Orderly` says for each location inside `alloc_jclass_X` what its
structure has so far, for each location inside `free_jclass_X` whose structure it
is and that nobody else is freeing it, and that every structure on the heap and
every pinned class is either published or at one of these locations.
`PublishedIsComplete` and `NothingIsDropped` follow from it; `BindingsAreFreed`
takes besides that no structure is published any more, which is `SoleOwner` of
`FuseMount`.  `ImplementsMount` maps each step to one of `FuseMount` or to a
stutter: the last lookup makes `ReturnStructure` an `AllocClass`, because every
member found means that the class is loadable, and the failures lead to an
`AllocClassFails`.

`DetailOwnership`, `DetailStaticsStable` and `DetailOneMountIsSafe` carry theorems
of `FuseMountProofs` over the refinement.  So do `OneMissingMemberSuffices` and
`FittingBindingsMount`, which say it of members: one slot for which its class has
no member, and no call ever mounts; a member for every slot, memory, and a
`fuse_main` that is able to, and every call that returned did.  `MountsAdvance` is the action property, and that
its two measures are natural numbers.

**FileHandlesProofs.**  `TypeCorrect`, `BookkeepingHolds` and `ReleasesAreSeen` hold
on every JVM.  `TableIsExact`, `HandlesAreOwn`, `UnpinnedByRelease`,
`HandlesOutliveCalls` (what a call has been given stays pinned until it returns)
and `HandlesAreKept` (the refinement of `HandleService`) assume `SafeDelete`: the JVM
ignores the stale `DeleteLocalRef`, or there is one thread only.
`FileHandles_stale` shows that they need it.  The first invariant is
`TypeOK /\ Bookkeeping`: which callback may be about which opening, and that
`ffi->fh` is NULL exactly when no handle is pinned.  The second adds `TableExact`
and that a slot about to be cleared by the stale delete is free.
`WithoutFailuresReleasesAreSeen` is `ReleaseAlwaysSeen`, for JNI calls that do not
fail (`~JniFails`).

**CallbacksProofs.**  The inductive invariant `IInv` counts: `Counted` says that
the references the C variables hold are live ones of the thread, and all of them
unless `setxattr` is requested; `Place` that the arguments made are the first ones
of the list, that an entry's name is held only with its entry, and that bytes are
pinned only with the name.  From it follow, for all operations and any mixture of
requests, `TypeCorrect`, `CallbacksRunDown` and `OnlySetxattrLoses`: no step of an
operation but `setxattr` loses a reference.  `NothingLeft` assumes that `setxattr` is
not requested and that `NewGlobalRef` does not throw in `javafs_open`.

`RInv` follows the answer: `jerrno` is one that `Upcall` allows for the outcome,
unless the operation is one that misreads it (`Misreads`: `utime`, `getattr`);
success of an operation with results is found in the cleanup only after they were
handed over; and a request that the file system did not see has met a JNI failure
or was turned down for its flag.  `SuccessMeansResults` holds of all operations.
`RequestsServed` assumes of `setxattr`, if it is requested, that its flags are known
to `XAttrSetMode`.  `ReturnValueDecides` says of every request but those of `Misreads`
that the return value decides, whichever requests the thread serves in between.
`ImplementsUpcall` (the refinement of `Upcall`) assumes that `Misreads` are not
requested at all: the variables of `Upcall` do not tell the operations apart.
That these restrictions are the code's and not the proof's is shown by
`Callbacks_shadowed` (`setxattr`), `Callbacks_pending` (`NewGlobalRef`),
`Callbacks_noflags` (flags) and `Callbacks_utime`; what `getattr` misreads is
described in section 2.

**TransfersProofs.**  `TypeCorrect`, `StaysInside`, `EstimateSuffices`,
`ListingBySign`, `DeliversWhole`, `ReadsRunDown`.  The inductive invariant has two
parts.  What has arrived is a prefix of `snap`, each item whole or of `Cuttable`; this
gives the refinement of `Delivery`.  And what the estimate has left suffices: while
a list is sized, `pos + EstimateFrom[snap][next]` is the whole estimate; while the
same list is put into a buffer of that size, `pos + EstimateFrom[snap][next] <= buf`
as long as its names have characters of one byte, since such a name takes exactly
its characters and a terminator, and an estimate is never below that
(`AverageAssumption`).  So the buffer cannot overflow, which is `SizedFits`; and so
a buffer that was too small had gone stale, which is why each retry of
`ReadRunsDown` is paid for by a change.

What is not proved.  The liveness properties `EveryMountSettles`,
`ReleaseCompletes`, `CallbackReturns` and `ReadSettles` are only model-checked, as
fairness and `ENABLED` are out of the prover's reach.  The three measures are the
part of the argument that can be proved: a component that takes steps takes
finitely many.  That a step is always possible until the end is TLC's.  The
violations are TLC's too, for the instances named; the theorems that pair with
them (`NothingServed` with `FuseMount_shipped`, for every classpath of the kind) say
how far they reach.


## 5. Assumptions about code outside the repository

* libfuse: `fuse_main` returns when the file system is unmounted and the callbacks
  of its threads have ended, or when it cannot mount; it makes no callback before
  it has mounted.
* Linux: open before use, one release per opening after the last use.
* JNI: any call that allocates may fail, with an exception; `NewGlobalRef` also
  without one; a call made with an exception pending may or may not give a
  result; `NewObject` and `NewDirectByteBuffer` give NULL with an exception only (the
  latter also on a JVM without direct buffers, which none that runs FUSE4Java can
  be); `DeleteLocalRef` of what is not a local reference is unspecified.
* The filler of libfuse takes an entry or returns a negative code.
* A file system reads what it lists or returns at one moment (`CallFs`), tells the
  true size of an attribute, reports a buffer that is too small with a
  `BufferOverflowException`, as `Filesystem.getxattr` asks it to, and throws no
  `FuseException` with `ERANGE` itself.
* A process that reads an attribute asks for the size, allocates it and fetches,
  and starts again on `ERANGE`, as getxattr(2) describes.  Where the size is 0 it
  does not fetch, as a call with size 0 would be another query, and has read an
  empty value or list.
* The encoder of a charset stops before the first character that does not fit; one
  whose characters take one byte each never needs more bytes than there are
  characters; `averageBytesPerChar` is at least 1 (the run takes 1.1, as in UTF-8).
* `FuseFSDirFiller` has the methods `size()` and `get(int)` that `javafs.c` calls;
  the class in the repository has only `toArray()`, another reason why the shipped
  bindings do not load.


## 6. Not modelled

* Copying of the argument strings in `mount()`, and `mainEnv`, which is only
  traced: no state outlives them.
* `FuseContext`: copies three fields.
* `FilesystemImplCheck`: a reflective query nothing calls; its answer is inverted.
* The value classes `FuseAttr`, `FuseStatfs`, `Errno`, `Mode`, ...: builders and
  enums, abstracted in `Callbacks`.
* `FakeFilesystem`: a read-only example.  Every operation that would change its
  tree throws `EROFS` but `chmod`; its `open`, `getxattrsize` and `setxattr` have
  parameters that the methods of `Filesystem` no longer have, so they override
  nothing and are never called.
* The generator: prints C text at build time.  What it printed is `ClassTables`.
* Arguments that are passed through: paths, modes, times, offsets.  So two faults
  of `fsync` have no property: the adapter decodes the path twice and hands an
  empty one to the file system (`FilesystemToFuseFSAdapter.java:478`), and
  `javafs_fsync` passes the open flags where the method expects `isDatasync`
  (`javafs.c:967`).  Both happen in every call, whatever came before.
* Which bytes a charset makes of which characters; only lengths are modelled.
* Logging, the build files, the placeholder tests.

The components are specified one by one.  `Bindings` includes `FuseMount` and
shares its variables; `FileHandles`, `Callbacks` and `Transfers` start where a
mount is up, and `FuseMount` knows of a callback only the statics it reads.  They
share no variable: handles live in `ffi->fh` and the table of references, the
statics do not change while a callback runs (`StaticsStable`).


## 7. Plan

Done, in this order: `FuseMount` (every callback depends on its statics),
`FileHandles` over `HandleService`, `Callbacks` over `Upcall`, `Bindings` over
`FuseMount`, `Transfers` over `Delivery`, and the proofs of each.

What may follow:

1. `Serving` — `FuseMount`, `FileHandles` and `Callbacks` composed: a mount that
   ends with files still open leaves their handles pinned in a JVM that goes on
   (`mount()`) or is destroyed (`main()`).
2. `Fsync` — the arguments of a callback, for the two faults above.
