------------------------------ MODULE Bindings ------------------------------
(***************************************************************************)
(* Inside alloc_jclass_X and free_jclass_X of javafs_bindings.c.  FuseMount *)
(* takes each for one step; here it is a sequence of C and JNI calls, each *)
(* of which may fail, with other calls of mount() running in between.      *)
(*                                                                         *)
(*   calloc -> FindClass -> NewGlobalRef -> one lookup per slot -> return  *)
(*      |          |             |              |                          *)
(*      |          +-------------+--------------+-> error handler:         *)
(*      +-> return NULL                DeleteGlobalRef, free, return NULL  *)
(*                                                                         *)
(* A structure is the pair of the call that makes it and the class.  All   *)
(* other steps of the mount are those of FuseMount, and Spec of FuseMount  *)
(* is what this module implements.                                         *)
(***************************************************************************)
EXTENDS FuseMount, Sequences

CONSTANTS
  Lookups,   \* for each class, the slots in the order they are looked up
  Slots,     \* for each class, the slots its structure declares
  Found,     \* the classes that FindClass resolves
  Declared   \* for each class, the slots whose member the class has

\* The lines that look a member up and the slots they fill are generated
\* from the same class.
ASSUME EverySlotLookedUp ==
  \A c \in Classes :
    /\ Lookups[c] \in Seq(Slots[c])
    /\ Slots[c] = {Lookups[c][i] : i \in 1..Len(Lookups[c])}

\* What FuseMount calls loadable.
ASSUME LoadableResolves ==
  Loadable = {c \in Classes : c \in Found /\ Slots[c] \subseteq Declared[c]}

VARIABLES
  step,      \* where in alloc_jclass_X or free_jclass_X each call is
  victim,    \* whose structure the free_jclass_X it is in was given
  heap,      \* the structures between calloc and free
  pins,      \* the structures whose class is a live global reference
  ids        \* how many slots of a structure have been filled

detail  == <<step, victim, heap, pins, ids>>
allVars == <<vars, detail>>

Structures == Mounts \X Classes

DetailTypeOK ==
  /\ step \in [Mounts -> {"outside", "find", "pin", "lookup", "unpin",
                          "discard", "free"}]
  /\ victim \in [Mounts -> Mounts \cup {NULL}]
  /\ heap \subseteq Structures
  /\ pins \subseteq Structures
  /\ ids \in [Structures -> Nat]
  /\ \A s \in Structures : ids[s] <= Len(Lookups[s[2]])

DetailInit ==
  /\ Init
  /\ step = [m \in Mounts |-> "outside"]
  /\ victim = [m \in Mounts |-> NULL]
  /\ heap = {}
  /\ pins = {}
  /\ ids = [s \in Structures |-> 0]

\* The structure that m is filling.
Own(m) == <<m, idx[m]>>

\* The structure that free_jclass_X was called with.
Victim(m) == <<victim[m], idx[m]>>

To(m, from, to) ==
  /\ step[m] = from
  /\ step' = [step EXCEPT ![m] = to]

-----------------------------------------------------------------------------
(* alloc_jclass_X.                                                         *)

Calloc(m) ==
  /\ pc[m] = "alloc"
  /\ To(m, "outside", "find")
  /\ heap' = heap \cup {Own(m)}
  /\ ids' = [ids EXCEPT ![Own(m)] = 0]
  /\ UNCHANGED <<vars, victim, pins>>

\* No memory: alloc_jclass_X returns NULL at once.
CallocFails(m) ==
  /\ OutOfMemory
  /\ step[m] = "outside"
  /\ RefuseClass(m)
  /\ UNCHANGED detail

FindClass(m) ==
  /\ idx[m] \in Found
  /\ To(m, "find", "pin")
  /\ UNCHANGED <<vars, victim, heap, pins, ids>>

FindClassFails(m) ==
  /\ idx[m] \notin Found \/ OutOfMemory
  /\ To(m, "find", "unpin")
  /\ UNCHANGED <<vars, victim, heap, pins, ids>>

PinClass(m) ==
  /\ To(m, "pin", "lookup")
  /\ pins' = pins \cup {Own(m)}
  /\ UNCHANGED <<vars, victim, heap, ids>>

PinClassFails(m) ==
  /\ OutOfMemory
  /\ To(m, "pin", "unpin")
  /\ UNCHANGED <<vars, victim, heap, pins, ids>>

\* NULL without an exception: only the exception is looked at.
PinClassUnnoticed(m) ==
  /\ OutOfMemory
  /\ To(m, "pin", "lookup")
  /\ UNCHANGED <<vars, victim, heap, pins, ids>>

\* Slots are left to look up, the next one being n.
NextSlot(m, n) ==
  /\ step[m] = "lookup"
  /\ ids[Own(m)] < Len(Lookups[idx[m]])
  /\ n = Lookups[idx[m]][ids[Own(m)] + 1]

\* Mutant: the generated line fills two slots.
LookupTwice(m) ==
  /\ \E n \in Slots[idx[m]] : NextSlot(m, n) /\ n \in Declared[idx[m]]
  /\ Own(m) \in pins
  /\ ids' = [ids EXCEPT ![Own(m)] = @ + 2]
  /\ UNCHANGED <<vars, step, victim, heap, pins>>

\* GetFieldID, GetMethodID or GetStaticMethodID.
Lookup(m) ==
  /\ \E n \in Slots[idx[m]] : NextSlot(m, n) /\ n \in Declared[idx[m]]
  /\ Own(m) \in pins
  /\ ids' = [ids EXCEPT ![Own(m)] = @ + 1]
  /\ UNCHANGED <<vars, step, victim, heap, pins>>

LookupFails(m) ==
  /\ \E n \in Slots[idx[m]] :
       NextSlot(m, n) /\ (n \notin Declared[idx[m]] \/ OutOfMemory)
  /\ Own(m) \in pins
  /\ To(m, "lookup", "unpin")
  /\ UNCHANGED <<vars, victim, heap, pins, ids>>

\* A lookup in the class NULL.
LookupInNull(m) ==
  /\ step[m] = "lookup"
  /\ Own(m) \notin pins
  /\ AllocClassUnnoticed(m)
  /\ UNCHANGED detail

\* Mutant: the structure is returned, and published, one lookup early.
ReturnStructureEarly(m) ==
  /\ To(m, "lookup", "outside")
  /\ Own(m) \in pins
  /\ ids[Own(m)] + 1 >= Len(Lookups[idx[m]])
  /\ PublishClass(m)
  /\ UNCHANGED <<victim, heap, pins, ids>>

\* Every slot is filled: alloc_classes stores the structure.
ReturnStructure(m) ==
  /\ To(m, "lookup", "outside")
  /\ Own(m) \in pins
  /\ ids[Own(m)] = Len(Lookups[idx[m]])
  /\ PublishClass(m)
  /\ UNCHANGED <<victim, heap, pins, ids>>

\* Mutant: the error handler frees the structure and keeps its class pinned.
UnpinForgotten(m) ==
  /\ To(m, "unpin", "discard")
  /\ UNCHANGED <<vars, victim, heap, pins, ids>>

\* The error handler: free_jclass_X on the structure just made, whose class
\* is NULL if it was not pinned.
Unpin(m) ==
  /\ To(m, "unpin", "discard")
  /\ pins' = pins \ {Own(m)}
  /\ UNCHANGED <<vars, victim, heap, ids>>

\* Mutant: the error handler forgets to return: alloc_classes stores what was
\* just freed.
DiscardPublishes(m) ==
  /\ To(m, "discard", "outside")
  /\ heap' = heap \ {Own(m)}
  /\ PublishClass(m)
  /\ UNCHANGED <<victim, pins, ids>>

Discard(m) ==
  /\ To(m, "discard", "outside")
  /\ heap' = heap \ {Own(m)}
  /\ RefuseClass(m)
  /\ UNCHANGED <<victim, pins, ids>>

-----------------------------------------------------------------------------
(* free_jclass_X, from free_classes.                                       *)

DeleteClassRef(m) ==
  /\ classPtr[idx[m]] # NULL
  /\ To(m, "outside", "free")
  /\ FreeClass(m)
  /\ victim' = [victim EXCEPT ![m] = classPtr[idx[m]]]
  /\ pins' = pins \ {<<classPtr[idx[m]], idx[m]>>}
  /\ UNCHANGED <<heap, ids>>

\* Mutant: the class is unpinned but its structure is not freed.
FreeStructureForgotten(m) ==
  /\ To(m, "free", "outside")
  /\ victim' = [victim EXCEPT ![m] = NULL]
  /\ UNCHANGED <<vars, heap, pins, ids>>

FreeStructure(m) ==
  /\ To(m, "free", "outside")
  /\ heap' = heap \ {Victim(m)}
  /\ ub' = (Victim(m) \notin heap)
  /\ victim' = [victim EXCEPT ![m] = NULL]
  /\ UNCHANGED <<boot, world, worker, overlapped, served, unnoticed, pins,
                 ids>>

SkipClass(m) ==
  /\ classPtr[idx[m]] = NULL
  /\ FreeClass(m)
  /\ UNCHANGED detail

StoreNull(m) ==
  /\ step[m] = "outside"
  /\ NullClass(m)
  /\ UNCHANGED detail

-----------------------------------------------------------------------------

BindingStep(m) ==
  \/ Calloc(m)
  \/ CallocFails(m)
  \/ FindClass(m)
  \/ FindClassFails(m)
  \/ PinClass(m)
  \/ PinClassFails(m)
  \/ PinClassUnnoticed(m)
  \/ Lookup(m)
  \/ LookupFails(m)
  \/ LookupInNull(m)
  \/ ReturnStructure(m)
  \/ Unpin(m)
  \/ Discard(m)
  \/ DeleteClassRef(m)
  \/ FreeStructure(m)
  \/ SkipClass(m)
  \/ StoreNull(m)

\* The rest of boot-up and cleanup, as in FuseMount.
OtherStep(m) ==
  /\ \/ RetainFs(m)
     \/ RetainFsFails(m)
     \/ RetainFsUnnoticed(m)
     \/ RetainTg(m)
     \/ RetainTgFails(m)
     \/ RetainTgUnnoticed(m)
     \/ FreeThreadGroup(m)
     \/ NullThreadGroup(m)
     \/ FreeFuseFS(m)
     \/ NullFuseFS(m)
     \/ EndMount(m)
  /\ UNCHANGED detail

DetailNext ==
  /\ ~ub
  /\ \/ \E m \in Mounts : BindingStep(m)
     \/ \E m \in Mounts : OtherStep(m)
     \/ /\ \/ \E m \in Mounts : EnterMount(m)
           \/ \E m \in Mounts : EnterMountFails(m)
           \/ \E m \in Mounts : FuseMainMounts(m)
           \/ \E m \in Mounts : FuseMainReturns(m)
           \/ \E t \in Mounts \X Workers : WorkerStep(t)
        /\ UNCHANGED detail

DetailSpec == DetailInit /\ [][DetailNext]_allVars

\* As in FuseMount: a thread inside mount() keeps running.
DetailFairSpec ==
  /\ DetailSpec
  /\ \A m \in Mounts : WF_allVars(~ub /\ (BindingStep(m) \/ OtherStep(m)))

-----------------------------------------------------------------------------
(* The argument: what each location of alloc_jclass_X and free_jclass_X    *)
(* says about the structure it is at.                                      *)

\* The call that made structure s has finished with it.
Made(s) ==
  /\ pc[s[1]] # "start"
  /\ pc[s[1]] = "alloc" => s[2] < idx[s[1]]

Complete(s) ==
  /\ s \in heap
  /\ s \in pins
  /\ ids[s] = Len(Lookups[s[2]])

\* Inside alloc_jclass_X.
Filling(m) ==
  /\ pc[m] = "alloc"
  /\ Own(m) \in heap
  /\ step[m] \in {"pin", "lookup"} => idx[m] \in Found
  /\ step[m] \in {"find", "pin"} => ids[Own(m)] = 0
  /\ \A i \in 1..ids[Own(m)] : Lookups[idx[m]][i] \in Declared[idx[m]]
  /\ step[m] \in {"unpin", "discard"} => idx[m] \notin Loadable \/ OutOfMemory

\* Inside free_jclass_X, between DeleteGlobalRef and free.
Freeing(m) ==
  /\ pc[m] = "nullCls"
  /\ Victim(m) \in heap \ structs
  /\ Made(Victim(m))
  /\ \A n \in Mounts : step[n] = "free" /\ Victim(n) = Victim(m) => n = m

InAlloc == {"find", "pin", "lookup", "unpin", "discard"}

\* A class reference belongs to a published structure or to one being filled.
Pinned(s) ==
  \/ s \in structs
  \/ \E m \in Mounts : step[m] \in {"lookup", "unpin"} /\ s = Own(m)

Orderly ==
  /\ \A m \in Mounts : step[m] \in InAlloc => Filling(m)
  /\ \A m \in Mounts : step[m] = "free" => Freeing(m)
  /\ \A s \in structs : Complete(s) /\ Made(s)
  /\ \A s \in heap : \/ s \in structs
                     \/ \E m \in Mounts :
                          \/ step[m] \in InAlloc /\ s = Own(m)
                          \/ step[m] = "free" /\ s = Victim(m)
  /\ \A s \in pins : Pinned(s)

-----------------------------------------------------------------------------
(* How far a call is in alloc_jclass_X or free_jclass_X: the steps that are *)
(* left there, the lookups being as many as the class has slots.           *)

Within(m) ==
  LET slots == Len(Lookups[idx[m]])
  IN CASE step[m] = "outside" -> IF pc[m] = "alloc" THEN slots + 6 ELSE 0
       [] step[m] = "find"    -> slots + 5
       [] step[m] = "pin"     -> slots + 4
       [] step[m] = "lookup"  -> slots - ids[Own(m)] + 3
       [] step[m] = "unpin"   -> 2
       [] step[m] = "discard" -> 1
       [] step[m] = "free"    -> 1

\* Where a call is, as far as its own thread determines it.
Position(m) == <<pc[m], idx[m], step[m], ids[Own(m)]>>

-----------------------------------------------------------------------------
(* Properties.                                                             *)

\* What alloc_classes has published and free_classes has not taken down is a
\* live structure, its class is pinned, and every slot of it has been filled:
\* a callback never finds a NULL ID, however many lookups failed before and
\* even if calls of mount() overlap.
PublishedComplete ==
  ~ub =>
    \A s \in structs :
      /\ s \in heap
      /\ s \in pins
      /\ {Lookups[s[2]][i] : i \in 1..ids[s]} = Slots[s[2]]

\* A structure or a global reference that is not published belongs to a call
\* that is inside alloc_jclass_X or free_jclass_X at that moment and will
\* publish or free it: no error path drops one.
NothingDropped ==
  ~ub =>
    \A s \in (heap \cup pins) \ structs :
      \E m \in Mounts :
        \/ step[m] \in InAlloc /\ s = Own(m)
        \/ step[m] = "free" /\ s = Victim(m)

\* Once every call has returned, the C heap and the JVM's table of global
\* references hold nothing of the bindings.
BindingsFreed ==
  ~overlapped /\ ~ub /\ (\A m \in Mounts : ~Active(m)) =>
    heap = {} /\ pins = {}

\* Every step a call of mount() takes brings it nearer its return, whatever
\* has failed and however calls overlap: no error path goes back to a class
\* or a lookup it has done, no cleanup loop visits a class twice, and no other
\* call moves it.
MountAdvances ==
  [][\A m \in Mounts :
       Position(m)' # Position(m) =>
         \/ Remaining(m)' < Remaining(m)
         \/ Remaining(m)' = Remaining(m) /\ Within(m)' < Within(m)]_allVars

\* To the rest of javafs.c, alloc_jclass_X and free_jclass_X are the single
\* steps that FuseMount takes them for.
ImplementsFuseMount == Spec

=============================================================================
