--------------------------- MODULE FuseMountProofs ---------------------------
(***************************************************************************)
(* Proofs about FuseMount, for any number of calls, threads and classes.   *)
(*                                                                         *)
(* The invariant is SoleOwner: while calls of mount() do not overlap, the  *)
(* statics belong to the single active call in step with its place in the  *)
(* code.  TypeOK and SoleOwner are inductive together, and the safety      *)
(* properties of FuseMount follow from them.                               *)
(***************************************************************************)
EXTENDS FuseMount, TLAPS

ConstantAssumptions ==
  /\ NumClasses \in Nat \ {0}
  /\ NULL \notin Mounts
  /\ Boot \in {"jni", "main"}

LEMMA ConstantsOK == ConstantAssumptions
BY NumClassesAssumption, NULLAssumption, BootAssumption
   DEF ConstantAssumptions

\* Every action of FuseMount, by name.
LEMMA NextCases ==
  ASSUME Next,
         NEW P,
         \A m \in Mounts : EnterMount(m) => P,
         \A m \in Mounts : EnterMountFails(m) => P,
         \A m \in Mounts : MountStep(m) => P,
         \A m \in Mounts : AllocClassUnnoticed(m) => P,
         \A m \in Mounts : FuseMainMounts(m) => P,
         \A m \in Mounts : FuseMainReturns(m) => P,
         \A t \in Mounts \X Workers : WorkerStep(t) => P
  PROVE  P
BY DEF Next

-----------------------------------------------------------------------------
(* Type correctness.                                                       *)

LEMMA MountStepType ==
  ASSUME TypeOK, NEW m \in Mounts, MountStep(m)
  PROVE  TypeOK'
<1> USE ConstantsOK DEF ConstantAssumptions, TypeOK, Goto, Locations, Classes, world,
        flags
<1>1. CASE AllocClass(m)
  BY <1>1 DEF AllocClass, PublishClass
<1>2. CASE AllocClassFails(m)
  BY <1>2 DEF AllocClassFails, RefuseClass
<1>3. CASE RetainFs(m)
  BY <1>3 DEF RetainFs, AfterRetainFs
<1>4. CASE RetainFsFails(m)
  BY <1>4 DEF RetainFsFails
<1>5. CASE RetainFsUnnoticed(m)
  BY <1>5 DEF RetainFsUnnoticed, AfterRetainFs
<1>6. CASE RetainTg(m)
  BY <1>6 DEF RetainTg
<1>7. CASE RetainTgFails(m)
  BY <1>7 DEF RetainTgFails
<1>8. CASE RetainTgUnnoticed(m)
  BY <1>8 DEF RetainTgUnnoticed
<1>9. CASE FreeThreadGroup(m)
  BY <1>9 DEF FreeThreadGroup
<1>10. CASE NullThreadGroup(m)
  BY <1>10 DEF NullThreadGroup
<1>11. CASE FreeFuseFS(m)
  BY <1>11 DEF FreeFuseFS
<1>12. CASE NullFuseFS(m)
  BY <1>12 DEF NullFuseFS
<1>13. CASE FreeClass(m)
  <2>1. pc' \in [Mounts -> Locations] /\ idx' \in [Mounts -> Classes]
    <3>1. CASE NextClass(m, "freeCls")
      BY <3>1 DEF NextClass
    <3>2. CASE Goto(m, "freeCls", "nullCls") /\ UNCHANGED idx
      BY <3>2
    <3> QED
      BY <1>13, <3>1, <3>2 DEF FreeClass
  <2>2. structs' \subseteq structs
    BY <1>13 DEF FreeClass, NextClass
  <2>3. ub' \in BOOLEAN
    BY <1>13 DEF FreeClass, NextClass
  <2> QED
    BY <1>13, <2>1, <2>2, <2>3 DEF FreeClass
<1>14. CASE NullClass(m)
  BY <1>14 DEF NullClass, NextClass
<1>15. CASE EndMount(m)
  BY <1>15 DEF EndMount
<1> QED
  BY <1>1, <1>2, <1>3, <1>4, <1>5, <1>6, <1>7, <1>8, <1>9, <1>10, <1>11,
     <1>12, <1>13, <1>14, <1>15 DEF MountStep

LEMMA WorkerStepType ==
  ASSUME TypeOK, NEW t \in Mounts \X Workers, WorkerStep(t)
  PROVE  TypeOK'
<1> USE DEF TypeOK, Begins, boot, world, flags, Idle
<1>1. CASE GetEnv(t)
  BY <1>1 DEF GetEnv
<1>2. CASE GetEnvFails(t)
  BY <1>2 DEF GetEnvFails
<1>3. ASSUME NEW c \in Classes, MakeArguments(t, c) PROVE TypeOK'
  BY <1>3 DEF MakeArguments, ReadClass
<1>4. CASE CallJava(t)
  <2>1. [at |-> "java", fs |-> fuseFS] \in
          [at : {"idle", "env", "object", "java"}, fs : Mounts \cup {NULL}]
    OBVIOUS
  <2>2. worker' \in [Mounts \X Workers ->
                       [at : {"idle", "env", "object", "java"},
                        fs : Mounts \cup {NULL}]]
    BY <1>4, <2>1 DEF CallJava
  <2>3. ub' \in BOOLEAN
    BY <1>4 DEF CallJava
  <2>4. UNCHANGED <<boot, world, overlapped, served, unnoticed>>
    BY <1>4 DEF CallJava
  <2> QED
    BY <2>2, <2>3, <2>4
<1>5. ASSUME NEW c \in Classes, ReadResults(t, c) PROVE TypeOK'
  BY <1>5 DEF ReadResults, ReadClass
<1>6. CASE LeaveCallback(t)
  BY <1>6 DEF LeaveCallback
<1> QED
  BY <1>1, <1>2, <1>3, <1>4, <1>5, <1>6 DEF WorkerStep

LEMMA TypeInit == Init => TypeOK
<1> SUFFICES ASSUME Init PROVE TypeOK
  OBVIOUS
<1>1. Idle \in [at : {"idle", "env", "object", "java"},
                fs : Mounts \cup {NULL}]
  BY DEF Idle
<1>2. worker \in [Mounts \X Workers ->
                    [at : {"idle", "env", "object", "java"},
                     fs : Mounts \cup {NULL}]]
  BY <1>1 DEF Init
<1>3. pc \in [Mounts -> Locations] /\ idx \in [Mounts -> Classes]
  BY ConstantsOK DEF ConstantAssumptions, Init, Locations, Classes
<1>4. classPtr \in [Classes -> Mounts \cup {NULL}]
  BY DEF Init
<1> QED
  BY <1>2, <1>3, <1>4 DEF Init, TypeOK

LEMMA TypeStep == TypeOK /\ [Next]_vars => TypeOK'
<1> SUFFICES ASSUME TypeOK, [Next]_vars PROVE TypeOK'
  OBVIOUS
<1>1. CASE UNCHANGED vars
  BY <1>1 DEF TypeOK, vars, boot, world, flags
<1>2. CASE Next
  <2>1. \A m \in Mounts : EnterMount(m) => TypeOK'
    BY ConstantsOK
       DEF ConstantAssumptions, EnterMount, TypeOK, Goto, Locations, Classes
  <2>2. \A m \in Mounts : EnterMountFails(m) => TypeOK'
    BY DEF EnterMountFails, TypeOK, Goto, Locations, world, flags
  <2>3. \A m \in Mounts : FuseMainReturns(m) => TypeOK'
    BY DEF FuseMainReturns, TypeOK, Goto, Locations, world, flags
  <2>4. \A m \in Mounts : AllocClassUnnoticed(m) => TypeOK'
    BY DEF AllocClassUnnoticed, TypeOK, boot, world
  <2>5. \A m \in Mounts : FuseMainMounts(m) => TypeOK'
    BY DEF FuseMainMounts, TypeOK, boot, world
  <2> QED
    BY <1>2, <2>1, <2>2, <2>3, <2>4, <2>5, MountStepType, WorkerStepType,
       NextCases
<1> QED
  BY <1>1, <1>2

\* Every reachable state is of the declared type.
THEOREM TypeCorrect == Spec => []TypeOK
BY TypeInit, TypeStep, PTL DEF Spec

-----------------------------------------------------------------------------
(* Ownership of the statics.                                               *)

LEMMA ActiveType ==
  ASSUME TypeOK, NEW m \in Mounts
  PROVE  /\ idx[m] \in Classes
         /\ pc[m] \in Locations
         /\ m # NULL
BY ConstantsOK DEF ConstantAssumptions, TypeOK

\* A step of a call that is active and keeps, or hands back, what it owns.
LEMMA OwnerSteps ==
  ASSUME TypeOK, SoleOwner, ~overlapped, ~overlapped',
         NEW m \in Mounts, Active(m),
         NEW to, pc' = [pc EXCEPT ![m] = to],
         Active(m)' => Owns(m)',
         ~Active(m)' => Pristine' /\ NothingHeld',
         UNCHANGED worker, ~ub, ~ub',
         to # "loop" => \A w \in Workers : worker[<<m, w>>].at = "idle"
  PROVE  SoleOwner'
<1>1. \A n \in Mounts : Active(n) => n = m
  BY DEF SoleOwner
<1>2. \A n \in Mounts : Active(n)' => n = m
  BY <1>1 DEF TypeOK, Active
<1>3. CallbacksInLoop'
  BY DEF SoleOwner, CallbacksInLoop, TypeOK
<1>4. \A n \in Mounts : Active(n)' => Owns(n)'
  BY <1>2
<1>5. (\A n \in Mounts : ~Active(n)') => Pristine' /\ NothingHeld'
  OBVIOUS
<1> QED
  BY <1>2, <1>3, <1>4, <1>5 DEF SoleOwner

\* Outside fuse_main a call has no callbacks.
LEMMA NoCallbacks ==
  ASSUME SoleOwner, ~overlapped, NEW m \in Mounts, pc[m] # "loop"
  PROVE  \A w \in Workers : worker[<<m, w>>].at = "idle"
BY DEF SoleOwner, CallbacksInLoop

LEMMA AllocOwns ==
  ASSUME TypeOK, SoleOwner, ~overlapped, NEW m \in Mounts, Active(m),
         AllocClass(m) \/ AllocClassFails(m)
  PROVE  Owns(m)'
<1> USE ActiveType, ConstantsOK DEF ConstantAssumptions, Goto, Classes
<1>0. Owns(m) /\ pc[m] = "alloc"
  BY DEF SoleOwner, AllocClass, PublishClass, AllocClassFails, RefuseClass
<1>1. CASE AllocClass(m)
  <2>1. ClassesOf(m)'
    BY <1>0, <1>1 DEF Owns, ClassesOf, AllocClass, PublishClass, TypeOK
  <2>2. StructsOf(m)'
    <3>1. /\ structs' = structs \cup {<<m, idx[m]>>}
          /\ classPtr' = [classPtr EXCEPT ![idx[m]] = m]
          /\ pc'[m] # "nullCls"
      BY <1>1 DEF AllocClass, PublishClass, TypeOK
    <3> SUFFICES ASSUME NEW n \in Mounts, NEW c \in Classes
                 PROVE  <<n, c>> \in structs' <=> n = m /\ classPtr'[c] = m
      BY <3>1 DEF StructsOf, Classes
    <3>2. <<n, c>> \in structs <=> n = m /\ classPtr[c] = m
      BY <1>0 DEF Owns, StructsOf, Classes
    <3>3. classPtr[idx[m]] # m
      BY <1>0 DEF Owns, ClassesOf, TypeOK
    <3>4. CASE c = idx[m]
      BY <3>1, <3>2, <3>3, <3>4 DEF TypeOK
    <3>5. CASE c # idx[m]
      <4>1. classPtr'[c] = classPtr[c]
        BY <3>1, <3>5 DEF TypeOK
      <4>2. <<n, c>> # <<m, idx[m]>>
        BY <3>5
      <4> QED
        BY <3>1, <3>2, <4>1, <4>2
    <3> QED
      BY <3>4, <3>5
  <2>3. vm' /\ FsOf(m)' /\ TgOf(m)'
    BY <1>0, <1>1 DEF Owns, FsOf, TgOf, AllocClass, PublishClass, TypeOK, flags
  <2> QED
    BY <2>1, <2>2, <2>3 DEF Owns
<1>2. CASE AllocClassFails(m)
  <2>1. ClassesOf(m)'
    BY <1>0, <1>2 DEF Owns, ClassesOf, AllocClassFails, RefuseClass, TypeOK
  <2>2. StructsOf(m)'
    <3>1. UNCHANGED <<classPtr, structs>> /\ pc'[m] = "freeCls"
      BY <1>0, <1>2 DEF Owns, ClassesOf, AllocClassFails, RefuseClass, TypeOK
    <3> QED
      BY <1>0, <3>1 DEF Owns, StructsOf
  <2>3. vm' /\ FsOf(m)' /\ TgOf(m)'
    BY <1>0, <1>2 DEF Owns, FsOf, TgOf, AllocClassFails, RefuseClass, TypeOK, flags
  <2> QED
    BY <2>1, <2>2, <2>3 DEF Owns
<1> QED
  BY <1>1, <1>2

LEMMA RetainOwns ==
  ASSUME TypeOK, SoleOwner, ~overlapped, NEW m \in Mounts, Active(m),
         \/ RetainFs(m) \/ RetainFsFails(m) \/ RetainFsUnnoticed(m)
         \/ RetainTg(m) \/ RetainTgFails(m) \/ RetainTgUnnoticed(m)
  PROVE  Owns(m)'
<1> USE ActiveType
<1>0. Owns(m)
  BY DEF SoleOwner
<1>1. /\ pc[m] \in {"retainFs", "retainTg"}
      /\ pc'[m] \in {"retainTg", "loop", "freeFs", "freeCls"}
      /\ pc'[m] # "freeCls" \/ pc[m] = "retainFs"
      /\ UNCHANGED <<idx, vm, classPtr, structs>>
  BY DEF RetainFs, RetainFsFails, RetainFsUnnoticed, RetainTg, RetainTgFails,
         RetainTgUnnoticed, AfterRetainFs, Goto, TypeOK
<1>2. ClassesOf(m)'
  BY <1>0, <1>1, ConstantsOK
     DEF Owns, ClassesOf, Classes, ConstantAssumptions
<1>3. StructsOf(m)'
  BY <1>0, <1>1 DEF Owns, StructsOf
<1>4. FsOf(m)' /\ TgOf(m)'
  <2> USE <1>0, <1>1 DEF Owns, FsOf, TgOf
  <2>1. CASE RetainFs(m)
    <3>1. fuseFS' = m /\ fsRefs' = {m} /\ UNCHANGED <<threadGroup, tgRefs>>
      BY <2>1 DEF RetainFs, Goto, TypeOK
    <3>2. /\ pc[m] = "retainFs" /\ pc'[m] \in {"retainTg", "loop"}
          /\ pc'[m] = "retainTg" => Boot = "jni"
      BY <2>1 DEF RetainFs, AfterRetainFs, Goto, TypeOK
    <3> QED
      BY <3>1, <3>2
  <2>2. CASE RetainFsFails(m)
    BY <2>2 DEF RetainFsFails, Goto, TypeOK, flags
  <2>3. CASE RetainFsUnnoticed(m)
    BY <2>3 DEF RetainFsUnnoticed, AfterRetainFs, Goto, TypeOK
  <2>4. CASE RetainTg(m)
    <3>1. /\ threadGroup' = m /\ tgRefs' = {m}
          /\ UNCHANGED <<fuseFS, fsRefs, unnoticed>>
      BY <2>4 DEF RetainTg, Goto, TypeOK, flags
    <3>2. pc[m] = "retainTg" /\ pc'[m] = "loop"
      BY <2>4 DEF RetainTg, Goto, TypeOK
    <3> QED
      BY <3>1, <3>2
  <2>5. CASE RetainTgFails(m)
    BY <2>5 DEF RetainTgFails, Goto, TypeOK, flags
  <2>6. CASE RetainTgUnnoticed(m)
    BY <2>6 DEF RetainTgUnnoticed, Goto, TypeOK, flags
  <2> QED
    BY <2>1, <2>2, <2>3, <2>4, <2>5, <2>6
<1> QED
  BY <1>0, <1>1, <1>2, <1>3, <1>4 DEF Owns

LEMMA ReleaseOwns ==
  ASSUME TypeOK, SoleOwner, ~overlapped, NEW m \in Mounts, Active(m),
         \/ FuseMainReturns(m) \/ FreeThreadGroup(m) \/ NullThreadGroup(m)
         \/ FreeFuseFS(m) \/ NullFuseFS(m),
         ~ub
  PROVE  Owns(m)' /\ ~ub'
<1> USE ActiveType
<1>0. Owns(m)
  BY DEF SoleOwner
<1>1. /\ pc[m] \in {"loop", "freeTg", "nullTg", "freeFs", "nullFs"}
      /\ pc'[m] \in {"freeTg", "nullTg", "freeFs", "nullFs", "freeCls"}
      /\ UNCHANGED <<idx, vm, classPtr, structs>>
  BY DEF FuseMainReturns, FreeThreadGroup, NullThreadGroup, FreeFuseFS,
         NullFuseFS, Goto, TypeOK, world
<1>2. ClassesOf(m)'
  BY <1>0, <1>1, ConstantsOK
     DEF Owns, ClassesOf, Classes, ConstantAssumptions
<1>3. StructsOf(m)'
  BY <1>0, <1>1 DEF Owns, StructsOf
<1>4. FsOf(m)' /\ TgOf(m)' /\ ~ub'
  <2> USE <1>0, <1>1 DEF Owns, FsOf, TgOf
  <2>1. CASE FuseMainReturns(m)
    <3>1. /\ pc[m] = "loop" /\ pc'[m] \in {"freeTg", "freeFs"}
          /\ pc'[m] = "freeFs" => Boot # "jni"
      BY <2>1 DEF FuseMainReturns, Goto, TypeOK
    <3>2. UNCHANGED <<fuseFS, fsRefs, threadGroup, tgRefs, unnoticed, ub>>
      BY <2>1 DEF FuseMainReturns, world, flags
    <3> QED
      BY <3>1, <3>2
  <2>2. CASE FreeThreadGroup(m)
    <3>1. FsOf(m)'
      <4>1. /\ pc[m] = "freeTg" /\ pc'[m] \in {"nullTg", "freeFs"}
            /\ UNCHANGED <<fuseFS, fsRefs, unnoticed>>
        BY <2>2 DEF FreeThreadGroup, Goto, TypeOK
      <4> QED
        BY <4>1
    <3>2. CASE threadGroup = NULL
      BY <2>2, <3>1, <3>2 DEF FreeThreadGroup, Goto, TypeOK
    <3>3. CASE threadGroup = m
      <4>1. tgRefs = {m} /\ pc'[m] = "nullTg" /\ tgRefs' = tgRefs \ {m}
        BY <2>2, <3>3 DEF FreeThreadGroup, Goto, TypeOK
      <4>2. tgRefs' = {} /\ ~ub' /\ threadGroup' = m
        BY <2>2, <3>3, <4>1 DEF FreeThreadGroup
      <4> QED
        BY <3>1, <4>1, <4>2
    <3> QED
      BY <3>2, <3>3
  <2>3. CASE NullThreadGroup(m)
    BY <2>3 DEF NullThreadGroup, Goto, TypeOK, flags
  <2>4. CASE FreeFuseFS(m)
    BY <2>4 DEF FreeFuseFS, Goto, TypeOK
  <2>5. CASE NullFuseFS(m)
    BY <2>5 DEF NullFuseFS, Goto, TypeOK, flags
  <2> QED
    BY <2>1, <2>2, <2>3, <2>4, <2>5
<1> QED
  BY <1>0, <1>1, <1>2, <1>3, <1>4 DEF Owns

LEMMA FreeClassOwns ==
  ASSUME TypeOK, SoleOwner, ~overlapped, NEW m \in Mounts, Active(m),
         FreeClass(m) \/ NullClass(m), ~ub
  PROVE  Owns(m)' /\ ~ub'
<1> USE ActiveType, ConstantsOK DEF ConstantAssumptions
<1>0. Owns(m)
  BY DEF SoleOwner
<1>1. FsOf(m)' /\ TgOf(m)' /\ vm'
  BY <1>0
     DEF Owns, FsOf, TgOf, FreeClass, NullClass, NextClass, Goto, TypeOK, flags
<1>2. CASE NextClass(m, "freeCls") /\ classPtr[idx[m]] = NULL
           /\ UNCHANGED <<classPtr, structs, ub>>
  <2>1. ClassesOf(m)'
    BY <1>0, <1>2 DEF Owns, ClassesOf, NextClass, Goto, TypeOK, Classes
  <2>2. pc[m] = "freeCls" /\ pc'[m] # "nullCls"
    BY <1>2 DEF NextClass, Goto, TypeOK
  <2>3. StructsOf(m)'
    BY <1>0, <1>2, <2>2 DEF Owns, StructsOf
  <2> QED
    BY <1>1, <1>2, <2>1, <2>3 DEF Owns
<1>3. CASE FreeClass(m) /\ classPtr[idx[m]] # NULL
  <2>1. /\ pc[m] = "freeCls" /\ pc'[m] = "nullCls"
        /\ UNCHANGED <<idx, classPtr>>
        /\ classPtr[idx[m]] = m
    BY <1>0, <1>3 DEF FreeClass, NextClass, Goto, TypeOK, Owns, ClassesOf
  <2>2. ClassesOf(m)'
    BY <1>0, <2>1 DEF Owns, ClassesOf, Classes
  <2>3. structs' = structs \ {<<m, idx[m]>>} /\ (ub' = (<<m, idx[m]>> \notin structs))
    BY <1>3, <2>1 DEF FreeClass
  <2>4. <<m, idx[m]>> \in structs
    BY <1>0, <2>1 DEF Owns, StructsOf
  <2>5. StructsOf(m)'
    <3> SUFFICES ASSUME NEW n \in Mounts, NEW c \in Classes
                 PROVE  <<n, c>> \in structs' <=>
                          n = m /\ classPtr[c] = m /\ c # idx[m]
      BY <2>1 DEF StructsOf, Classes
    <3>1. <<n, c>> \in structs <=> n = m /\ classPtr[c] = m
      BY <1>0, <2>1 DEF Owns, StructsOf, Classes
    <3>2. <<n, c>> = <<m, idx[m]>> <=> n = m /\ c = idx[m]
      OBVIOUS
    <3> QED
      BY <2>3, <3>1, <3>2
  <2> QED
    BY <1>1, <2>2, <2>3, <2>4, <2>5 DEF Owns
<1>4. CASE NullClass(m)
  <2>1. /\ pc[m] = "nullCls" /\ pc'[m] \in {"freeCls", "end"}
        /\ classPtr' = [classPtr EXCEPT ![idx[m]] = NULL]
        /\ UNCHANGED <<structs, ub>>
    BY <1>4 DEF NullClass, NextClass, Goto, TypeOK, flags
  <2>2. ClassesOf(m)'
    BY <1>0, <1>4, <2>1
       DEF Owns, ClassesOf, NullClass, NextClass, Goto, TypeOK, Classes
  <2>3. StructsOf(m)'
    <3> SUFFICES ASSUME NEW n \in Mounts, NEW c \in Classes
                 PROVE  <<n, c>> \in structs <=> n = m /\ classPtr'[c] = m
      BY <2>1 DEF StructsOf, Classes
    <3>1. <<n, c>> \in structs <=> n = m /\ classPtr[c] = m /\ c # idx[m]
      BY <1>0, <2>1 DEF Owns, StructsOf, Classes
    <3>2. classPtr'[c] = IF c = idx[m] THEN NULL ELSE classPtr[c]
      BY <2>1 DEF TypeOK
    <3> QED
      BY <3>1, <3>2
  <2> QED
    BY <1>1, <2>1, <2>2, <2>3 DEF Owns
<1> QED
  BY <1>2, <1>3, <1>4 DEF FreeClass
LEMMA EndMountClean ==
  ASSUME TypeOK, SoleOwner, ~overlapped, NEW m \in Mounts, Active(m),
         EndMount(m)
  PROVE  Pristine' /\ NothingHeld'
<1>1. Owns(m) /\ pc[m] = "end"
  BY DEF SoleOwner, EndMount, Goto
<1>2. structs = {}
  <2> SUFFICES ASSUME NEW n \in Mounts, NEW c \in Classes,
                      <<n, c>> \in structs
               PROVE  FALSE
    BY DEF TypeOK
  <2>1. classPtr[c] = m
    BY <1>1 DEF Owns, StructsOf
  <2> QED
    BY <1>1, <2>1, ActiveType DEF Owns, ClassesOf
<1>3. fsRefs = {} /\ tgRefs = {} /\ fuseFS = NULL /\ threadGroup = NULL
  BY <1>1, ActiveType DEF Owns, FsOf, TgOf
<1>4. \A c \in Classes : classPtr[c] = NULL
  BY <1>1 DEF Owns, ClassesOf
<1> QED
  BY <1>2, <1>3, <1>4 DEF EndMount, Pristine, NothingHeld

\* The step of a call keeps SoleOwner and is not undefined.
LEMMA MountStepOwner ==
  ASSUME TypeOK, SoleOwner, ~overlapped, ~ub, NEW m \in Mounts,
         MountStep(m) \/ FuseMainReturns(m)
  PROVE  SoleOwner' /\ ~ub'
<1>0. PICK to : pc' = [pc EXCEPT ![m] = to]
  BY DEF MountStep, FuseMainReturns, AllocClass, PublishClass, AllocClassFails,
         RefuseClass, RetainFs,
         RetainFsFails, RetainFsUnnoticed, RetainTg, RetainTgFails,
         RetainTgUnnoticed, FreeThreadGroup, NullThreadGroup, FreeFuseFS,
         NullFuseFS, FreeClass, NullClass, EndMount, NextClass, Goto
<1>1. Active(m) /\ UNCHANGED <<worker, overlapped>>
  BY DEF MountStep, FuseMainReturns, AllocClass, PublishClass, AllocClassFails,
         RefuseClass, RetainFs,
         RetainFsFails, RetainFsUnnoticed, RetainTg, RetainTgFails,
         RetainTgUnnoticed, FreeThreadGroup, NullThreadGroup, FreeFuseFS,
         NullFuseFS, FreeClass, NullClass, EndMount, NextClass, Goto,
         Active, flags
<1>2. \A w \in Workers : worker[<<m, w>>].at = "idle"
  <2>1. CASE FuseMainReturns(m)
    BY <2>1 DEF FuseMainReturns
  <2>2. CASE MountStep(m)
    <3>1. pc[m] # "loop"
      BY <2>2
         DEF MountStep, AllocClass, PublishClass, AllocClassFails, RefuseClass,
             RetainFs, RetainFsFails,
             RetainFsUnnoticed, RetainTg, RetainTgFails, RetainTgUnnoticed,
             FreeThreadGroup, NullThreadGroup, FreeFuseFS, NullFuseFS,
             FreeClass, NullClass, EndMount, NextClass, Goto
    <3> QED
      BY <3>1, NoCallbacks
  <2> QED
    BY <2>1, <2>2
<1>3. CASE EndMount(m)
  <2>1. ~Active(m)' /\ ~ub'
    BY <1>3 DEF EndMount, Goto, TypeOK, Active, flags
  <2> QED
    BY <1>0, <1>1, <1>2, <1>3, <2>1, EndMountClean, OwnerSteps
<1>4. CASE ~EndMount(m)
  <2>1. Owns(m)' /\ ~ub'
    <3>1. CASE \/ AllocClass(m) \/ AllocClassFails(m)
      BY <1>1, <3>1, AllocOwns
         DEF AllocClass, PublishClass, AllocClassFails, RefuseClass, flags
    <3>2. CASE \/ RetainFs(m) \/ RetainFsFails(m) \/ RetainFsUnnoticed(m)
               \/ RetainTg(m) \/ RetainTgFails(m) \/ RetainTgUnnoticed(m)
      <4>1. Owns(m)'
        BY <1>1, <3>2, RetainOwns
      <4>2. UNCHANGED ub
        BY <3>2
           DEF RetainFs, RetainFsFails, RetainFsUnnoticed, RetainTg,
               RetainTgFails, RetainTgUnnoticed, flags
      <4> QED
        BY <4>1, <4>2
    <3>3. CASE \/ FuseMainReturns(m) \/ FreeThreadGroup(m)
               \/ NullThreadGroup(m) \/ FreeFuseFS(m) \/ NullFuseFS(m)
      BY <1>1, <3>3, ReleaseOwns
    <3>4. CASE FreeClass(m) \/ NullClass(m)
      BY <1>1, <3>4, FreeClassOwns
    <3> QED
      BY <1>4, <3>1, <3>2, <3>3, <3>4 DEF MountStep
  <2>2. Active(m)'
    BY <1>4
       DEF MountStep, FuseMainReturns, AllocClass, PublishClass, AllocClassFails,
         RefuseClass, RetainFs,
           RetainFsFails, RetainFsUnnoticed, RetainTg, RetainTgFails,
           RetainTgUnnoticed, FreeThreadGroup, NullThreadGroup, FreeFuseFS,
           NullFuseFS, FreeClass, NullClass, AfterRetainFs, NextClass,
           Goto, TypeOK, Active
  <2> QED
    BY <1>0, <1>1, <1>2, <2>1, <2>2, OwnerSteps
<1> QED
  BY <1>3, <1>4
\* A call begins while no other is active: it finds everything as Init left
\* it.
LEMMA EnterMountOwner ==
  ASSUME TypeOK, SoleOwner, ~overlapped', ~ub, NEW m \in Mounts, EnterMount(m)
  PROVE  SoleOwner' /\ ~ub'
<1>1. /\ ~overlapped
      /\ \A n \in Mounts : ~Active(n)
      /\ UNCHANGED <<classPtr, fuseFS, threadGroup, structs, fsRefs, tgRefs,
                     worker, ub>>
      /\ vm'
  BY DEF EnterMount
<1>2. Pristine /\ NothingHeld
  BY <1>1 DEF SoleOwner
<1>3. /\ pc'[m] = "alloc" /\ idx'[m] = 1
      /\ \A n \in Mounts : n # m => pc'[n] = pc[n]
  BY DEF EnterMount, Goto, TypeOK
<1>4. Owns(m)'
  <2> USE <1>1, <1>2, <1>3, ActiveType DEF Pristine, NothingHeld
  <2>1. ClassesOf(m)'
    BY DEF ClassesOf, Classes
  <2>2. StructsOf(m)'
    BY DEF StructsOf
  <2>3. FsOf(m)' /\ TgOf(m)'
    BY DEF FsOf, TgOf
  <2> QED
    BY <2>1, <2>2, <2>3 DEF Owns
<1>5. \A n \in Mounts : Active(n)' <=> n = m
  BY <1>1, <1>3 DEF Active
<1>6. \A n \in Mounts, w \in Workers : worker[<<n, w>>].at = "idle"
  BY <1>1 DEF SoleOwner, CallbacksInLoop, Active
<1>7. CallbacksInLoop'
  BY <1>1, <1>6 DEF CallbacksInLoop
<1> QED
  BY <1>1, <1>4, <1>5, <1>7 DEF SoleOwner

\* A callback changes nothing but its own thread, and is not undefined unless
\* a failure went unnoticed.
LEMMA WorkerStepOwner ==
  ASSUME TypeOK, SoleOwner, ~overlapped, ~ub,
         NEW t \in Mounts \X Workers, WorkerStep(t)
  PROVE  SoleOwner' /\ (ub' => unnoticed')
<1>1. PICK m \in Mounts, w \in Workers : t = <<m, w>>
  OBVIOUS
<1>2. pc[m] = "loop" /\ UNCHANGED <<boot, world, overlapped>>
  BY <1>1
     DEF WorkerStep, GetEnv, GetEnvFails, MakeArguments, CallJava, ReadResults,
         LeaveCallback, Begins, SoleOwner, CallbacksInLoop, flags
<1>3. Active(m) /\ Owns(m)
  BY <1>2 DEF Active, SoleOwner
<1>4. unnoticed => unnoticed'
  BY DEF WorkerStep, GetEnv, GetEnvFails, MakeArguments, CallJava, ReadResults,
         LeaveCallback, flags
<1>5. \A n \in Mounts : Active(n)' = Active(n) /\ (Owns(n) => Owns(n)')
  BY <1>2, <1>4
     DEF boot, world, Active, Owns, ClassesOf, StructsOf, FsOf, TgOf
<1>6. ub' => unnoticed'
  <2>1. \A c \in Classes : <<classPtr[c], c>> \in structs
    BY <1>2, <1>3 DEF Owns, ClassesOf, StructsOf
  <2>2. CASE GetEnv(t)
    BY <1>2, <1>3, <2>2, ActiveType DEF GetEnv, Owns, TgOf
  <2>3. CASE GetEnvFails(t)
    BY <2>3 DEF GetEnvFails
  <2>4. CASE \E c \in Classes : MakeArguments(t, c) \/ ReadResults(t, c)
    BY <2>1, <2>4 DEF MakeArguments, ReadResults, ReadClass
  <2>5. CASE CallJava(t)
    BY <1>2, <1>3, <1>4, <2>5 DEF CallJava, Owns, FsOf
  <2>6. CASE LeaveCallback(t)
    BY <2>6 DEF LeaveCallback, flags
  <2> QED
    BY <2>2, <2>3, <2>4, <2>5, <2>6 DEF WorkerStep
<1>7. CallbacksInLoop'
  <2> SUFFICES ASSUME NEW n \in Mounts, NEW v \in Workers
               PROVE  /\ worker'[<<n, v>>].at # "idle" => pc'[n] = "loop"
                      /\ worker'[<<n, v>>].at = "java" =>
                           worker'[<<n, v>>].fs = n \/ ub'
    BY DEF CallbacksInLoop
  <2>1. CASE <<n, v>> # t
    <3>1. worker'[<<n, v>>] = worker[<<n, v>>]
      BY <2>1
         DEF WorkerStep, GetEnv, GetEnvFails, MakeArguments, CallJava,
             ReadResults, LeaveCallback, Begins, TypeOK
    <3> QED
      BY <1>2, <3>1 DEF boot, SoleOwner, CallbacksInLoop
  <2>2. CASE <<n, v>> = t
    <3>1. pc'[n] = "loop"
      BY <1>1, <1>2, <2>2 DEF boot
    <3>2. CASE CallJava(t)
      <4>1. worker'[t].fs = fuseFS /\ (ub' <=> fuseFS \notin fsRefs)
        BY <3>2 DEF CallJava, TypeOK
      <4>2. fuseFS \in fsRefs => fuseFS = m
        BY <1>3 DEF Owns, FsOf
      <4> QED
        BY <1>1, <2>2, <3>1, <4>1, <4>2
    <3>3. CASE \E c \in Classes : ReadResults(t, c)
      <4>1. worker' = worker /\ worker[t].fs = n
        BY <1>1, <2>2, <3>3 DEF ReadResults, SoleOwner, CallbacksInLoop
      <4> QED
        BY <2>2, <3>1, <4>1
    <3>4. CASE \/ GetEnv(t) \/ GetEnvFails(t) \/ LeaveCallback(t)
               \/ \E c \in Classes : MakeArguments(t, c)
      <4>1. worker'[t].at # "java"
        BY <3>4
           DEF GetEnv, GetEnvFails, MakeArguments, LeaveCallback, Begins,
               TypeOK, Idle
      <4> QED
        BY <2>2, <3>1, <4>1
    <3> QED
      BY <3>2, <3>3, <3>4 DEF WorkerStep
  <2> QED
    BY <2>1, <2>2
<1> QED
  BY <1>2, <1>5, <1>7, <1>6
     DEF SoleOwner, Pristine, NothingHeld, world
-----------------------------------------------------------------------------
(* The theorems.                                                           *)

IInv == TypeOK /\ SoleOwner /\ UndefinedOnlyByOverlap

LEMMA InitIInv ==
  ASSUME Init
  PROVE  SoleOwner /\ UndefinedOnlyByOverlap
BY DEF Init, SoleOwner, UndefinedOnlyByOverlap, Active, Pristine, NothingHeld,
       CallbacksInLoop, Idle

LEMMA NextIInv ==
  ASSUME TypeOK, IInv, Next
  PROVE  SoleOwner' /\ UndefinedOnlyByOverlap'
<1>0. ~ub
  BY DEF Next
<1>1. overlapped => overlapped'
  BY DEF Next, EnterMount, EnterMountFails, MountStep, FuseMainReturns,
         AllocClass, PublishClass, AllocClassFails, RefuseClass,
             RetainFs, RetainFsFails,
         RetainFsUnnoticed, RetainTg, RetainTgFails, RetainTgUnnoticed,
         FreeThreadGroup, NullThreadGroup, FreeFuseFS, NullFuseFS, FreeClass,
         NullClass, EndMount, AllocClassUnnoticed, FuseMainMounts,
         WorkerStep, GetEnv, GetEnvFails, MakeArguments, CallJava, ReadResults, LeaveCallback,
         flags
<1>2. CASE overlapped'
  BY <1>2 DEF SoleOwner, UndefinedOnlyByOverlap
<1>3. CASE ~overlapped'
  <2>1. ASSUME NEW m \in Mounts, EnterMount(m)
        PROVE  SoleOwner' /\ UndefinedOnlyByOverlap'
    BY <1>0, <1>3, <2>1, EnterMountOwner DEF IInv, UndefinedOnlyByOverlap
  <2>2. ASSUME NEW m \in Mounts, EnterMountFails(m)
        PROVE  SoleOwner' /\ UndefinedOnlyByOverlap'
    <3>1. UNCHANGED <<idx, world, worker, flags>>
      BY <2>2 DEF EnterMountFails
    <3>2. \A n \in Mounts : /\ Active(n)' = Active(n)
                            /\ Active(n) => pc'[n] = pc[n]
      BY <2>2 DEF EnterMountFails, Goto, TypeOK, Active
    <3>3. \A n \in Mounts : Active(n) /\ Owns(n) => Owns(n)'
      BY <3>1, <3>2
         DEF Owns, ClassesOf, StructsOf, FsOf, TgOf, world, flags
    <3>4. CallbacksInLoop => CallbacksInLoop'
      BY <3>1, <3>2 DEF CallbacksInLoop, Active, flags
    <3> QED
      BY <1>0, <1>1, <1>3, <3>1, <3>2, <3>3, <3>4
         DEF IInv, SoleOwner, UndefinedOnlyByOverlap, Pristine, NothingHeld,
             world, flags
  <2>3. ASSUME NEW m \in Mounts, MountStep(m) \/ FuseMainReturns(m)
        PROVE  SoleOwner' /\ UndefinedOnlyByOverlap'
    BY <1>0, <1>1, <1>3, <2>3, MountStepOwner DEF IInv, UndefinedOnlyByOverlap
  <2>4. ASSUME NEW t \in Mounts \X Workers, WorkerStep(t)
        PROVE  SoleOwner' /\ UndefinedOnlyByOverlap'
    BY <1>0, <1>1, <1>3, <2>4, WorkerStepOwner DEF IInv, UndefinedOnlyByOverlap
  <2>5. ASSUME NEW m \in Mounts, AllocClassUnnoticed(m)
        PROVE  SoleOwner' /\ UndefinedOnlyByOverlap'
    <3>1. UNCHANGED <<boot, world, worker, overlapped>> /\ unnoticed'
      BY <2>5 DEF AllocClassUnnoticed
    <3>2. \A n \in Mounts : /\ Active(n)' = Active(n)
                            /\ Owns(n) => Owns(n)'
      BY <3>1 DEF boot, world, Active, Owns, ClassesOf, StructsOf, FsOf, TgOf
    <3>3. CallbacksInLoop => CallbacksInLoop'
      BY <1>0, <3>1 DEF CallbacksInLoop, boot
    <3> QED
      BY <1>1, <1>3, <3>1, <3>2, <3>3
         DEF IInv, SoleOwner, UndefinedOnlyByOverlap, Pristine, NothingHeld,
             world
  <2>6. ASSUME NEW m \in Mounts, FuseMainMounts(m)
        PROVE  SoleOwner' /\ UndefinedOnlyByOverlap'
    <3>1. UNCHANGED <<boot, world, worker, overlapped, unnoticed, ub>>
      BY <2>6 DEF FuseMainMounts
    <3>2. \A n \in Mounts : /\ Active(n)' = Active(n)
                            /\ Owns(n)' = Owns(n)
      BY <3>1 DEF boot, world, Active, Owns, ClassesOf, StructsOf, FsOf, TgOf
    <3>3. CallbacksInLoop' = CallbacksInLoop
      BY <3>1 DEF CallbacksInLoop, boot
    <3> QED
      BY <3>1, <3>2, <3>3
         DEF IInv, SoleOwner, UndefinedOnlyByOverlap, Pristine, NothingHeld,
             world
  <2> QED
    BY <2>1, <2>2, <2>3, <2>4, <2>5, <2>6 DEF Next
<1> QED
  BY <1>2, <1>3

LEMMA Invariance == Spec => []IInv
<1>1. Init /\ TypeOK => IInv
  BY InitIInv DEF IInv
<1>2. IInv /\ TypeOK /\ TypeOK' /\ [Next]_vars => IInv'
  <2> SUFFICES ASSUME IInv, TypeOK, TypeOK', [Next]_vars PROVE IInv'
    OBVIOUS
  <2>1. CASE Next
    BY <2>1, NextIInv DEF IInv
  <2>2. CASE UNCHANGED vars
    BY <2>2
       DEF IInv, vars, boot, world, flags, SoleOwner, UndefinedOnlyByOverlap,
           Active, Owns, ClassesOf, StructsOf, FsOf, TgOf, Pristine,
           NothingHeld, CallbacksInLoop
  <2> QED
    BY <2>1, <2>2
<1> QED
  BY <1>1, <1>2, TypeCorrect, PTL DEF Spec

\* While calls of mount() do not overlap, the statics belong to the one that
\* is active, in step with its place in the code.
THEOREM SoleOwnership == Spec => []SoleOwner
<1>1. IInv => SoleOwner
  BY DEF IInv
<1> QED
  BY <1>1, Invariance, PTL

\* Boot-up, callbacks and cleanup never use a NULL or freed static, as long as
\* calls do not overlap and no JNI failure goes unnoticed.
THEOREM NoUndefinedBehaviour == Spec => []UndefinedOnlyByOverlap
<1>1. IInv => UndefinedOnlyByOverlap
  BY DEF IInv
<1> QED
  BY <1>1, Invariance, PTL

-----------------------------------------------------------------------------
(* What a callback can rely on while it runs.                              *)

\* A step of the calling thread itself is taken outside fuse_main.
LEMMA MountStepPlace ==
  ASSUME NEW m \in Mounts, MountStep(m)
  PROVE  Active(m) /\ pc[m] # "loop"
BY DEF MountStep, AllocClass, PublishClass, AllocClassFails, RefuseClass,
       RetainFs, RetainFsFails, RetainFsUnnoticed, RetainTg, RetainTgFails,
       RetainTgUnnoticed, FreeThreadGroup, NullThreadGroup, FreeFuseFS,
       NullFuseFS, FreeClass, NullClass, EndMount, NextClass, Goto,
       Active

LEMMA StaticsStableStep ==
  ASSUME SoleOwner, ~overlapped', [Next]_vars,
         NEW t \in Mounts \X Workers, worker[t].at # "idle"
  PROVE  UNCHANGED world
<1>1. CASE UNCHANGED vars
  BY <1>1 DEF vars
<1>2. CASE Next
  <2>1. CASE overlapped
    BY <1>2, <2>1
       DEF Next, EnterMount, EnterMountFails, MountStep, FuseMainReturns,
           AllocClass, PublishClass, AllocClassFails, RefuseClass, RetainFs,
           RetainFsFails, RetainFsUnnoticed, RetainTg, RetainTgFails,
           RetainTgUnnoticed, FreeThreadGroup, NullThreadGroup, FreeFuseFS,
           NullFuseFS, FreeClass, NullClass, EndMount, AllocClassUnnoticed,
           FuseMainMounts, WorkerStep, GetEnv, GetEnvFails, MakeArguments, CallJava,
           ReadResults, LeaveCallback, flags
  <2>2. CASE ~overlapped
    <3>1. PICK n \in Mounts : Active(n) /\ pc[n] = "loop"
      BY <2>2 DEF SoleOwner, CallbacksInLoop, Active
    <3>2. \A m \in Mounts : EnterMount(m) => UNCHANGED world
      BY <3>1 DEF EnterMount
    <3>3. \A m \in Mounts : MountStep(m) => UNCHANGED world
      BY <2>2, <3>1, MountStepPlace DEF SoleOwner
    <3>4. \A m \in Mounts : /\ EnterMountFails(m) => UNCHANGED world
                            /\ AllocClassUnnoticed(m) => UNCHANGED world
                            /\ FuseMainMounts(m) => UNCHANGED world
                            /\ FuseMainReturns(m) => UNCHANGED world
      BY DEF EnterMountFails, AllocClassUnnoticed, FuseMainMounts,
             FuseMainReturns
    <3>5. ASSUME NEW u \in Mounts \X Workers, WorkerStep(u)
          PROVE  UNCHANGED world
      BY <3>5
         DEF WorkerStep, GetEnv, GetEnvFails, MakeArguments, CallJava,
             ReadResults, LeaveCallback
    <3> QED
      BY <1>2, <3>2, <3>3, <3>4, <3>5 DEF Next
  <2> QED
    BY <2>1, <2>2
<1> QED
  BY <1>1, <1>2

\* While a callback runs and calls do not overlap, the statics and what they
\* point to stay as they are, although no lock protects them.
THEOREM StaticsAreStable == Spec => StaticsStable
<1>1. SoleOwner /\ [Next]_vars =>
        [~overlapped' /\ (\E t \in Mounts \X Workers : worker[t].at # "idle")
           => UNCHANGED world]_vars
  BY StaticsStableStep
<1> QED
  BY <1>1, SoleOwnership, PTL DEF Spec, StaticsStable

-----------------------------------------------------------------------------
(* Which classes decide whether a file system is served.                   *)

\* A call is beyond the classes that could be loaded, and no others.
PastLoadable ==
  /\ \A m \in Mounts :
       /\ pc[m] = "alloc" => 1..(idx[m] - 1) \subseteq Loadable
       /\ pc[m] \in {"retainFs", "retainTg", "loop"} =>
            Classes \subseteq Loadable
  /\ served # {} => Classes \subseteq Loadable

LEMMA PastLoadableStep ==
  ASSUME TypeOK, PastLoadable, [Next]_vars
  PROVE  PastLoadable'
<1> USE DEF PastLoadable
<1>1. CASE UNCHANGED vars
  BY <1>1 DEF vars, boot, flags
<1>2. ASSUME NEW m \in Mounts, EnterMount(m) PROVE PastLoadable'
  BY <1>2 DEF EnterMount, Goto, TypeOK
<1>3. ASSUME NEW m \in Mounts, MountStep(m) PROVE PastLoadable'
  <2>1. CASE AllocClass(m)
    <3>1. /\ pc[m] = "alloc" /\ idx[m] \in Loadable /\ idx[m] \in Classes
          /\ served' = served
          /\ pc' = [pc EXCEPT ![m] = IF idx[m] = NumClasses
                                       THEN "retainFs" ELSE "alloc"]
          /\ idx' = [idx EXCEPT ![m] = IF idx[m] = NumClasses
                                         THEN 1 ELSE idx[m] + 1]
      BY <2>1 DEF AllocClass, PublishClass, Goto, flags, TypeOK
    <3>2. 1..idx[m] \subseteq Loadable
      <4>1. 1..idx[m] = 1..(idx[m] - 1) \cup {idx[m]}
        BY <3>1 DEF Classes
      <4> QED
        BY <3>1, <4>1
    <3>3. CASE idx[m] = NumClasses
      BY <3>1, <3>2, <3>3 DEF TypeOK, Classes
    <3>4. CASE idx[m] # NumClasses
      <4>1. idx'[m] - 1 = idx[m] /\ pc'[m] = "alloc"
        BY <3>1, <3>4 DEF TypeOK, Classes
      <4> QED
        BY <3>1, <3>2, <4>1 DEF TypeOK
    <3> QED
      BY <3>3, <3>4
  <2>2. CASE RetainFs(m) \/ RetainFsUnnoticed(m) \/ RetainTg(m)
               \/ RetainTgUnnoticed(m)
    <3>1. /\ pc[m] \in {"retainFs", "retainTg"} /\ UNCHANGED idx
          /\ \E to \in {"retainTg", "loop"} : pc' = [pc EXCEPT ![m] = to]
      BY <2>2 DEF RetainFs, RetainFsUnnoticed, RetainTg, RetainTgUnnoticed, AfterRetainFs, Goto
    <3>2. Classes \subseteq Loadable
      BY <3>1
    <3> QED
      BY <3>1, <3>2 DEF TypeOK
  <2>3. CASE ~(\/ AllocClass(m) \/ RetainFs(m) \/ RetainFsUnnoticed(m)
               \/ RetainTg(m) \/ RetainTgUnnoticed(m))
    <3>1. PICK to \in Locations \ {"alloc", "retainFs", "retainTg", "loop"} :
            pc' = [pc EXCEPT ![m] = to]
      BY <1>3, <2>3
         DEF MountStep, AllocClassFails, RefuseClass, RetainFsFails,
             RetainTgFails, FreeThreadGroup, NullThreadGroup, FreeFuseFS,
             NullFuseFS, FreeClass, NullClass, NextClass, EndMount, Goto,
             Locations
    <3>2. /\ served' = served
          /\ \A n \in Mounts : n # m => idx'[n] = idx[n]
      BY <1>3, <2>3
         DEF MountStep, AllocClassFails, RefuseClass, RetainFsFails,
             RetainTgFails, FreeThreadGroup, NullThreadGroup, FreeFuseFS,
             NullFuseFS, FreeClass, NullClass, NextClass, EndMount, flags,
             TypeOK
    <3> QED
      BY <3>1, <3>2 DEF TypeOK
  <2> QED
    BY <2>1, <2>2, <2>3
<1>4. ASSUME NEW m \in Mounts, EnterMountFails(m) \/ FuseMainReturns(m)
      PROVE  PastLoadable'
  BY <1>4 DEF EnterMountFails, FuseMainReturns, Goto, flags, TypeOK
<1>5. ASSUME NEW m \in Mounts, AllocClassUnnoticed(m) \/ FuseMainMounts(m)
      PROVE  PastLoadable'
  BY <1>5 DEF AllocClassUnnoticed, FuseMainMounts, boot
<1>6. ASSUME NEW t \in Mounts \X Workers, WorkerStep(t) PROVE PastLoadable'
  BY <1>6 DEF WorkerStep, GetEnv, GetEnvFails, MakeArguments, CallJava,
              ReadResults, LeaveCallback, boot, flags
<1> QED
  BY <1>1, <1>2, <1>3, <1>4, <1>5, <1>6 DEF Next

\* One class that cannot be loaded is enough: no call of mount() ever gets to
\* mount its file system, though every call returns as if it had.
THEOREM NothingServed ==
  ASSUME Loadable # Classes
  PROVE  Spec => [](served = {})
<1>1. Init => PastLoadable
  BY DEF Init, PastLoadable
<1>2. TypeOK /\ PastLoadable /\ [Next]_vars => PastLoadable'
  BY PastLoadableStep
<1>3. PastLoadable => served = {}
  BY LoadableAssumption DEF PastLoadable, Classes
<1> QED
  BY <1>1, <1>2, <1>3, TypeCorrect, PTL DEF Spec

\* A call that has not mounted its file system is still on its way there.
OnItsWay ==
  \A m \in Mounts :
    \/ m \in served
    \/ pc[m] \in {"start", "alloc", "retainFs", "retainTg", "loop"}

LEMMA OnItsWayStep ==
  ASSUME Loadable = Classes, ~OutOfMemory, ~FuseFails, Boot = "jni",
         TypeOK, OnItsWay, [Next]_vars
  PROVE  OnItsWay'
<1> USE DEF OnItsWay
<1>1. CASE UNCHANGED vars
  BY <1>1 DEF vars, boot, flags
<1>2. ASSUME NEW m \in Mounts,
             EnterMount(m) \/ FuseMainReturns(m) \/ MountStep(m)
      PROVE  OnItsWay'
  <2>1. /\ \A n \in Mounts : n # m => pc'[n] = pc[n]
        /\ served \subseteq served'
    BY <1>2
       DEF EnterMount, FuseMainReturns, MountStep, AllocClass, PublishClass,
           AllocClassFails, RefuseClass, RetainFs, RetainFsFails,
           RetainFsUnnoticed, RetainTg, RetainTgFails, RetainTgUnnoticed,
           FreeThreadGroup, NullThreadGroup, FreeFuseFS, NullFuseFS,
           FreeClass, NullClass, NextClass, EndMount, Goto, flags,
           TypeOK
  <2>2. \/ m \in served'
        \/ pc'[m] \in {"alloc", "retainFs", "retainTg", "loop"}
    BY <1>2, <2>1
       DEF EnterMount, FuseMainReturns, MountStep, AllocClass, PublishClass,
           AllocClassFails, RetainFs, RetainFsFails, RetainFsUnnoticed,
           RetainTg, RetainTgFails, RetainTgUnnoticed, FreeThreadGroup,
           NullThreadGroup, FreeFuseFS, NullFuseFS, FreeClass, NullClass,
           NextClass, EndMount, AfterRetainFs, Goto, TypeOK
  <2> QED
    BY <2>1, <2>2
<1>3. ASSUME NEW m \in Mounts,
             \/ EnterMountFails(m) \/ AllocClassUnnoticed(m)
             \/ FuseMainMounts(m)
      PROVE  OnItsWay'
  BY <1>3 DEF EnterMountFails, AllocClassUnnoticed, FuseMainMounts, boot
<1>4. ASSUME NEW t \in Mounts \X Workers, WorkerStep(t) PROVE OnItsWay'
  BY <1>4 DEF WorkerStep, GetEnv, GetEnvFails, MakeArguments, CallJava,
              ReadResults, LeaveCallback, boot, flags
<1> QED
  BY <1>1, <1>2, <1>3, <1>4 DEF Next

\* The boot-up itself never gives up without a reason: when every class can be
\* loaded, there is memory for all and libfuse is able to mount, a call that
\* has returned did mount, as FuseMount.mount logs.
THEOREM ReturnedWasMounted ==
  ASSUME Loadable = Classes, ~OutOfMemory, ~FuseFails, Boot = "jni"
  PROVE  Spec => []UnmountedWasMounted
<1>1. Init => OnItsWay
  BY DEF Init, OnItsWay
<1>2. TypeOK /\ OnItsWay /\ [Next]_vars => OnItsWay'
  BY OnItsWayStep
<1>3. OnItsWay => UnmountedWasMounted
  BY DEF OnItsWay, UnmountedWasMounted
<1> QED
  BY <1>1, <1>2, <1>3, TypeCorrect, PTL DEF Spec

-----------------------------------------------------------------------------
(* When there is enough memory.                                            *)

LEMMA NoticedStep ==
  ASSUME ~OutOfMemory, ~unnoticed, [Next]_vars
  PROVE  ~unnoticed'
<1>1. CASE UNCHANGED vars
  BY <1>1 DEF vars, flags
<1>2. ASSUME NEW m \in Mounts, MountStep(m) PROVE ~unnoticed'
  BY <1>2
     DEF MountStep, AllocClass, PublishClass, AllocClassFails, RefuseClass,
         RetainFs, RetainFsFails, RetainFsUnnoticed, RetainTg, RetainTgFails,
         RetainTgUnnoticed, FreeThreadGroup, NullThreadGroup, FreeFuseFS,
         NullFuseFS, FreeClass, NullClass, EndMount, flags
<1>3. ASSUME NEW m \in Mounts,
             \/ EnterMount(m) \/ EnterMountFails(m) \/ AllocClassUnnoticed(m)
             \/ FuseMainMounts(m) \/ FuseMainReturns(m)
      PROVE  ~unnoticed'
  BY <1>3 DEF EnterMount, EnterMountFails, AllocClassUnnoticed,
              FuseMainMounts, FuseMainReturns, flags
<1>4. ASSUME NEW t \in Mounts \X Workers, WorkerStep(t) PROVE ~unnoticed'
  BY <1>4 DEF WorkerStep, GetEnv, GetEnvFails, MakeArguments, CallJava,
              ReadResults, LeaveCallback, flags
<1> QED
  BY <1>1, <1>2, <1>3, <1>4 DEF Next

\* With memory for all, nothing but calls of mount() that overlap can make the
\* C code use a static pointer that is NULL or freed: that classes are missing
\* cannot.
THEOREM OnlyOverlapsAreUnsafe ==
  ASSUME ~OutOfMemory
  PROVE  Spec => [](ub => overlapped)
<1>1. Init => ~unnoticed
  BY DEF Init
<1>2. ~unnoticed /\ [Next]_vars => ~unnoticed'
  BY NoticedStep
<1> QED
  BY <1>1, <1>2, NoUndefinedBehaviour, PTL DEF Spec, UndefinedOnlyByOverlap

LEMMA AloneStep ==
  ASSUME \A m, n \in Mounts : m = n, ~overlapped, [Next]_vars
  PROVE  ~overlapped'
<1>1. CASE UNCHANGED vars
  BY <1>1 DEF vars, flags
<1>2. ASSUME NEW m \in Mounts, EnterMount(m) PROVE ~overlapped'
  BY <1>2 DEF EnterMount, Goto, Active
<1>3. ASSUME NEW m \in Mounts, MountStep(m) PROVE ~overlapped'
  BY <1>3
     DEF MountStep, AllocClass, PublishClass, AllocClassFails, RefuseClass,
         RetainFs, RetainFsFails, RetainFsUnnoticed, RetainTg, RetainTgFails,
         RetainTgUnnoticed, FreeThreadGroup, NullThreadGroup, FreeFuseFS,
         NullFuseFS, FreeClass, NullClass, EndMount, flags
<1>4. ASSUME NEW m \in Mounts,
             \/ EnterMountFails(m) \/ AllocClassUnnoticed(m)
             \/ FuseMainMounts(m) \/ FuseMainReturns(m)
      PROVE  ~overlapped'
  BY <1>4 DEF EnterMountFails, AllocClassUnnoticed, FuseMainMounts,
              FuseMainReturns, flags
<1>5. ASSUME NEW t \in Mounts \X Workers, WorkerStep(t) PROVE ~overlapped'
  BY <1>5 DEF WorkerStep, GetEnv, GetEnvFails, MakeArguments, CallJava,
              ReadResults, LeaveCallback, flags
<1> QED
  BY <1>1, <1>2, <1>3, <1>4, <1>5 DEF Next

\* The javafs executable, or a program that calls mount() once: its C code uses
\* no static pointer that is NULL or freed, whatever classes are missing and
\* however many threads FUSE runs callbacks on.
THEOREM OneMountIsSafe ==
  ASSUME ~OutOfMemory, \A m, n \in Mounts : m = n
  PROVE  Spec => []~ub
<1>1. Init => ~overlapped
  BY DEF Init
<1>2. ~overlapped /\ [Next]_vars => ~overlapped'
  BY AloneStep
<1> QED
  BY <1>1, <1>2, OnlyOverlapsAreUnsafe, PTL DEF Spec

-----------------------------------------------------------------------------
(* Every step of a call brings it nearer its return.                       *)

LEMMA RemainingNat ==
  ASSUME TypeOK, NEW m \in Mounts
  PROVE  Remaining(m) \in Nat
<1>1. NumClasses \in Nat /\ NumClasses - idx[m] \in Nat
  BY ConstantsOK DEF ConstantAssumptions, TypeOK, Classes
<1>2. CASE pc[m] \in {"start", "alloc", "retainFs", "retainTg", "loop"}
  BY <1>1, <1>2 DEF Remaining
<1>3. CASE pc[m] \in {"freeTg", "nullTg", "freeFs", "nullFs"}
  BY <1>1, <1>3 DEF Remaining
<1>4. CASE pc[m] \in {"freeCls", "nullCls", "end", "returned"}
  BY <1>1, <1>4 DEF Remaining
<1> QED
  BY <1>2, <1>3, <1>4 DEF TypeOK, Locations

LEMMA RemainingFalls ==
  ASSUME TypeOK, NEW m \in Mounts,
         \/ EnterMount(m) \/ EnterMountFails(m) \/ MountStep(m)
         \/ FuseMainReturns(m)
  PROVE  Remaining(m)' < Remaining(m)
<1> USE ConstantsOK DEF ConstantAssumptions, TypeOK, Goto, Classes, Remaining
<1>1. CASE EnterMount(m) \/ EnterMountFails(m) \/ FuseMainReturns(m)
  BY <1>1 DEF EnterMount, EnterMountFails, FuseMainReturns
<1>2. CASE AllocClass(m) \/ AllocClassFails(m)
  BY <1>2 DEF AllocClass, PublishClass, AllocClassFails, RefuseClass
<1>3. CASE RetainFs(m) \/ RetainFsFails(m) \/ RetainFsUnnoticed(m)
  BY <1>3 DEF RetainFs, RetainFsFails, RetainFsUnnoticed,
              AfterRetainFs
<1>4. CASE RetainTg(m) \/ RetainTgFails(m) \/ RetainTgUnnoticed(m)
  BY <1>4 DEF RetainTg, RetainTgFails, RetainTgUnnoticed
<1>5. CASE \/ FreeThreadGroup(m) \/ NullThreadGroup(m) \/ FreeFuseFS(m)
           \/ NullFuseFS(m)
  BY <1>5 DEF FreeThreadGroup, NullThreadGroup, FreeFuseFS, NullFuseFS
<1>6. CASE FreeClass(m) \/ NullClass(m)
  BY <1>6 DEF FreeClass, NullClass, NextClass
<1>7. CASE EndMount(m)
  BY <1>7 DEF EndMount
<1> QED
  BY <1>1, <1>2, <1>3, <1>4, <1>5, <1>6, <1>7 DEF MountStep

\* A step of one call leaves every other call where it is.
LEMMA OthersStay ==
  ASSUME TypeOK, NEW m \in Mounts, NEW n \in Mounts, n # m,
         \/ EnterMount(m) \/ EnterMountFails(m) \/ MountStep(m)
         \/ FuseMainReturns(m)
  PROVE  pc'[n] = pc[n] /\ idx'[n] = idx[n]
BY DEF TypeOK, EnterMount, EnterMountFails, MountStep, FuseMainReturns,
       AllocClass, PublishClass, AllocClassFails, RefuseClass, RetainFs,
       RetainFsFails, RetainFsUnnoticed, RetainTg, RetainTgFails,
       RetainTgUnnoticed, FreeThreadGroup, NullThreadGroup, FreeFuseFS,
       NullFuseFS, FreeClass, NullClass, EndMount, NextClass, Goto

=============
