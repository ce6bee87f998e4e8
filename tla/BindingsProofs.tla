--------------------------- MODULE BindingsProofs ---------------------------
(***************************************************************************)
(* Proofs about Bindings, for any calls, classes and members.              *)
(*                                                                         *)
(* Orderly is inductive together with the type invariants: it ties every   *)
(* structure and every class reference to the one call that is inside      *)
(* alloc_jclass_X or free_jclass_X with it, or to the static that          *)
(* publishes it.  From it each step of Bindings is a step of FuseMount or  *)
(* none, so that what is proved of FuseMount holds here.                   *)
(***************************************************************************)
EXTENDS Bindings, FuseMountProofs

DetailInv ==
  /\ TypeOK
  /\ DetailTypeOK
  /\ ~ub => Orderly

-----------------------------------------------------------------------------
(* Steps that map to steps of FuseMount.                                   *)

\* When every lookup was answered the class is one FuseMount calls loadable.
LEMMA AllLookedUp ==
  ASSUME NEW c \in Classes, c \in Found,
         \A i \in 1..Len(Lookups[c]) : Lookups[c][i] \in Declared[c]
  PROVE  c \in Loadable
<1>1. Slots[c] = {Lookups[c][i] : i \in 1..Len(Lookups[c])}
  BY EverySlotLookedUp
<1>2. Slots[c] \subseteq Declared[c]
  BY <1>1
<1> QED
  BY <1>2, LoadableResolves

LEMMA BindingStepMaps ==
  ASSUME DetailInv, ~ub, NEW m \in Mounts, BindingStep(m)
  PROVE  Next \/ UNCHANGED vars
<1> USE DEF DetailInv, Orderly, InAlloc, To
<1>0. idx[m] \in Classes /\ ub = FALSE
  BY DEF TypeOK
<1>1. CASE CallocFails(m)
  BY <1>1 DEF CallocFails, AllocClassFails, MountStep, Next
<1>2. CASE LookupInNull(m)
  BY <1>2 DEF LookupInNull, Next
<1>3. CASE ReturnStructure(m)
  <2>1. Filling(m) /\ step[m] = "lookup"
    BY <1>3 DEF ReturnStructure
  <2>2. idx[m] \in Loadable
    BY <1>0, <1>3, <2>1, AllLookedUp DEF ReturnStructure, Filling
  <2> QED
    BY <1>3, <2>2 DEF ReturnStructure, AllocClass, MountStep, Next
<1>4. CASE Discard(m)
  <2>1. Filling(m) /\ step[m] = "discard"
    BY <1>4 DEF Discard
  <2> QED
    BY <1>4, <2>1 DEF Discard, Filling, AllocClassFails, MountStep, Next
<1>5. CASE DeleteClassRef(m)
  BY <1>5 DEF DeleteClassRef, MountStep, Next
<1>6. CASE FreeStructure(m)
  <2>1. Victim(m) \in heap
    BY <1>6 DEF FreeStructure, Freeing
  <2> QED
    BY <1>0, <1>6, <2>1 DEF FreeStructure, vars, flags
<1>7. CASE SkipClass(m)
  BY <1>7 DEF SkipClass, MountStep, Next
<1>8. CASE StoreNull(m)
  BY <1>8 DEF StoreNull, MountStep, Next
<1>9. CASE \/ Calloc(m) \/ FindClass(m) \/ FindClassFails(m) \/ PinClass(m)
           \/ PinClassFails(m) \/ PinClassUnnoticed(m) \/ Lookup(m)
           \/ LookupFails(m) \/ Unpin(m)
  BY <1>9 DEF Calloc, FindClass, FindClassFails, PinClass, PinClassFails,
              PinClassUnnoticed, Lookup, LookupFails, Unpin
<1> QED
  BY <1>1, <1>2, <1>3, <1>4, <1>5, <1>6, <1>7, <1>8, <1>9 DEF BindingStep

\* Every step of Bindings is a step of FuseMount or leaves its state alone.
LEMMA StepMaps ==
  ASSUME DetailInv, [DetailNext]_allVars
  PROVE  [Next]_vars
<1>1. CASE UNCHANGED allVars
  BY <1>1 DEF allVars
<1>2. CASE DetailNext
  <2>1. ASSUME NEW m \in Mounts, OtherStep(m) PROVE Next
    BY <1>2, <2>1 DEF OtherStep, MountStep, DetailNext, Next
  <2> QED
    BY <1>2, <2>1, BindingStepMaps DEF DetailNext, Next
<1> QED
  BY <1>1, <1>2

-----------------------------------------------------------------------------
(* The type of the detail.                                                 *)

LEMMA DetailTypeStep ==
  ASSUME TypeOK, DetailTypeOK, DetailNext
  PROVE  DetailTypeOK'
<1> USE DEF DetailTypeOK, Structures, Own, Victim, To
<1>0. ASSUME NEW m \in Mounts
      PROVE  /\ idx[m] \in Classes
             /\ Len(Lookups[idx[m]]) \in Nat
  BY EverySlotLookedUp, <1>0 DEF TypeOK
<1>1. ASSUME NEW m \in Mounts, BindingStep(m)
      PROVE  DetailTypeOK'
  <2> USE <1>0
  <2>1. CASE Calloc(m)
    <3>1. /\ step' \in [Mounts -> {"outside", "find", "pin", "lookup", "unpin",
                                  "discard", "free"}]
          /\ heap' \subseteq Structures
          /\ UNCHANGED <<victim, pins>>
      BY <2>1 DEF Calloc
    <3>2. ids' \in [Structures -> Nat]
      BY <2>1 DEF Calloc
    <3>3. \A r \in Structures : ids'[r] <= Len(Lookups[r[2]])
      BY <2>1, EverySlotLookedUp DEF Calloc
    <3> QED
      BY <3>1, <3>2, <3>3
  <2>2. CASE Lookup(m)
    <3>1. /\ UNCHANGED <<step, victim, heap, pins>>
          /\ ids[Own(m)] < Len(Lookups[idx[m]])
          /\ ids' = [ids EXCEPT ![Own(m)] = @ + 1]
      BY <2>2 DEF Lookup, NextSlot
    <3>2. ids' \in [Structures -> Nat]
      BY <3>1
    <3>3. \A r \in Structures : ids'[r] <= Len(Lookups[r[2]])
      <4> SUFFICES ASSUME NEW r \in Structures
                   PROVE  ids'[r] <= Len(Lookups[r[2]])
        OBVIOUS
      <4>1. CASE r = Own(m)
        <5>1. r[2] = idx[m] /\ ids[r] \in Nat /\ ids'[r] = ids[r] + 1
          BY <3>1, <4>1
        <5> QED
          BY <3>1, <4>1, <5>1
      <4>2. CASE r # Own(m)
        BY <3>1, <4>2
      <4> QED
        BY <4>1, <4>2
    <3> QED
      BY <3>1, <3>2, <3>3
  <2>3. CASE \/ FindClass(m) \/ FindClassFails(m) \/ PinClassFails(m)
             \/ PinClassUnnoticed(m) \/ LookupFails(m) \/ ReturnStructure(m)
    BY <2>3 DEF FindClass, FindClassFails, PinClassFails, PinClassUnnoticed,
                LookupFails, ReturnStructure
  <2>4. CASE PinClass(m) \/ Unpin(m) \/ Discard(m) \/ FreeStructure(m)
    <3>1. Own(m) \in Structures
      OBVIOUS
    <3>2. /\ step' \in [Mounts -> {"outside", "find", "pin", "lookup", "unpin",
                                  "discard", "free"}]
          /\ victim' \in [Mounts -> Mounts \cup {NULL}]
          /\ UNCHANGED ids
      BY <2>4 DEF PinClass, Unpin, Discard, FreeStructure
    <3>3. heap' \subseteq Structures /\ pins' \subseteq Structures
      BY <2>4, <3>1 DEF PinClass, Unpin, Discard, FreeStructure
    <3> QED
      BY <3>2, <3>3
  <2>5. CASE DeleteClassRef(m)
    BY <2>5 DEF DeleteClassRef, TypeOK
  <2>6. CASE CallocFails(m) \/ LookupInNull(m) \/ SkipClass(m) \/ StoreNull(m)
    BY <2>6 DEF CallocFails, LookupInNull, SkipClass, StoreNull, detail
  <2> QED
    BY <1>1, <2>1, <2>2, <2>3, <2>4, <2>5, <2>6 DEF BindingStep
<1>2. CASE UNCHANGED detail
  BY <1>2 DEF detail
<1> QED
  BY <1>1, <1>2 DEF DetailNext, OtherStep

-----------------------------------------------------------------------------
(* Orderly.                                                                *)

\* The actor is outside alloc_jclass_X and free_jclass_X and stays there.
LEMMA OrderlyOutside ==
  ASSUME TypeOK, DetailTypeOK, Orderly, UNCHANGED <<detail, structs>>,
         NEW k \in Mounts, step[k] = "outside",
         \A n \in Mounts \ {k} : pc'[n] = pc[n] /\ idx'[n] = idx[n],
         pc'[k] # "start",
         pc'[k] = "alloc" => pc[k] = "start"
  PROVE  Orderly'
<1> USE DEF detail
<1>1. \A r \in Structures : Made(r) => Made(r)'
  BY DEF Made, Structures
<1>2. \A n \in Mounts : step[n] # "outside" => Own(n)' = Own(n) /\ n # k
  BY DEF Own
<1>3. \A n \in Mounts : step[n] # "outside" => Victim(n)' = Victim(n)
  BY DEF Victim
<1>4. structs \subseteq Structures
  BY DEF TypeOK, Structures, Classes
<1>5. ASSUME NEW m \in Mounts, step[m] \in InAlloc
      PROVE  Filling(m)'
  <2>1. Filling(m) /\ step[m] # "outside"
    BY <1>5 DEF Orderly, InAlloc
  <2> QED
    BY <1>2, <2>1 DEF Filling
<1>6. ASSUME NEW m \in Mounts, step[m] = "free"
      PROVE  Freeing(m)'
  <2>1. Freeing(m)
    BY <1>6 DEF Orderly
  <2>2. Victim(m) \in Structures
    BY <2>1 DEF Freeing, DetailTypeOK
  <2>3. pc'[m] = pc[m] /\ Victim(m)' = Victim(m)
    BY <1>2, <1>3, <1>6
  <2>4. \A n \in Mounts : step[n] = "free" => Victim(n)' = Victim(n)
    BY <1>3
  <2> QED
    BY <1>1, <2>1, <2>2, <2>3, <2>4 DEF Freeing
<1>7. \A r \in structs : Complete(r)' /\ Made(r)'
  BY <1>1, <1>4 DEF Orderly, Complete
<1>8. ASSUME NEW r \in heap
      PROVE  \/ r \in structs
             \/ \E m \in Mounts :
                  \/ step[m] \in InAlloc /\ r = Own(m)'
                  \/ step[m] = "free" /\ r = Victim(m)'
  <2>1. \A n \in Mounts : step[n] \in InAlloc => Own(n)' = Own(n)
    BY <1>2 DEF InAlloc
  <2>2. \A n \in Mounts : step[n] = "free" => Victim(n)' = Victim(n)
    BY <1>3
  <2> QED
    BY <1>8, <2>1, <2>2 DEF Orderly
<1>9. ASSUME NEW r \in pins
      PROVE  Pinned(r)'
  <2>1. \A n \in Mounts : step[n] \in {"lookup", "unpin"} => Own(n)' = Own(n)
    BY <1>2
  <2>2. Pinned(r)
    BY <1>9 DEF Orderly
  <2> QED
    BY <2>1, <2>2 DEF Pinned
<1> QED
  BY <1>5, <1>6, <1>7, <1>8, <1>9 DEF Orderly, InAlloc

\* A step inside alloc_jclass_X, on the structure that only m knows.
LEMMA OrderlyFilling ==
  ASSUME TypeOK, DetailTypeOK, DetailTypeOK', Orderly, UNCHANGED <<vars, victim>>,
         NEW m \in Mounts, NEW to \in InAlloc,
         pc[m] = "alloc",
         step' = [step EXCEPT ![m] = to],
         heap' = heap \cup {Own(m)},
         \A r \in Structures \ {Own(m)} : (r \in pins' <=> r \in pins) /\ ids'[r] = ids[r],
         Own(m) \in pins' => to \in {"lookup", "unpin"},
         Filling(m)'
  PROVE  Orderly'
<1>0. /\ UNCHANGED <<pc, idx, structs>>
      /\ \A n \in Mounts : Own(n)' = Own(n) /\ Victim(n)' = Victim(n)
      /\ \A n \in Mounts : Own(n) \in Structures
      /\ structs \subseteq Structures
      /\ heap \subseteq Structures /\ pins' \subseteq Structures
  BY DEF vars, boot, world, Own, Victim, TypeOK, Structures, DetailTypeOK
<1>1. /\ step'[m] = to
      /\ \A n \in Mounts \ {m} : step'[n] = step[n]
  BY DEF DetailTypeOK
<1>2. \A r \in Structures : Made(r)' = Made(r)
  BY <1>0 DEF Made
<1>3. ~Made(Own(m))
  BY <1>0, NumClassesAssumption DEF Made, Own, TypeOK, Classes
<1>4. step[m] # "free"
  BY DEF Orderly, Freeing
<1>5. ASSUME NEW n \in Mounts, step'[n] \in InAlloc
      PROVE  Filling(n)'
  <2>1. CASE n = m
    BY <2>1
  <2>2. CASE n # m
    <3>1. Filling(n) /\ step'[n] = step[n] /\ Own(n) # Own(m)
      BY <1>1, <1>5, <2>2 DEF Orderly, Own
    <3>2. ids'[Own(n)] = ids[Own(n)]
      BY <1>0, <3>1
    <3> QED
      BY <1>0, <3>1, <3>2 DEF Filling
  <2> QED
    BY <2>1, <2>2
<1>6. ASSUME NEW n \in Mounts, step'[n] = "free"
      PROVE  Freeing(n)'
  <2>1. n # m /\ step[n] = "free" /\ Freeing(n)
    BY <1>1, <1>6 DEF Orderly, InAlloc
  <2>2. Victim(n) \in Structures
    BY <1>0, <2>1 DEF Freeing
  <2>3. \A k \in Mounts : step'[k] = "free" => step[k] = "free"
    BY <1>1 DEF InAlloc
  <2> QED
    BY <1>0, <1>2, <2>1, <2>2, <2>3 DEF Freeing
<1>7. \A r \in structs : Complete(r)' /\ Made(r)'
  <2> SUFFICES ASSUME NEW r \in structs PROVE Complete(r)' /\ Made(r)'
    OBVIOUS
  <2>1. r \in Structures /\ Complete(r) /\ Made(r) /\ r # Own(m)
    BY <1>0, <1>3 DEF Orderly
  <2> QED
    BY <1>2, <2>1 DEF Complete
<1>8. ASSUME NEW r \in heap'
      PROVE  \/ r \in structs'
             \/ \E n \in Mounts :
                  \/ step'[n] \in InAlloc /\ r = Own(n)'
                  \/ step'[n] = "free" /\ r = Victim(n)'
  <2>1. CASE r = Own(m)
    BY <1>0, <1>1, <2>1
  <2>2. CASE r # Own(m)
    BY <1>0, <1>1, <1>4, <1>8, <2>2 DEF Orderly
  <2> QED
    BY <2>1, <2>2
<1>9. ASSUME NEW r \in pins'
      PROVE  Pinned(r)'
  <2>1. CASE r = Own(m)
    BY <1>0, <1>1, <1>9, <2>1 DEF Pinned
  <2>2. CASE r # Own(m)
    <3>1. Pinned(r)
      BY <1>0, <1>9, <2>2 DEF Orderly
    <3> QED
      BY <1>0, <1>1, <2>2, <3>1 DEF Pinned
  <2> QED
    BY <2>1, <2>2
<1> QED
  BY <1>0, <1>5, <1>6, <1>7, <1>8, <1>9 DEF Orderly, InAlloc

\* The structure being filled is not published, and it is pinned only where
\* its class is.
LEMMA OwnPrivate ==
  ASSUME TypeOK, Orderly, NEW m \in Mounts, pc[m] = "alloc"
  PROVE  /\ ~Made(Own(m))
         /\ Own(m) \notin structs
         /\ Own(m) \in pins => step[m] \in {"lookup", "unpin"}
<1>1. ~Made(Own(m))
  BY NumClassesAssumption DEF Made, Own, TypeOK, Classes
<1>2. Own(m) \notin structs
  BY <1>1 DEF Orderly
<1>3. Own(m) \in pins => step[m] \in {"lookup", "unpin"}
  <2> SUFFICES ASSUME Own(m) \in pins PROVE step[m] \in {"lookup", "unpin"}
    OBVIOUS
  <2>1. PICK n \in Mounts : step[n] \in {"lookup", "unpin"} /\ Own(m) = Own(n)
    BY <1>2 DEF Orderly, Pinned
  <2> QED
    BY <2>1 DEF Own
<1> QED
  BY <1>1, <1>2, <1>3

LEMMA FillingStep ==
  ASSUME TypeOK, DetailTypeOK, DetailTypeOK', Orderly, NEW m \in Mounts,
         \/ Calloc(m) \/ FindClass(m) \/ FindClassFails(m) \/ PinClass(m)
         \/ PinClassFails(m) \/ PinClassUnnoticed(m) \/ Lookup(m)
         \/ LookupFails(m) \/ Unpin(m)
  PROVE  Orderly'
<1> USE DEF To
<1>0. /\ idx[m] \in Classes
      /\ Own(m) \in Structures
      /\ step \in [Mounts -> {"outside", "find", "pin", "lookup", "unpin",
                              "discard", "free"}]
      /\ ids \in [Structures -> Nat]
  BY DEF TypeOK, Own, Structures, DetailTypeOK
<1>1. UNCHANGED <<vars, victim>>
  BY DEF Calloc, FindClass, FindClassFails, PinClass, PinClassFails,
         PinClassUnnoticed, Lookup, LookupFails, Unpin
<1>2. UNCHANGED <<pc, idx, structs>> /\ Own(m)' = Own(m)
  BY <1>1 DEF vars, boot, world, Own
<1>3. pc[m] = "alloc"
  BY DEF Calloc, FindClass, FindClassFails, PinClass, PinClassFails,
         PinClassUnnoticed, Lookup, NextSlot, LookupFails, Unpin, Orderly,
         InAlloc, Filling
<1>4. /\ Own(m) \notin structs
      /\ Own(m) \in pins => step[m] \in {"lookup", "unpin"}
  BY <1>3, OwnPrivate
<1>5. CASE Calloc(m)
  <2>1. /\ step' = [step EXCEPT ![m] = "find"]
        /\ heap' = heap \cup {Own(m)}
        /\ ids' = [ids EXCEPT ![Own(m)] = 0]
        /\ UNCHANGED pins
        /\ step[m] = "outside"
    BY <1>5 DEF Calloc
  <2>2. ids'[Own(m)] = 0 /\ step'[m] = "find"
    BY <1>0, <2>1
  <2>3. Filling(m)'
    BY <1>2, <1>3, <2>1, <2>2 DEF Filling
  <2>4. Own(m) \notin pins'
    BY <1>4, <2>1
  <2>5. \A r \in Structures \ {Own(m)} :
          (r \in pins' <=> r \in pins) /\ ids'[r] = ids[r]
    BY <1>0, <2>1
  <2>6. "find" \in InAlloc
    BY DEF InAlloc
  <2> QED
    BY <1>1, <1>3, <2>1, <2>3, <2>4, <2>5, <2>6, OrderlyFilling
<1>6. CASE ~Calloc(m)
  <2>1. step[m] \in InAlloc /\ Filling(m)
    BY <1>6
       DEF FindClass, FindClassFails, PinClass, PinClassFails,
           PinClassUnnoticed, Lookup, NextSlot, LookupFails, Unpin, Orderly,
           InAlloc
  <2>2. Own(m) \in heap
    BY <2>1 DEF Filling
  <2>3. heap' = heap \cup {Own(m)}
    BY <1>6, <2>2
       DEF FindClass, FindClassFails, PinClass, PinClassFails,
           PinClassUnnoticed, Lookup, LookupFails, Unpin
  <2>4. CASE FindClass(m)
    <3>1. /\ idx[m] \in Found /\ step[m] = "find"
          /\ step' = [step EXCEPT ![m] = "pin"]
          /\ UNCHANGED <<heap, pins, ids>>
      BY <2>4 DEF FindClass
    <3>2. Filling(m)' /\ "pin" \in InAlloc
      BY <1>0, <1>2, <2>1, <3>1 DEF Filling, InAlloc
    <3> QED
      BY <1>1, <1>3, <1>4, <2>3, <3>1, <3>2, OrderlyFilling
  <2>5. CASE FindClassFails(m) \/ PinClassFails(m) \/ LookupFails(m)
    <3>1. /\ step' = [step EXCEPT ![m] = "unpin"]
          /\ UNCHANGED <<heap, pins, ids>>
      BY <2>5 DEF FindClassFails, PinClassFails, LookupFails
    <3>2. idx[m] \notin Loadable \/ OutOfMemory
      BY <1>0, <2>5, LoadableResolves
         DEF FindClassFails, PinClassFails, LookupFails
    <3>3. Filling(m)' /\ "unpin" \in InAlloc
      BY <1>0, <1>2, <2>1, <3>1, <3>2 DEF Filling, InAlloc
    <3> QED
      BY <1>1, <1>3, <1>4, <2>3, <3>1, <3>3, OrderlyFilling
  <2>6. CASE PinClass(m) \/ PinClassUnnoticed(m)
    <3>1. /\ step[m] = "pin"
          /\ step' = [step EXCEPT ![m] = "lookup"]
          /\ UNCHANGED <<heap, ids>>
          /\ \A r \in Structures \ {Own(m)} : r \in pins' <=> r \in pins
      BY <2>6 DEF PinClass, PinClassUnnoticed
    <3>2. Filling(m)' /\ "lookup" \in InAlloc
      BY <1>0, <1>2, <2>1, <3>1 DEF Filling, InAlloc
    <3> QED
      BY <1>1, <1>3, <2>3, <3>1, <3>2, OrderlyFilling
  <2>7. CASE Lookup(m)
    <3>1. /\ step[m] = "lookup"
          /\ step' = [step EXCEPT ![m] = "lookup"]
          /\ UNCHANGED <<heap, pins>>
          /\ ids' = [ids EXCEPT ![Own(m)] = @ + 1]
          /\ Lookups[idx[m]][ids[Own(m)] + 1] \in Declared[idx[m]]
      BY <1>0, <2>7 DEF Lookup, NextSlot
    <3>2. /\ ids[Own(m)] \in Nat
          /\ ids'[Own(m)] = ids[Own(m)] + 1
      BY <1>0, <3>1
    <3>3. \A i \in 1..ids'[Own(m)] : Lookups[idx[m]][i] \in Declared[idx[m]]
      <4> SUFFICES ASSUME NEW i \in 1..ids'[Own(m)]
                   PROVE  Lookups[idx[m]][i] \in Declared[idx[m]]
        OBVIOUS
      <4>1. i = ids[Own(m)] + 1 \/ i \in 1..ids[Own(m)]
        BY <3>2
      <4> QED
        BY <2>1, <3>1, <4>1 DEF Filling
    <3>4. Filling(m)' /\ "lookup" \in InAlloc
      BY <1>0, <1>2, <2>1, <3>1, <3>3 DEF Filling, InAlloc
    <3>5. \A r \in Structures \ {Own(m)} :
            (r \in pins' <=> r \in pins) /\ ids'[r] = ids[r]
      BY <1>0, <3>1
    <3> QED
      BY <1>1, <1>3, <2>3, <3>1, <3>4, <3>5, OrderlyFilling
  <2>8. CASE Unpin(m)
    <3>1. /\ step[m] = "unpin"
          /\ step' = [step EXCEPT ![m] = "discard"]
          /\ UNCHANGED <<heap, ids>>
          /\ pins' = pins \ {Own(m)}
      BY <2>8 DEF Unpin
    <3>2. Filling(m)' /\ "discard" \in InAlloc
      BY <1>0, <1>2, <2>1, <3>1 DEF Filling, InAlloc
    <3> QED
      BY <1>1, <1>3, <2>3, <3>1, <3>2, OrderlyFilling
  <2> QED
    BY <1>6, <2>4, <2>5, <2>6, <2>7, <2>8
<1> QED
  BY <1>5, <1>6

\* The structure m was filling leaves alloc_jclass_X: it is published, or it
\* is gone from the heap.
LEMMA OrderlyLeaving ==
  ASSUME TypeOK, TypeOK', DetailTypeOK, Orderly, NEW m \in Mounts,
         ReturnStructure(m) \/ Discard(m)
  PROVE  Orderly'
<1> USE DEF To
<1>0. /\ step[m] \in {"lookup", "discard"} /\ pc[m] = "alloc" /\ Filling(m)
      /\ step' = [step EXCEPT ![m] = "outside"]
      /\ idx[m] \in Classes
      /\ UNCHANGED <<victim, pins, ids>>
  BY DEF ReturnStructure, Discard, Orderly, InAlloc, Filling, TypeOK
<1>1. /\ Own(m) \notin structs /\ ~Made(Own(m))
      /\ Own(m) \in Structures
  BY <1>0, OwnPrivate DEF Own, Structures
<1>2. \A n \in Mounts \ {m} : /\ pc'[n] = pc[n] /\ idx'[n] = idx[n]
                             /\ step'[n] = step[n]
                             /\ Own(n)' = Own(n) /\ Victim(n)' = Victim(n)
                             /\ Own(n) # Own(m)
  BY <1>0
     DEF ReturnStructure, PublishClass, Discard, RefuseClass, Goto, TypeOK,
         DetailTypeOK, Own, Victim
<1>3. step'[m] = "outside"
  BY <1>0 DEF DetailTypeOK
<1>4. \A n \in Mounts : step'[n] # "outside" => n # m
  BY <1>3
<1>5. /\ pc'[m] # "start"
      /\ pc'[m] = "alloc" => idx'[m] = idx[m] + 1
  BY <1>0 DEF ReturnStructure, PublishClass, Discard, RefuseClass, Goto, TypeOK
<1>6. \A r \in Structures : Made(r) => Made(r)'
  <2> SUFFICES ASSUME NEW r \in Structures, Made(r) PROVE Made(r)'
    OBVIOUS
  <2>1. CASE r[1] = m
    BY <1>0, <1>5, <2>1 DEF Made, Structures, Classes, TypeOK
  <2>2. CASE r[1] # m
    BY <1>2, <2>2 DEF Made, Structures
  <2> QED
    BY <2>1, <2>2
<1>7. /\ \A r \in Structures \ {Own(m)} : (r \in heap' <=> r \in heap)
      /\ structs' \subseteq structs \cup {Own(m)} /\ structs \subseteq structs'
      /\ structs' \subseteq Structures /\ structs \subseteq Structures
      /\ heap' \subseteq heap
  BY <1>1
     DEF ReturnStructure, PublishClass, Discard, RefuseClass, Own, TypeOK,
         DetailTypeOK, Structures
<1>8. PICK own \in Structures : own = Own(m)
  BY <1>1
<1>9. own[1] = m /\ own[2] = idx[m]
  BY <1>8 DEF Own
<1>10. \/ own \in structs' /\ Complete(own)' /\ Made(own)'
       \/ own \notin structs' /\ own \notin heap' /\ own \notin pins
  <2>1. CASE ReturnStructure(m)
    <3>1. own \in structs' /\ UNCHANGED heap
      BY <1>8, <2>1 DEF ReturnStructure, PublishClass, Own
    <3>2. Complete(own)
      BY <1>0, <1>8, <1>9, <2>1 DEF ReturnStructure, Complete, Filling
    <3>3. Made(own)'
      BY <1>0, <1>5, <1>9 DEF Made, Classes
    <3> QED
      BY <1>0, <3>1, <3>2, <3>3 DEF Complete
  <2>2. CASE Discard(m)
    <3>1. structs' = structs /\ heap' = heap \ {own} /\ step[m] = "discard"
      BY <1>8, <2>2 DEF Discard, RefuseClass
    <3>2. own \notin pins
      BY <1>0, <1>8, <3>1, OwnPrivate
    <3> QED
      BY <1>1, <1>8, <3>1, <3>2
  <2> QED
    BY <2>1, <2>2
<1>11. ASSUME NEW n \in Mounts, step'[n] \in InAlloc
       PROVE  Filling(n)'
  <2>1. n # m /\ step[n] \in InAlloc
    BY <1>2, <1>4, <1>11 DEF InAlloc
  <2>2. Filling(n) /\ Own(n) \in Structures
    BY <2>1 DEF Orderly, TypeOK, Own, Structures
  <2>3. Own(n)' \in heap'
    BY <1>2, <1>7, <2>1, <2>2 DEF Filling
  <2> QED
    BY <1>0, <1>2, <2>1, <2>2, <2>3 DEF Filling
<1>12. ASSUME NEW n \in Mounts, step'[n] = "free"
       PROVE  Freeing(n)'
  <2>1. n # m /\ step[n] = "free" /\ Freeing(n)
    BY <1>2, <1>4, <1>12 DEF Orderly
  <2>2. PICK v \in Structures : v = Victim(n) /\ v = Victim(n)'
    BY <1>2, <2>1 DEF Freeing, DetailTypeOK
  <2>3. v # own /\ Made(v)'
    BY <1>1, <1>6, <1>8, <2>1, <2>2 DEF Freeing
  <2>4. v \in heap' \ structs'
    BY <1>7, <1>8, <2>1, <2>2, <2>3 DEF Freeing
  <2>5. \A k \in Mounts : step'[k] = "free" =>
                         step[k] = "free" /\ Victim(k)' = Victim(k)
    BY <1>2, <1>4
  <2>6. pc'[n] = "nullCls"
    BY <1>2, <2>1 DEF Freeing
  <2> QED
    BY <2>1, <2>2, <2>3, <2>4, <2>5, <2>6 DEF Freeing
<1>13. ASSUME NEW r \in structs'
       PROVE  Complete(r)' /\ Made(r)'
  <2>1. CASE r = own
    BY <1>10, <1>13, <2>1
  <2>2. CASE r # own
    <3>1. r \in Structures /\ Complete(r) /\ Made(r)
      BY <1>7, <1>8, <1>13, <2>2 DEF Orderly
    <3> QED
      BY <1>0, <1>6, <1>7, <1>8, <2>2, <3>1 DEF Complete
  <2> QED
    BY <2>1, <2>2
<1>14. ASSUME NEW r \in heap'
       PROVE  \/ r \in structs'
              \/ \E n \in Mounts :
                   \/ step'[n] \in InAlloc /\ r = Own(n)'
                   \/ step'[n] = "free" /\ r = Victim(n)'
  <2>1. CASE r = own
    BY <1>10, <1>14, <2>1
  <2>2. CASE r # own
    <3>1. CASE r \in structs
      BY <1>7, <3>1
    <3>2. CASE \E n \in Mounts : \/ step[n] \in InAlloc /\ r = Own(n)
                                 \/ step[n] = "free" /\ r = Victim(n)
      <4>1. PICK n \in Mounts : \/ step[n] \in InAlloc /\ r = Own(n)
                                \/ step[n] = "free" /\ r = Victim(n)
        BY <3>2
      <4>2. n # m
        BY <1>0, <1>8, <2>2, <4>1 DEF InAlloc
      <4> QED
        BY <1>2, <4>1, <4>2
    <3> QED
      BY <1>7, <1>14, <3>1, <3>2 DEF Orderly
  <2> QED
    BY <2>1, <2>2
<1>15. ASSUME NEW r \in pins
       PROVE  Pinned(r)'
  <2>1. CASE r = own
    BY <1>10, <1>15, <2>1 DEF Pinned
  <2>2. CASE r # own
    <3>1. CASE r \in structs
      BY <1>7, <3>1 DEF Pinned
    <3>2. CASE \E n \in Mounts : step[n] \in {"lookup", "unpin"} /\ r = Own(n)
      <4>1. PICK n \in Mounts : step[n] \in {"lookup", "unpin"} /\ r = Own(n)
        BY <3>2
      <4> QED
        BY <1>2, <1>8, <2>2, <4>1 DEF Pinned
    <3> QED
      BY <1>15, <3>1, <3>2 DEF Orderly, Pinned
  <2> QED
    BY <2>1, <2>2
<1> QED
  BY <1>0, <1>11, <1>12, <1>13, <1>14, <1>15 DEF Orderly, InAlloc

\* DeleteGlobalRef in free_jclass_X: what was published is about to be freed.
LEMMA OrderlyUnpublishing ==
  ASSUME TypeOK, TypeOK', DetailTypeOK, Orderly, ~ub', NEW m \in Mounts,
         DeleteClassRef(m)
  PROVE  Orderly'
<1> USE DEF To
<1>0. /\ step[m] = "outside" /\ step' = [step EXCEPT ![m] = "free"]
      /\ pc[m] = "freeCls" /\ pc' = [pc EXCEPT ![m] = "nullCls"]
      /\ UNCHANGED <<idx, heap, ids>>
      /\ victim' = [victim EXCEPT ![m] = classPtr[idx[m]]]
      /\ idx[m] \in Classes
  BY DEF DeleteClassRef, FreeClass, NextClass, Goto, TypeOK
<1>1. PICK v : v = <<classPtr[idx[m]], idx[m]>>
  OBVIOUS
<1>2. v \in structs /\ structs' = structs \ {v} /\ pins' = pins \ {v}
  BY <1>1 DEF DeleteClassRef, FreeClass
<1>3. v \in Structures /\ structs \subseteq Structures /\ v \in heap
  BY <1>2 DEF TypeOK, Structures, Classes, Orderly, Complete
<1>4. Victim(m)' = v
  BY <1>0, <1>1 DEF Victim, DetailTypeOK
<1>5. \A n \in Mounts \ {m} : /\ step'[n] = step[n] /\ pc'[n] = pc[n]
                             /\ Own(n)' = Own(n) /\ Victim(n)' = Victim(n)
  BY <1>0 DEF Own, Victim, DetailTypeOK, TypeOK
<1>6. step'[m] = "free" /\ pc'[m] = "nullCls"
  BY <1>0 DEF DetailTypeOK, TypeOK
<1>7. \A r \in Structures : Made(r) => Made(r)'
  BY <1>0, <1>5, <1>6 DEF Made, Structures
<1>8. ASSUME NEW n \in Mounts, step'[n] \in InAlloc
      PROVE  Filling(n)'
  <2>1. n # m /\ Filling(n)
    BY <1>5, <1>6, <1>8 DEF Orderly, InAlloc
  <2> QED
    BY <1>0, <1>5, <2>1 DEF Filling
<1>9. \A n \in Mounts : step[n] = "free" => Victim(n) # v
  BY <1>2 DEF Orderly, Freeing
<1>10. ASSUME NEW n \in Mounts, step'[n] = "free"
       PROVE  Freeing(n)'
  <2>1. \A k \in Mounts : step'[k] = "free" /\ Victim(k)' = v => k = m
    BY <1>5, <1>9
  <2>2. CASE n = m
    <3>1. Made(v)'
      BY <1>2, <1>3, <1>7 DEF Orderly
    <3> QED
      BY <1>0, <1>2, <1>3, <1>4, <1>6, <2>1, <2>2, <3>1 DEF Freeing
  <2>3. CASE n # m
    <3>1. step[n] = "free" /\ Freeing(n)
      BY <1>5, <1>10, <2>3 DEF Orderly
    <3>2. PICK u \in Structures : u = Victim(n) /\ u = Victim(n)' /\ u # v
      BY <1>5, <1>9, <2>3, <3>1 DEF Freeing, DetailTypeOK
    <3>3. Made(u)'
      BY <1>7, <3>1, <3>2 DEF Freeing
    <3>4. \A k \in Mounts : step'[k] = "free" /\ Victim(k)' = u => k = n
      BY <1>4, <1>5, <3>1, <3>2 DEF Freeing
    <3>5. pc'[n] = "nullCls" /\ u \in heap' \ structs'
      BY <1>0, <1>2, <1>5, <2>3, <3>1, <3>2 DEF Freeing
    <3> QED
      BY <3>2, <3>3, <3>4, <3>5 DEF Freeing
  <2> QED
    BY <2>2, <2>3
<1>11. ASSUME NEW r \in structs'
       PROVE  Complete(r)' /\ Made(r)'
  <2>1. r # v /\ r \in Structures /\ Complete(r) /\ Made(r)
    BY <1>2, <1>3, <1>11 DEF Orderly
  <2> QED
    BY <1>0, <1>2, <1>7, <2>1 DEF Complete
<1>12. ASSUME NEW r \in heap'
       PROVE  \/ r \in structs'
              \/ \E n \in Mounts :
                   \/ step'[n] \in InAlloc /\ r = Own(n)'
                   \/ step'[n] = "free" /\ r = Victim(n)'
  <2>1. CASE r = v
    BY <1>4, <1>6, <2>1
  <2>2. CASE r # v
    <3>1. \/ r \in structs
          \/ \E n \in Mounts : \/ step[n] \in InAlloc /\ r = Own(n)
                               \/ step[n] = "free" /\ r = Victim(n)
      BY <1>0, <1>12 DEF Orderly
    <3>2. step[m] \notin InAlloc /\ step[m] # "free"
      BY <1>0 DEF InAlloc
    <3> QED
      BY <1>2, <1>5, <2>2, <3>1, <3>2
  <2> QED
    BY <2>1, <2>2
<1>13. ASSUME NEW r \in pins'
       PROVE  Pinned(r)'
  <2>1. r # v /\ Pinned(r)
    BY <1>2, <1>13 DEF Orderly
  <2> QED
    BY <1>0, <1>2, <1>5, <2>1 DEF Pinned
<1> QED
  BY <1>8, <1>10, <1>11, <1>12, <1>13 DEF Orderly

LEMMA OrderlyFreed ==
  ASSUME TypeOK, DetailTypeOK, Orderly, NEW m \in Mounts, FreeStructure(m)
  PROVE  Orderly'
<1> USE DEF To
<1>0. /\ step[m] = "free" /\ step' = [step EXCEPT ![m] = "outside"]
      /\ victim' = [victim EXCEPT ![m] = NULL]
      /\ heap' = heap \ {Victim(m)}
      /\ UNCHANGED <<pc, idx, structs, pins, ids>>
      /\ Freeing(m)
  BY DEF FreeStructure, boot, world, Orderly
<1>1. PICK v \in Structures : v = Victim(m)
  BY <1>0 DEF Freeing, DetailTypeOK
<1>2. v \notin structs /\ Made(v) /\ structs \subseteq Structures
  BY <1>0, <1>1 DEF Freeing, TypeOK, Structures, Classes
<1>3. /\ step'[m] = "outside"
      /\ \A n \in Mounts : Own(n)' = Own(n) /\ Own(n) \in Structures
      /\ \A n \in Mounts \ {m} : step'[n] = step[n] /\ Victim(n)' = Victim(n)
  BY <1>0 DEF DetailTypeOK, TypeOK, Own, Victim, Structures
<1>4. \A r \in Structures : Made(r)' = Made(r)
  BY <1>0 DEF Made
<1>5. ASSUME NEW n \in Mounts, step'[n] \in InAlloc
      PROVE  Filling(n)'
  <2>1. n # m /\ Filling(n)
    BY <1>3, <1>5 DEF Orderly, InAlloc
  <2>2. Own(n) # v
    BY <1>2, <2>1, OwnPrivate DEF Filling
  <2> QED
    BY <1>0, <1>1, <1>3, <2>1, <2>2 DEF Filling
<1>6. ASSUME NEW n \in Mounts, step'[n] = "free"
      PROVE  Freeing(n)'
  <2>1. n # m /\ step[n] = "free" /\ Freeing(n)
    BY <1>3, <1>6 DEF Orderly
  <2>2. PICK u \in Structures : u = Victim(n) /\ u = Victim(n)' /\ u # v
    BY <1>0, <1>1, <1>3, <2>1 DEF Freeing, DetailTypeOK
  <2>3. \A k \in Mounts : step'[k] = "free" /\ Victim(k)' = u => k = n
    BY <1>3, <2>1, <2>2 DEF Freeing
  <2>4. pc'[n] = "nullCls" /\ u \in heap' \ structs' /\ Made(u)'
    BY <1>0, <1>1, <1>4, <2>1, <2>2 DEF Freeing
  <2> QED
    BY <2>2, <2>3, <2>4 DEF Freeing
<1>7. ASSUME NEW r \in structs'
      PROVE  Complete(r)' /\ Made(r)'
  <2>1. r # v /\ r \in Structures /\ Complete(r) /\ Made(r)
    BY <1>0, <1>2, <1>7 DEF Orderly
  <2> QED
    BY <1>0, <1>1, <1>4, <2>1 DEF Complete
<1>8. ASSUME NEW r \in heap'
      PROVE  \/ r \in structs'
             \/ \E n \in Mounts :
                  \/ step'[n] \in InAlloc /\ r = Own(n)'
                  \/ step'[n] = "free" /\ r = Victim(n)'
  <2>1. r # v /\ r \in heap
    BY <1>0, <1>1, <1>8
  <2>2. step[m] \notin InAlloc
    BY <1>0 DEF InAlloc
  <2> QED
    BY <1>0, <1>1, <1>3, <2>1, <2>2 DEF Orderly
<1>9. ASSUME NEW r \in pins'
      PROVE  Pinned(r)'
  BY <1>0, <1>3, <1>9 DEF Orderly, Pinned
<1> QED
  BY <1>5, <1>6, <1>7, <1>8, <1>9 DEF Orderly

\* A step of the mount that is neither in alloc_jclass_X nor in free_jclass_X.
LEMMA OrderlyElsewhere ==
  ASSUME TypeOK, DetailTypeOK, Orderly, UNCHANGED detail, NEW m \in Mounts,
         \/ CallocFails(m) \/ SkipClass(m) \/ StoreNull(m) \/ OtherStep(m)
         \/ EnterMount(m) \/ EnterMountFails(m) \/ FuseMainReturns(m)
  PROVE  Orderly'
<1>1. CASE CallocFails(m) \/ SkipClass(m) \/ StoreNull(m)
  <2>1. /\ pc[m] \in {"alloc", "freeCls", "nullCls"}
        /\ step[m] = "outside" \/ pc[m] = "freeCls"
        /\ \E to \in {"end", "freeCls"} : pc' = [pc EXCEPT ![m] = to]
        /\ \A n \in Mounts \ {m} : idx'[n] = idx[n]
        /\ UNCHANGED structs
    BY <1>1
       DEF CallocFails, RefuseClass, SkipClass, FreeClass, NextClass,
           StoreNull, NullClass, Goto, TypeOK
  <2>2. step[m] = "outside"
    BY <2>1 DEF Orderly, Filling, Freeing, InAlloc, DetailTypeOK
  <2>3. /\ pc'[m] \in {"end", "freeCls"}
        /\ \A n \in Mounts \ {m} : pc'[n] = pc[n]
    BY <2>1 DEF TypeOK
  <2> QED
    BY <2>1, <2>2, <2>3, OrderlyOutside
<1>2. CASE \/ OtherStep(m) \/ EnterMount(m) \/ EnterMountFails(m)
           \/ FuseMainReturns(m)
  <2>1. /\ pc[m] \notin {"alloc", "nullCls"}
        /\ \E to : pc' = [pc EXCEPT ![m] = to] /\ to # "start"
                   /\ (to = "alloc" => pc[m] = "start")
        /\ \A n \in Mounts \ {m} : idx'[n] = idx[n]
        /\ UNCHANGED structs
    <3>1. CASE EnterMount(m) \/ EnterMountFails(m) \/ FuseMainReturns(m)
      BY <3>1
         DEF EnterMount, EnterMountFails, FuseMainReturns, Goto, TypeOK, world
    <3>2. CASE \/ RetainFs(m) \/ RetainFsFails(m) \/ RetainFsUnnoticed(m)
               \/ RetainTg(m) \/ RetainTgFails(m) \/ RetainTgUnnoticed(m)
      BY <3>2
         DEF RetainFs, RetainFsFails, RetainFsUnnoticed, RetainTg,
             RetainTgFails, RetainTgUnnoticed, AfterRetainFs, Goto,
             TypeOK
    <3>3. CASE \/ FreeThreadGroup(m) \/ NullThreadGroup(m) \/ FreeFuseFS(m)
               \/ NullFuseFS(m) \/ EndMount(m)
      BY <3>3
         DEF FreeThreadGroup, NullThreadGroup, FreeFuseFS, NullFuseFS,
             EndMount, Goto, TypeOK
    <3> QED
      BY <1>2, <3>1, <3>2, <3>3 DEF OtherStep
  <2>2. step[m] = "outside"
    BY <2>1 DEF Orderly, Filling, Freeing, InAlloc, DetailTypeOK
  <2>3. /\ \A n \in Mounts \ {m} : pc'[n] = pc[n]
        /\ pc'[m] # "start"
        /\ pc'[m] = "alloc" => pc[m] = "start"
    BY <2>1 DEF TypeOK
  <2> QED
    BY <2>1, <2>2, <2>3, OrderlyOutside
<1> QED
  BY <1>1, <1>2

\* Callbacks only read the structures.
LEMMA OrderlyRead ==
  ASSUME Orderly, UNCHANGED <<boot, structs, detail>>
  PROVE  Orderly'
BY DEF Orderly, Filling, Freeing, Complete, Made, Pinned, Own, Victim, InAlloc,
       boot, detail

LEMMA OrderlyStep ==
  ASSUME TypeOK, TypeOK', DetailTypeOK, DetailTypeOK', Orderly, DetailNext,
         ~ub'
  PROVE  Orderly'
<1>1. ASSUME NEW m \in Mounts, BindingStep(m)
      PROVE  Orderly'
  <2>1. CASE \/ Calloc(m) \/ FindClass(m) \/ FindClassFails(m) \/ PinClass(m)
             \/ PinClassFails(m) \/ PinClassUnnoticed(m) \/ Lookup(m)
             \/ LookupFails(m) \/ Unpin(m)
    BY <2>1, FillingStep
  <2>2. CASE ReturnStructure(m) \/ Discard(m)
    BY <2>2, OrderlyLeaving
  <2>3. CASE DeleteClassRef(m)
    BY <2>3, OrderlyUnpublishing
  <2>4. CASE FreeStructure(m)
    BY <2>4, OrderlyFreed
  <2>5. CASE CallocFails(m) \/ SkipClass(m) \/ StoreNull(m)
    BY <2>5, OrderlyElsewhere DEF CallocFails, SkipClass, StoreNull
  <2>6. CASE LookupInNull(m)
    BY <2>6 DEF LookupInNull, AllocClassUnnoticed
  <2> QED
    BY <1>1, <2>1, <2>2, <2>3, <2>4, <2>5, <2>6 DEF BindingStep
<1>2. ASSUME NEW m \in Mounts, OtherStep(m)
      PROVE  Orderly'
  BY <1>2, OrderlyElsewhere DEF OtherStep
<1>3. ASSUME UNCHANGED detail, NEW m \in Mounts,
             EnterMount(m) \/ EnterMountFails(m) \/ FuseMainReturns(m)
      PROVE  Orderly'
  BY <1>3, OrderlyElsewhere
<1>5. ASSUME UNCHANGED detail, NEW m \in Mounts, FuseMainMounts(m)
      PROVE  Orderly'
  <2>1. UNCHANGED <<boot, structs>>
    BY <1>5 DEF FuseMainMounts, world
  <2> QED
    BY <1>5, <2>1, OrderlyRead
<1>4. ASSUME UNCHANGED detail, NEW t \in Mounts \X Workers, WorkerStep(t)
      PROVE  Orderly'
  <2>1. UNCHANGED <<boot, structs>>
    BY <1>4
       DEF WorkerStep, GetEnv, GetEnvFails, MakeArguments, CallJava,
           ReadResults, LeaveCallback, world
  <2> QED
    BY <1>4, <2>1, OrderlyRead
<1> QED
  BY <1>1, <1>2, <1>3, <1>4, <1>5 DEF DetailNext

LEMMA DetailInvStart == DetailInit => DetailInv
<1> SUFFICES ASSUME DetailInit PROVE DetailInv
  OBVIOUS
<1>1. TypeOK
  BY TypeInit DEF DetailInit
<1>2. DetailTypeOK
  BY EverySlotLookedUp DEF DetailInit, DetailTypeOK, Structures
<1>3. Orderly
  BY DEF DetailInit, Init, Orderly, InAlloc
<1> QED
  BY <1>1, <1>2, <1>3 DEF DetailInv

LEMMA DetailInvStep == DetailInv /\ [DetailNext]_allVars => DetailInv'
<1> SUFFICES ASSUME DetailInv, [DetailNext]_allVars PROVE DetailInv'
  OBVIOUS
<1>1. TypeOK'
  BY StepMaps, TypeStep DEF DetailInv
<1>2. CASE DetailNext
  <2>1. DetailTypeOK'
    BY <1>2, DetailTypeStep DEF DetailInv
  <2>2. ~ub' => Orderly'
    BY <1>1, <1>2, <2>1, OrderlyStep DEF DetailInv, DetailNext
  <2> QED
    BY <1>1, <2>1, <2>2 DEF DetailInv
<1>3. CASE UNCHANGED allVars
  <2>1. DetailTypeOK'
    BY <1>3 DEF DetailInv, DetailTypeOK, allVars, detail
  <2>2. UNCHANGED <<boot, structs, detail, ub>>
    BY <1>3 DEF allVars, vars, world, flags
  <2> QED
    BY <1>1, <2>1, <2>2, OrderlyRead DEF DetailInv
<1> QED
  BY <1>2, <1>3

LEMMA DetailInvariance == DetailSpec => []DetailInv
BY DetailInvStart, DetailInvStep, PTL DEF DetailSpec

-----------------------------------------------------------------------------
(* The theorems.                                                           *)

\* The structures, the class references and the calls inside alloc_jclass_X
\* and free_jclass_X have their types, and no structure has more IDs than its
\* class has lookups.
THEOREM DetailTypeCorrect == DetailSpec => []DetailTypeOK
<1>1. DetailInv => DetailTypeOK
  BY DEF DetailInv
<1> QED
  BY <1>1, DetailInvariance, PTL

\* A published structure is live, pinned and filled to the last slot, even
\* when calls of mount() overlap.
THEOREM PublishedIsComplete == DetailSpec => []PublishedComplete
<1>1. DetailInv => PublishedComplete
  <2> SUFFICES ASSUME DetailInv, ~ub, NEW s \in structs
               PROVE  /\ s \in heap
                      /\ s \in pins
                      /\ {Lookups[s[2]][i] : i \in 1..ids[s]} = Slots[s[2]]
    BY DEF PublishedComplete
  <2>1. Complete(s) /\ s[2] \in Classes
    BY DEF DetailInv, Orderly, TypeOK
  <2> QED
    BY <2>1, EverySlotLookedUp DEF Complete
<1> QED
  BY <1>1, DetailInvariance, PTL

\* What is allocated and not published is in the hands of a call that is still
\* inside alloc_jclass_X or free_jclass_X.
THEOREM NothingIsDropped == DetailSpec => []NothingDropped
<1>1. DetailInv => NothingDropped
  <2> SUFFICES ASSUME DetailInv, ~ub, NEW s \in (heap \cup pins) \ structs
               PROVE  \E m \in Mounts :
                        \/ step[m] \in InAlloc /\ s = Own(m)
                        \/ step[m] = "free" /\ s = Victim(m)
    BY DEF NothingDropped
  <2>1. CASE s \in heap
    BY <2>1 DEF DetailInv, Orderly
  <2>2. CASE s \in pins
    <3>1. Pinned(s)
      BY <2>2 DEF DetailInv, Orderly
    <3> QED
      BY <3>1 DEF Pinned, InAlloc
  <2> QED
    BY <2>1, <2>2
<1> QED
  BY <1>1, DetailInvariance, PTL

\* alloc_jclass_X and free_jclass_X implement the single steps of FuseMount.
THEOREM ImplementsMount == DetailSpec => ImplementsFuseMount
<1>1. DetailInit => Init
  BY DEF DetailInit
<1>2. DetailInv /\ [DetailNext]_allVars => [Next]_vars
  BY StepMaps
<1> QED
  BY <1>1, <1>2, DetailInvariance, PTL DEF DetailSpec, ImplementsFuseMount, Spec

\* When the calls of mount() did not overlap and all have returned, the C heap
\* and the table of global references are empty.
THEOREM BindingsAreFreed == DetailSpec => []BindingsFreed
<1>1. DetailInv /\ SoleOwner => BindingsFreed
  <2> SUFFICES ASSUME DetailInv, SoleOwner, ~overlapped, ~ub,
                      \A m \in Mounts : ~Active(m)
               PROVE  heap = {} /\ pins = {}
    BY DEF BindingsFreed
  <2>1. structs = {}
    BY DEF SoleOwner, NothingHeld
  <2>2. \A m \in Mounts : step[m] \notin InAlloc /\ step[m] # "free"
    BY DEF DetailInv, Orderly, Filling, Freeing, Active
  <2>3. heap = {}
    BY <2>1, <2>2 DEF DetailInv, Orderly
  <2>4. pins = {}
    BY <2>1, <2>2 DEF DetailInv, Orderly, Pinned, InAlloc
  <2> QED
    BY <2>3, <2>4
<1> QED
  BY <1>1, DetailInvariance, ImplementsMount, SoleOwnership, PTL
     DEF ImplementsFuseMount

\* What FuseMount guarantees of the statics holds of the detailed code.
THEOREM DetailOwnership ==
  DetailSpec => [](SoleOwner /\ UndefinedOnlyByOverlap)
BY ImplementsMount, SoleOwnership, NoUndefinedBehaviour, PTL
   DEF ImplementsFuseMount

\* And what it guarantees to a callback while it runs.
THEOREM DetailStaticsStable == DetailSpec => StaticsStable
BY ImplementsMount, StaticsAreStable, PTL DEF ImplementsFuseMount

\* The same of what happens inside the bindings: with memory for all, one mount
\* frees no structure twice and looks nothing up in a class that is not there.
THEOREM DetailOneMountIsSafe ==
  ASSUME ~OutOfMemory, \A m, n \in Mounts : m = n
  PROVE  DetailSpec => []~ub
BY ImplementsMount, OneMountIsSafe, PTL DEF ImplementsFuseMount

\* One slot of one class for which the class has no member is enough, as is a
\* class that is not there: no call ever gets to mount its file system.
THEOREM OneMissingMemberSuffices ==
  ASSUME NEW c \in Classes, c \notin Found \/ ~(Slots[c] \subseteq Declared[c])
  PROVE  DetailSpec => [](served = {})
<1>1. Loadable # Classes
  BY LoadableResolves
<1> QED
  BY <1>1, ImplementsMount, NothingServed, PTL DEF ImplementsFuseMount

\* When the bindings fit the classes, there is memory for all and libfuse is
\* able to mount, a call that has returned did mount: the code of the bindings
\* and of the boot-up adds no failure of its own.
THEOREM FittingBindingsMount ==
  ASSUME \A c \in Classes : c \in Found /\ Slots[c] \subseteq Declared[c],
         ~OutOfMemory, ~FuseFails, Boot = "jni"
  PROVE  DetailSpec => []UnmountedWasMounted
<1>1. Loadable = Classes
  BY LoadableResolves
<1> QED
  BY <1>1, ImplementsMount, ReturnedWasMounted, PTL DEF ImplementsFuseMount

-----------------------------------------------------------------------------
(* Every step of a call brings it nearer its return.  Remaining falls with *)
(* each step of FuseMount, and Within with each step that is inside        *)
(* alloc_jclass_X or free_jclass_X and is no step of FuseMount.            *)

\* A step inside alloc_jclass_X or free_jclass_X.
LEMMA WithinFalls ==
  ASSUME TypeOK, DetailTypeOK, Orderly, NEW m \in Mounts,
         \/ Calloc(m) \/ FindClass(m) \/ FindClassFails(m) \/ PinClass(m)
         \/ PinClassFails(m) \/ PinClassUnnoticed(m) \/ Lookup(m)
         \/ LookupFails(m) \/ Unpin(m) \/ FreeStructure(m)
  PROVE  /\ Remaining(m)' = Remaining(m)
         /\ Within(m)' < Within(m)
<1> USE DEF To
<1>0. /\ Own(m) \in Structures
      /\ Len(Lookups[idx[m]]) \in Nat
      /\ ids[Own(m)] \in Nat
      /\ ids[Own(m)] <= Len(Lookups[idx[m]])
      /\ step \in [Mounts -> {"outside", "find", "pin", "lookup", "unpin",
                              "discard", "free"}]
      /\ ids \in [Structures -> Nat]
  BY EverySlotLookedUp DEF TypeOK, DetailTypeOK, Own, Structures
<1>1. UNCHANGED <<pc, idx>> /\ Own(m)' = Own(m)
  BY DEF Calloc, FindClass, FindClassFails, PinClass, PinClassFails,
         PinClassUnnoticed, Lookup, LookupFails, Unpin, FreeStructure, vars,
         boot, Own
<1>2. Remaining(m)' = Remaining(m)
  BY <1>1 DEF Remaining
<1>3. CASE Calloc(m)
  <2>1. step[m] = "outside" /\ step'[m] = "find" /\ pc[m] = "alloc"
    BY <1>0, <1>3 DEF Calloc
  <2> QED
    BY <1>0, <1>1, <1>2, <2>1 DEF Within
<1>4. CASE FindClass(m) \/ FindClassFails(m)
  <2>1. step[m] = "find" /\ step'[m] \in {"pin", "unpin"}
    BY <1>0, <1>4 DEF FindClass, FindClassFails
  <2> QED
    BY <1>0, <1>1, <1>2, <2>1 DEF Within
<1>5. CASE PinClass(m) \/ PinClassFails(m) \/ PinClassUnnoticed(m)
  <2>1. /\ step[m] = "pin" /\ step'[m] \in {"lookup", "unpin"}
        /\ UNCHANGED ids
    BY <1>0, <1>5 DEF PinClass, PinClassFails, PinClassUnnoticed
  <2> QED
    BY <1>0, <1>1, <1>2, <2>1 DEF Within
<1>6. CASE Lookup(m)
  <2>1. /\ step[m] = "lookup" /\ UNCHANGED step
        /\ ids[Own(m)] < Len(Lookups[idx[m]])
        /\ ids'[Own(m)] = ids[Own(m)] + 1
    BY <1>0, <1>6 DEF Lookup, NextSlot
  <2> QED
    BY <1>0, <1>1, <1>2, <2>1 DEF Within
<1>7. CASE LookupFails(m) \/ Unpin(m)
  <2>1. \/ step[m] = "lookup" /\ step'[m] = "unpin"
        \/ step[m] = "unpin" /\ step'[m] = "discard"
    BY <1>0, <1>7 DEF LookupFails, NextSlot, Unpin
  <2> QED
    BY <1>0, <1>1, <1>2, <2>1 DEF Within
<1>8. CASE FreeStructure(m)
  <2>1. step[m] = "free" /\ step'[m] = "outside" /\ pc[m] = "nullCls"
    BY <1>0, <1>8 DEF FreeStructure, Orderly, Freeing
  <2> QED
    BY <1>0, <1>1, <1>2, <2>1 DEF Within
<1> QED
  BY <1>3, <1>4, <1>5, <1>6, <1>7, <1>8

\* A step of one call leaves every other call where it is.
LEMMA PositionsStay ==
  ASSUME TypeOK, DetailTypeOK, NEW m \in Mounts, NEW n \in Mounts, n # m,
         BindingStep(m)
  PROVE  Position(n)' = Position(n)
<1> USE DEF To
<1>1. Own(n) # Own(m) /\ Own(n) \in Structures /\ Own(m) \in Structures
  BY DEF Own, TypeOK, Structures
<1>2. pc'[n] = pc[n] /\ idx'[n] = idx[n]
  BY DEF BindingStep, Calloc, CallocFails, FindClass, FindClassFails,
         PinClass, PinClassFails, PinClassUnnoticed, Lookup, LookupFails,
         LookupInNull, ReturnStructure, Unpin, Discard, DeleteClassRef,
         FreeStructure, SkipClass, StoreNull, PublishClass, RefuseClass,
         AllocClassUnnoticed, FreeClass, NullClass, NextClass, Goto, TypeOK,
         vars, boot
<1>3. step'[n] = step[n]
  BY DEF BindingStep, Calloc, CallocFails, FindClass, FindClassFails,
         PinClass, PinClassFails, PinClassUnnoticed, Lookup, LookupFails,
         LookupInNull, ReturnStructure, Unpin, Discard, DeleteClassRef,
         FreeStructure, SkipClass, StoreNull, detail, DetailTypeOK
<1>4. ids'[Own(n)] = ids[Own(n)]
  BY <1>1
     DEF BindingStep, Calloc, CallocFails, FindClass, FindClassFails,
         PinClass, PinClassFails, PinClassUnnoticed, Lookup, LookupFails,
         LookupInNull, ReturnStructure, Unpin, Discard, DeleteClassRef,
         FreeStructure, SkipClass, StoreNull, detail, DetailTypeOK
<1>5. Own(n)' = Own(n)
  BY <1>2 DEF Own
<1> QED
  BY <1>2, <1>3, <1>4, <1>5 DEF Position

\* A step of a call that is one of FuseMount's.
LEMMA BindingRemainingFalls ==
  ASSUME TypeOK, NEW m \in Mounts,
         \/ CallocFails(m) \/ ReturnStructure(m) \/ Discard(m)
         \/ DeleteClassRef(m) \/ SkipClass(m) \/ StoreNull(m)
  PROVE  Remaining(m)' < Remaining(m)
<1>1. CASE CallocFails(m) \/ Discard(m) \/ ReturnStructure(m)
  BY <1>1, ConstantsOK
     DEF CallocFails, Discard, ReturnStructure, PublishClass, RefuseClass,
         ConstantAssumptions, TypeOK, Goto, Classes, Remaining
<1>2. CASE DeleteClassRef(m) \/ SkipClass(m) \/ StoreNull(m)
  BY <1>2, RemainingFalls
     DEF DeleteClassRef, SkipClass, StoreNull, MountStep
<1> QED
  BY <1>1, <1>2

LEMMA AdvancesStep ==
  ASSUME DetailInv, DetailNext, NEW n \in Mounts, Position(n)' # Position(n)
  PROVE  \/ Remaining(n)' < Remaining(n)
         \/ Remaining(n)' = Remaining(n) /\ Within(n)' < Within(n)
<1>0. TypeOK /\ DetailTypeOK /\ Orderly
  BY DEF DetailInv, DetailNext
<1>1. ASSUME NEW m \in Mounts, BindingStep(m)
      PROVE  \/ Remaining(n)' < Remaining(n)
             \/ Remaining(n)' = Remaining(n) /\ Within(n)' < Within(n)
  <2>1. m = n
    BY <1>0, <1>1, PositionsStay
  <2>2. CASE \/ Calloc(m) \/ FindClass(m) \/ FindClassFails(m) \/ PinClass(m)
             \/ PinClassFails(m) \/ PinClassUnnoticed(m) \/ Lookup(m)
             \/ LookupFails(m) \/ Unpin(m) \/ FreeStructure(m)
    BY <1>0, <2>1, <2>2, WithinFalls
  <2>3. CASE \/ CallocFails(m) \/ ReturnStructure(m) \/ Discard(m)
             \/ DeleteClassRef(m) \/ SkipClass(m) \/ StoreNull(m)
    BY <1>0, <2>1, <2>3, BindingRemainingFalls
  <2>4. CASE LookupInNull(m)
    BY <2>4 DEF LookupInNull, AllocClassUnnoticed, Position, Own, boot, detail
  <2> QED
    BY <1>1, <2>2, <2>3, <2>4 DEF BindingStep
<1>2. ASSUME UNCHANGED detail, NEW m \in Mounts,
             \/ MountStep(m) \/ EnterMount(m) \/ EnterMountFails(m)
             \/ FuseMainReturns(m)
      PROVE  Remaining(n)' < Remaining(n)
  <2>1. CASE m = n
    BY <1>0, <1>2, <2>1, RemainingFalls
  <2>2. CASE m # n
    <3>1. pc'[n] = pc[n] /\ idx'[n] = idx[n]
      BY <1>0, <1>2, <2>2, OthersStay
    <3>2. Position(n)' = Position(n)
      BY <1>2, <3>1 DEF Position, Own, detail
    <3> QED
      BY <3>2
  <2> QED
    BY <2>1, <2>2
<1>3. ASSUME NEW m \in Mounts, OtherStep(m)
      PROVE  Remaining(n)' < Remaining(n)
  BY <1>2, <1>3 DEF OtherStep, MountStep
<1>4. ASSUME UNCHANGED detail, NEW t \in Mounts \X Workers, WorkerStep(t)
      PROVE  FALSE
  BY <1>4
     DEF WorkerStep, GetEnv, GetEnvFails, MakeArguments, CallJava,
         ReadResults, LeaveCallback, boot, Position, Own, detail
<1>5. ASSUME UNCHANGED detail, NEW m \in Mounts, FuseMainMounts(m)
      PROVE  FALSE
  BY <1>5 DEF FuseMainMounts, boot, Position, Own, detail
<1> QED
  BY <1>1, <1>2, <1>3, <1>4, <1>5 DEF DetailNext

LEMMA MeasuresNat ==
  ASSUME DetailInv, NEW m \in Mounts
  PROVE  Remaining(m) \in Nat /\ Within(m) \in Nat
<1>1. Remaining(m) \in Nat
  BY RemainingNat DEF DetailInv
<1>2. /\ Own(m) \in Structures
      /\ Len(Lookups[idx[m]]) \in Nat
      /\ ids[Own(m)] \in Nat
      /\ ids[Own(m)] <= Len(Lookups[idx[m]])
      /\ step[m] \in {"outside", "find", "pin", "lookup", "unpin",
                      "discard", "free"}
  BY EverySlotLookedUp DEF DetailInv, TypeOK, DetailTypeOK, Own, Structures
<1>3. Within(m) \in Nat
  BY <1>2 DEF Within
<1> QED
  BY <1>1, <1>3

\* Each step of a call brings it nearer its return, by a pair of natural
\* numbers that falls lexicographically: however often calls fail and however
\* they overlap, a call takes finitely many steps.
THEOREM MountsAdvance ==
  DetailSpec => /\ MountAdvances
                /\ [](\A m \in Mounts : Remaining(m) \in Nat /\ Within(m) \in Nat)
<1>1. DetailInv /\ [DetailNext]_allVars =>
        [\A m \in Mounts :
           Position(m)' # Position(m) =>
             \/ Remaining(m)' < Remaining(m)
             \/ Remaining(m)' = Remaining(m) /\ Within(m)' < Within(m)]_allVars
  BY AdvancesStep
<1>2. DetailInv => \A m \in Mounts : Remaining(m) \in Nat /\ Within(m) \in Nat
  BY MeasuresNat
<1> QED
  BY <1>1, <1>2, DetailInvariance, PTL DEF DetailSpec, MountAdvances

=============
