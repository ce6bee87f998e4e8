-------------------------- MODULE FileHandlesProofs --------------------------
(***************************************************************************)
(* Proofs about FileHandles, for any number of files, threads and slots.   *)
(*                                                                         *)
(* Bookkeeping and the type invariant are inductive together, whatever the *)
(* JVM makes of the stale DeleteLocalRef.  With SafeDelete the table of    *)
(* references stays exact, and the code keeps the promise of HandleService *)
(* step by step.                                                           *)
(***************************************************************************)
EXTENDS FileHandles, TLAPS

LEMMA NullIsNoFile == NULL \notin Files /\ NULL \notin Slots
BY NULLAssumption

LEMMA IdleFacts == /\ Idle.op = "none" /\ Idle.at = "idle"
                   /\ Idle.file = NULL /\ Idle.obj = NULL
BY DEF Idle

LEMMA CallbackFacts ==
  ASSUME NEW op, NEW f
  PROVE  /\ Callback(op, f).op = op /\ Callback(op, f).at = "prepare"
         /\ Callback(op, f).file = f /\ Callback(op, f).obj = NULL
BY DEF Callback

IInv == TypeOK /\ Bookkeeping

\* What the invariant says of a thread that is inside a callback.
LEMMA InCallback ==
  ASSUME IInv, NEW t \in Threads
  PROVE  /\ thread[t].op \in {"open", "use", "release"} => File(t) \in Files
         /\ Busy(t, "open") => life[File(t)] = "opening"
         /\ Busy(t, "use") => life[File(t)] = "open"
         /\ thread[t].at \in {"prepare", "java"} =>
              thread[t].op \in {"open", "use", "release"}
         /\ At(t, "release", "deleteLocal") <=>
              Busy(t, "release") /\ life[File(t)] = "unpinning"
         /\ thread[t].at = "store" => Busy(t, "open")
         /\ \A u \in Threads : u # t /\ ~Busy(t, "use") /\ File(t) \in Files =>
              File(u) # File(t)
<1> USE NullIsNoFile, IdleFacts
<1>1. Engaged(t) /\ \A u \in Threads : Apart(t, u)
  BY DEF IInv, Bookkeeping
<1> QED
  BY <1>1 DEF Engaged, Apart, Busy, File, At

-----------------------------------------------------------------------------
(* Type correctness and bookkeeping.                                       *)

ThreadType ==
  [op : {"none", "open", "use", "release"},
   file : Files \cup {NULL},
   at : {"idle", "prepare", "java", "store", "deleteGlobal", "deleteLocal"},
   obj : Files \cup {NULL}]

LEMMA IdleType == Idle \in ThreadType
BY DEF Idle, ThreadType

LEMMA CallbackType ==
  ASSUME NEW op \in {"open", "use", "release"}, NEW f \in Files
  PROVE  Callback(op, f) \in ThreadType
BY DEF Callback, ThreadType

LEMMA ThreadStepType ==
  ASSUME IInv, NEW t \in Threads, Ask(t) \/ Run(t)
  PROVE  thread' \in [Threads -> ThreadType]
<1> USE IdleType, CallbackType
<1>0. thread \in [Threads -> ThreadType] /\ File(t) \in Files \cup {NULL}
  BY DEF IInv, TypeOK, ThreadType, File
<1>1. CASE Ask(t)
  BY <1>0, <1>1 DEF Ask, AskOpen, AskUse, AskRelease
<1>2. CASE CallJava(t)
  <2>1. Deref(fh[File(t)]) \in Files \cup {NULL} \/ Busy(t, "open")
    BY <1>2, InCallback DEF CallJava, Deref, IInv, TypeOK, Busy
  <2>2. thread'[t] = [thread[t] EXCEPT !.at = "java", !.obj = thread'[t].obj]
    BY <1>0, <1>2 DEF CallJava, ThreadType
  <2>3. thread'[t].obj \in Files \cup {NULL}
    BY <1>0, <1>2, <2>1 DEF CallJava, ThreadType, Busy
  <2>4. thread' = [thread EXCEPT ![t] = thread'[t]]
    BY <1>0, <1>2 DEF CallJava, ThreadType
  <2>5. thread'[t] \in ThreadType
    BY <1>0, <2>2, <2>3 DEF ThreadType
  <2> QED
    BY <1>0, <2>4, <2>5
<1>3. ASSUME NEW at \in {"store", "deleteGlobal", "deleteLocal"}, Goto(t, at)
      PROVE  thread' \in [Threads -> ThreadType]
  BY <1>0, <1>3 DEF Goto, ThreadType
<1>4. CASE Reply(t)
  BY <1>0, <1>4 DEF Reply
<1>5. CASE ReleaseReturns(t)
  BY <1>0, <1>5 DEF ReleaseReturns, ThreadType
<1> QED
  BY <1>1, <1>2, <1>3, <1>4, <1>5
     DEF Run, PrepareFails, OpenThrows, OpenReturns, UseReturns, StoreHandle,
         StoreHandleFails, DeleteGlobal, DeleteLocal

LEMMA StepType ==
  ASSUME IInv, NEW t \in Threads, Ask(t) \/ Run(t)
  PROVE  TypeOK'
<1>0. thread' \in [Threads -> ThreadType]
  BY ThreadStepType
<1>1. /\ thread[t].at \in {"prepare", "java"} => File(t) \in Files
      /\ Busy(t, "open") \/ Busy(t, "release") => File(t) \in Files
  BY InCallback DEF Busy
<1>2. life' \in [Files -> Lives] /\ fh' \in [Files -> Slots \cup {NULL}]
  <2> USE <1>1 DEF IInv, TypeOK, Lives, Becomes, kernel
  <2>1. CASE Ask(t)
    BY <2>1 DEF Ask, AskOpen, AskUse, AskRelease
  <2>2. CASE Run(t)
    BY <2>2
       DEF Run, CallJava, PrepareFails, OpenThrows, OpenReturns, UseReturns,
           ReleaseReturns, StoreHandle, StoreHandleFails, DeleteGlobal,
           DeleteLocal
  <2> QED
    BY <2>1, <2>2
<1>3. table' \in [Slots -> Files \cup {NULL}]
  BY <1>1
     DEF IInv, TypeOK, Ask, AskOpen, AskUse, AskRelease, Run, CallJava,
         PrepareFails, OpenThrows, OpenReturns, UseReturns, ReleaseReturns,
         StoreHandle, StoreHandleFails, DeleteGlobal, DeleteLocal, At, Busy
<1>4. /\ pending' \subseteq Threads /\ given' \subseteq Files
      /\ told' \subseteq Files /\ skipped' \subseteq Files
      /\ lost' \subseteq given'
  BY <1>1
     DEF IInv, TypeOK, Ask, AskOpen, AskUse, AskRelease, Run, CallJava,
         PrepareFails, OpenThrows, OpenReturns, UseReturns, ReleaseReturns,
         StoreHandle, StoreHandleFails, DeleteGlobal, DeleteLocal, At, Busy,
         history
<1> QED
  BY <1>0, <1>2, <1>3, <1>4 DEF TypeOK, ThreadType
\* A step of thread t about the opening f leaves the other threads and the
\* other openings alone.
LEMMA Frame ==
  ASSUME IInv, NEW t \in Threads, NEW f \in Files,
         \A u \in Threads : u # t => thread'[u] = thread[u],
         \A g \in Files : g # f => /\ life'[g] = life[g] /\ fh'[g] = fh[g]
                                   /\ g \in given' <=> g \in given
                                   /\ g \in lost' <=> g \in lost,
         told \subseteq told', skipped \subseteq skipped',
         \A u \in Threads : u # t /\ File(u) = f =>
           Busy(u, "use") /\ life'[f] = life[f],
         Engaged(t)', FhOf(f)',
         \A u \in Threads : Apart(t, u)' /\ Apart(u, t)'
  PROVE  Bookkeeping'
<1>1. ASSUME NEW u \in Threads PROVE Engaged(u)'
  <2>1. CASE u = t
    BY <2>1
  <2>2. CASE u # t /\ File(u) = f
    BY <2>2, NullIsNoFile, IdleFacts
       DEF IInv, Bookkeeping, Engaged, Busy, File
  <2>3. CASE u # t /\ File(u) # f
    <3>1. Engaged(u) /\ thread'[u] = thread[u]
      BY <2>3 DEF IInv, Bookkeeping
    <3> QED
      BY <2>3, <3>1 DEF Engaged, Busy, File
  <2> QED
    BY <2>1, <2>2, <2>3
<1>2. ASSUME NEW u \in Threads, NEW v \in Threads PROVE Apart(u, v)'
  <2>1. CASE u = t \/ v = t
    BY <2>1
  <2>2. CASE u # t /\ v # t
    BY <2>2 DEF IInv, Bookkeeping, Apart, Busy, File
  <2> QED
    BY <2>1, <2>2
<1>3. ASSUME NEW g \in Files PROVE FhOf(g)'
  <2>1. CASE g # f
    BY <2>1 DEF IInv, Bookkeeping, FhOf
  <2> QED
    BY <2>1
<1> QED
  BY <1>1, <1>2, <1>3 DEF Bookkeeping

LEMMA AskKeeps ==
  ASSUME IInv, NEW t \in Threads, Ask(t)
  PROVE  Bookkeeping'
<1> USE NullIsNoFile, IdleFacts, CallbackFacts
<1>0. /\ thread \in [Threads -> ThreadType] /\ life \in [Files -> Lives]
      /\ UNCHANGED <<fh, history>>
  BY DEF IInv, TypeOK, ThreadType, Ask, AskOpen, AskUse, AskRelease, kernel
<1>1. ASSUME NEW f \in Files, AskOpen(t, f) PROVE Bookkeeping'
  <2>1. /\ life[f] = "new" /\ life' = [life EXCEPT ![f] = "opening"]
        /\ thread' = [thread EXCEPT ![t] = Callback("open", f)]
    BY <1>1 DEF AskOpen, Becomes
  <2>2. \A u \in Threads : File(u) # f
    BY <2>1 DEF IInv, Bookkeeping, Engaged, File
  <2>3. Engaged(t)'
    BY <1>0, <2>1 DEF Engaged, Busy, File, IInv, Bookkeeping, FhOf, history
  <2>4. \A u \in Threads : Apart(t, u)' /\ Apart(u, t)'
    BY <1>0, <2>1, <2>2 DEF Apart, File
  <2>5. FhOf(f)'
    BY <1>0, <2>1 DEF IInv, Bookkeeping, FhOf, history
  <2> QED
    BY <1>0, <2>1, <2>2, <2>3, <2>4, <2>5, Frame DEF history
<1>2. ASSUME NEW f \in Files, AskUse(t, f) PROVE Bookkeeping'
  <2>1. /\ life[f] = "open" /\ UNCHANGED life
        /\ thread' = [thread EXCEPT ![t] = Callback("use", f)]
    BY <1>2 DEF AskUse, kernel
  <2>2. \A u \in Threads : File(u) = f => Busy(u, "use")
    BY <2>1 DEF IInv, Bookkeeping, Engaged, File
  <2>3. Engaged(t)'
    BY <1>0, <2>1 DEF Engaged, Busy, File
  <2>4. \A u \in Threads : Apart(t, u)' /\ Apart(u, t)'
    BY <1>0, <2>1, <2>2 DEF Apart, File, Busy
  <2>5. FhOf(f)'
    BY <1>0, <2>1 DEF IInv, Bookkeeping, FhOf, history
  <2> QED
    BY <1>0, <2>1, <2>2, <2>3, <2>4, <2>5, Frame DEF history
<1>3. ASSUME NEW f \in Files, AskRelease(t, f) PROVE Bookkeeping'
  <2>1. /\ life[f] = "open" /\ life' = [life EXCEPT ![f] = "releasing"]
        /\ thread' = [thread EXCEPT ![t] = Callback("release", f)]
        /\ \A u \in Threads : File(u) # f
    BY <1>3 DEF AskRelease, Becomes
  <2>3. Engaged(t)'
    BY <1>0, <2>1 DEF Engaged, Busy, File
  <2>4. \A u \in Threads : Apart(t, u)' /\ Apart(u, t)'
    BY <1>0, <2>1 DEF Apart, File
  <2>5. FhOf(f)'
    BY <1>0, <2>1 DEF IInv, Bookkeeping, FhOf, history
  <2> QED
    BY <1>0, <2>1, <2>3, <2>4, <2>5, Frame DEF history
<1> QED
  BY <1>1, <1>2, <1>3 DEF Ask
\* A thread inside a callback goes on with it, or replies.
LEMMA RunFrame ==
  ASSUME IInv, NEW t \in Threads, NEW f \in Files, f = File(t),
         NEW next, thread' = [thread EXCEPT ![t] = next],
         next = Idle \/ (next.file = f /\ next.op = thread[t].op),
         \A g \in Files : g # f => /\ life'[g] = life[g] /\ fh'[g] = fh[g]
                                   /\ g \in given' <=> g \in given
                                   /\ g \in lost' <=> g \in lost,
         told \subseteq told', skipped \subseteq skipped',
         Busy(t, "use") => UNCHANGED life,
         Engaged(t)', FhOf(f)'
  PROVE  Bookkeeping'
<1> USE NullIsNoFile, IdleFacts
<1>0. thread'[t] = next /\ \A u \in Threads : u # t => thread'[u] = thread[u]
  BY DEF IInv, TypeOK
<1>1. \A u \in Threads : Apart(t, u) /\ Apart(u, t)
  BY DEF IInv, Bookkeeping
<1>2. \A u \in Threads : Apart(t, u)' /\ Apart(u, t)'
  BY <1>0, <1>1 DEF Apart, Busy, File
<1>3. \A u \in Threads : u # t /\ File(u) = f =>
        Busy(u, "use") /\ life'[f] = life[f]
  BY <1>1 DEF Apart
<1> QED
  BY <1>0, <1>2, <1>3, Frame

LEMMA RunKeeps ==
  ASSUME IInv, NEW t \in Threads, Run(t)
  PROVE  Bookkeeping'
<1> USE NullIsNoFile, IdleFacts
<1>f. File(t) \in Files
  BY InCallback
     DEF Run, CallJava, PrepareFails, OpenThrows, OpenReturns, UseReturns,
         ReleaseReturns, StoreHandle, StoreHandleFails, DeleteGlobal,
         DeleteLocal, At
<1> PICK f \in Files : f = File(t)
  BY <1>f
<1>0. /\ thread \in [Threads -> ThreadType] /\ life \in [Files -> Lives]
      /\ fh \in [Files -> Slots \cup {NULL}]
      /\ f = thread[t].file
      /\ thread[t] = Idle => thread[t].at = "idle"
  BY DEF IInv, TypeOK, ThreadType, File
<1>1. Engaged(t) /\ FhOf(f)
  BY DEF IInv, Bookkeeping
<1>2. CASE CallJava(t)
  <2>1. thread[t].op \in {"open", "use", "release"}
    BY <1>2, InCallback DEF CallJava
  <2> PICK next : next = [thread[t] EXCEPT !.at = "java", !.obj = thread'[t].obj]
    OBVIOUS
  <2>2. /\ thread' = [thread EXCEPT ![t] = next]
        /\ next.file = f /\ next.op = thread[t].op /\ next.at = "java"
        /\ next.op = "open" => next.obj = NULL
        /\ thread'[t] = next
    BY <1>0, <1>2 DEF CallJava, ThreadType
  <2>3. /\ UNCHANGED <<life, fh, given, lost, skipped>>
        /\ told \subseteq told'
        /\ Busy(t, "release") => f \in told'
    BY <1>2 DEF CallJava, kernel
  <2>4. Engaged(t)'
    BY <1>1, <1>2, <2>1, <2>2, <2>3 DEF Engaged, Busy, File, CallJava
  <2>5. FhOf(f)'
    BY <1>1, <2>1, <2>2, <2>3 DEF FhOf, File
  <2> QED
    BY <2>1, <2>2, <2>3, <2>4, <2>5, RunFrame
<1>3. CASE PrepareFails(t)
  <2>1. UNCHANGED <<fh, given, lost, told>>
    BY <1>3, InCallback DEF PrepareFails
  <2>2. CASE Busy(t, "open") /\ Becomes(f, "failed") /\ Reply(t)
             /\ UNCHANGED skipped
    <3>1. life' = [life EXCEPT ![f] = "failed"] /\ life[f] = "opening"
      BY <2>2, InCallback DEF Becomes
    <3>2. thread' = [thread EXCEPT ![t] = Idle] /\ Engaged(t)'
      BY <1>0, <2>2 DEF Reply, Engaged
    <3>3. FhOf(f)'
      BY <1>0, <1>1, <2>1, <3>1 DEF FhOf
    <3> QED
      BY <1>0, <2>1, <2>2, <3>1, <3>2, <3>3, RunFrame DEF Busy
  <2>3. CASE Busy(t, "use") /\ Reply(t) /\ UNCHANGED <<life, skipped>>
    <3>1. thread' = [thread EXCEPT ![t] = Idle] /\ Engaged(t)'
      BY <1>0, <2>3 DEF Reply, Engaged
    <3>2. FhOf(f)'
      BY <1>1, <2>1, <2>3 DEF FhOf
    <3> QED
      BY <2>1, <2>3, <3>1, <3>2, RunFrame
  <2>4. CASE Busy(t, "release") /\ Goto(t, "deleteGlobal") /\ UNCHANGED life
             /\ skipped' = skipped \cup {f}
    <3> PICK next : next = [thread[t] EXCEPT !.at = "deleteGlobal"]
      OBVIOUS
    <3>1. /\ thread' = [thread EXCEPT ![t] = next] /\ thread'[t] = next
          /\ next.file = f /\ next.op = "release" /\ next.op = thread[t].op
          /\ next.at = "deleteGlobal"
      BY <1>0, <2>4 DEF Goto, ThreadType, Busy
    <3>2. life[f] = "releasing"
      BY <1>1, <1>3, <2>4 DEF Engaged, Busy, PrepareFails
    <3>3. Engaged(t)'
      BY <1>0, <2>1, <2>4, <3>1, <3>2 DEF Engaged, Busy, File
    <3>4. FhOf(f)'
      BY <1>1, <2>1, <2>4 DEF FhOf
    <3> QED
      BY <2>1, <2>4, <3>1, <3>3, <3>4, RunFrame
  <2> QED
    BY <1>3, <2>2, <2>3, <2>4 DEF PrepareFails
<1>4. CASE OpenThrows(t)
  <2>1. /\ UNCHANGED <<fh, history>> /\ life[f] = "opening"
        /\ life' = [life EXCEPT ![f] = "failed"]
        /\ thread' = [thread EXCEPT ![t] = Idle]
        /\ ~Busy(t, "use")
    BY <1>4, InCallback DEF OpenThrows, At, Busy, Becomes, Reply
  <2>2. Engaged(t)'
    BY <1>0, <2>1 DEF Engaged
  <2>3. FhOf(f)'
    BY <1>0, <1>1, <2>1 DEF FhOf, history
  <2> QED
    BY <1>0, <2>1, <2>2, <2>3, RunFrame DEF history
<1>5. ASSUME NEW h \in BOOLEAN, OpenReturns(t, h) PROVE Bookkeeping'
  <2> PICK next : next = [thread[t] EXCEPT !.at = "store"]
    OBVIOUS
  <2>1. /\ UNCHANGED <<life, fh, lost, told, skipped>>
        /\ life[f] = "opening" /\ given \subseteq given'
        /\ given' \subseteq given \cup {f}
        /\ ~Busy(t, "use")
    BY <1>5, InCallback DEF OpenReturns, At, Busy, kernel
  <2>2. /\ thread' = [thread EXCEPT ![t] = next] /\ thread'[t] = next
        /\ next.file = f /\ next.op = "open" /\ next.op = thread[t].op
        /\ next.at = "store" /\ next.obj = thread[t].obj
    BY <1>0, <1>5 DEF OpenReturns, Goto, ThreadType, At
  <2>3. Engaged(t)'
    BY <1>0, <1>1, <2>1, <2>2 DEF Engaged, Busy, File
  <2>4. FhOf(f)'
    BY <1>1, <2>1 DEF FhOf
  <2> QED
    BY <2>1, <2>2, <2>3, <2>4, RunFrame
<1>6. CASE UseReturns(t)
  <2>1. UNCHANGED <<life, fh, history>>
    BY <1>6, InCallback DEF UseReturns, At, kernel
  <2>2. thread' = [thread EXCEPT ![t] = Idle] /\ Engaged(t)'
    BY <1>0, <1>6 DEF UseReturns, Reply, Engaged
  <2>3. FhOf(f)'
    BY <1>1, <2>1 DEF FhOf, history
  <2> QED
    BY <2>1, <2>2, <2>3, RunFrame DEF history
<1>7. CASE ReleaseReturns(t)
  <2> PICK next : next = [thread[t] EXCEPT !.at = "deleteGlobal", !.obj = NULL]
    OBVIOUS
  <2>1. UNCHANGED <<life, fh, history>>
    BY <1>7, InCallback DEF ReleaseReturns, At, kernel
  <2>2. /\ thread' = [thread EXCEPT ![t] = next] /\ thread'[t] = next
        /\ next.file = f /\ next.op = "release" /\ next.op = thread[t].op
        /\ next.at = "deleteGlobal"
    BY <1>0, <1>7 DEF ReleaseReturns, ThreadType, At
  <2>3. life[f] = "releasing" /\ f \in told \cup skipped
    BY <1>1, <1>7 DEF Engaged, Busy, ReleaseReturns, At
  <2>4. Engaged(t)'
    BY <2>1, <2>2, <2>3 DEF Engaged, Busy, File, history
  <2>5. FhOf(f)'
    BY <1>1, <2>1 DEF FhOf, history
  <2> QED
    BY <2>1, <2>2, <2>4, <2>5, RunFrame DEF history
<1>8. ASSUME NEW s \in Slots \cup {NULL}, StoreHandle(t, s)
      PROVE  Bookkeeping'
  <2>1. /\ UNCHANGED history /\ life[f] = "opening"
        /\ life' = [life EXCEPT ![f] = "open"]
        /\ fh' = [fh EXCEPT ![f] = s]
        /\ f \in given <=> s # NULL
        /\ thread' = [thread EXCEPT ![t] = Idle] /\ ~Busy(t, "use")
    BY <1>8, InCallback DEF StoreHandle, At, Busy, Becomes, Reply
  <2>2. Engaged(t)'
    BY <1>0, <2>1 DEF Engaged
  <2>3. FhOf(f)'
    BY <1>0, <1>1, <2>1 DEF FhOf, history
  <2> QED
    BY <1>0, <2>1, <2>2, <2>3, RunFrame DEF history
<1>9. ASSUME NEW x \in BOOLEAN, StoreHandleFails(t, x) PROVE Bookkeeping'
  <2>1. /\ UNCHANGED <<given, told, skipped>>
        /\ life[f] = "opening" /\ life' = [life EXCEPT ![f] = "open"]
        /\ fh' = [fh EXCEPT ![f] = NULL] /\ lost' = lost \cup {f}
        /\ thread' = [thread EXCEPT ![t] = Idle] /\ ~Busy(t, "use")
    BY <1>9, InCallback DEF StoreHandleFails, At, Busy, Becomes, Reply
  <2>2. Engaged(t)'
    BY <1>0, <2>1 DEF Engaged
  <2>3. FhOf(f)'
    BY <1>0, <1>1, <2>1 DEF FhOf
  <2> QED
    BY <1>0, <2>1, <2>2, <2>3, RunFrame
<1>10. CASE DeleteGlobal(t)
  <2>1. /\ UNCHANGED <<fh, history>> /\ ~Busy(t, "use")
        /\ f \in told \cup skipped
    BY <1>1, <1>10, InCallback DEF DeleteGlobal, At, Busy, Engaged
  <2>2. CASE fh[f] = NULL
    <3>1. /\ life' = [life EXCEPT ![f] = "closed"]
          /\ thread' = [thread EXCEPT ![t] = Idle]
      BY <1>10, <2>2 DEF DeleteGlobal, Becomes, Reply
    <3>2. Engaged(t)'
      BY <1>0, <3>1 DEF Engaged
    <3>3. FhOf(f)'
      BY <1>0, <1>1, <2>1, <2>2, <3>1 DEF FhOf, history
    <3> QED
      BY <1>0, <2>1, <3>1, <3>2, <3>3, RunFrame DEF history
  <2>3. CASE fh[f] # NULL
    <3> PICK next : next = [thread[t] EXCEPT !.at = "deleteLocal"]
      OBVIOUS
    <3>1. /\ life' = [life EXCEPT ![f] = "unpinning"]
          /\ thread' = [thread EXCEPT ![t] = next] /\ thread'[t] = next
          /\ next.file = f /\ next.op = "release" /\ next.op = thread[t].op
          /\ next.at = "deleteLocal"
      BY <1>0, <1>10, <2>3 DEF DeleteGlobal, Becomes, Goto, ThreadType, At
    <3>2. Engaged(t)'
      BY <1>0, <2>1, <3>1 DEF Engaged, Busy, File, history
    <3>3. FhOf(f)'
      BY <1>0, <1>1, <1>10, <2>1, <2>3, <3>1 DEF FhOf, history, DeleteGlobal
    <3> QED
      BY <1>0, <2>1, <3>1, <3>2, <3>3, RunFrame DEF history
  <2> QED
    BY <2>2, <2>3
<1>11. CASE DeleteLocal(t)
  <2>1. /\ UNCHANGED history /\ ~Busy(t, "use")
        /\ life' = [life EXCEPT ![f] = "closed"]
        /\ fh' = [fh EXCEPT ![f] = NULL]
        /\ thread' = [thread EXCEPT ![t] = Idle]
    BY <1>11, InCallback DEF DeleteLocal, At, Busy, Becomes, Reply
  <2>2. Engaged(t)'
    BY <1>0, <2>1 DEF Engaged
  <2>3. FhOf(f)'
    BY <1>0, <1>1, <2>1 DEF FhOf, history
  <2> QED
    BY <1>0, <2>1, <2>2, <2>3, RunFrame DEF history
<1> QED
  BY <1>2, <1>3, <1>4, <1>5, <1>6, <1>7, <1>8, <1>9, <1>10, <1>11 DEF Run
LEMMA InitIInv ==
  ASSUME Init
  PROVE  IInv
<1>1. TypeOK
  <2>1. thread \in [Threads -> ThreadType]
    BY IdleType DEF Init
  <2> QED
    BY <2>1 DEF Init, TypeOK, ThreadType, Lives
<1>2. Bookkeeping
  BY IdleFacts DEF Init, Bookkeeping, Engaged, Apart, FhOf, File, Busy
<1> QED
  BY <1>1, <1>2 DEF IInv

LEMMA NextIInv ==
  ASSUME IInv, [Next]_vars
  PROVE  IInv'
<1>1. CASE Next
  BY <1>1, StepType, AskKeeps, RunKeeps DEF Next, IInv
<1>2. CASE UNCHANGED vars
  <2>1. TypeOK'
    BY <1>2 DEF IInv, TypeOK, vars, kernel, history
  <2>2. Bookkeeping'
    BY <1>2
       DEF IInv, Bookkeeping, Engaged, Apart, FhOf, File, Busy, vars, kernel,
           history
  <2> QED
    BY <2>1, <2>2 DEF IInv
<1> QED
  BY <1>1, <1>2

LEMMA Invariance == Spec => []IInv
BY InitIInv, NextIInv, PTL DEF Spec

\* Every reachable state is of the declared type.
THEOREM TypeCorrect == Spec => []TypeOK
<1>1. IInv => TypeOK
  BY DEF IInv
<1> QED
  BY <1>1, Invariance, PTL

\* Callbacks, openings and ffi->fh agree, whatever JNI call fails.
THEOREM BookkeepingHolds == Spec => []Bookkeeping
<1>1. IInv => Bookkeeping
  BY DEF IInv
<1> QED
  BY <1>1, Invariance, PTL

-----------------------------------------------------------------------------
(* The table of references.                                                *)

\* Nobody has taken the slot that a thread is about to clear once more.
ClearsNothing ==
  StaleDelete = "cleared" =>
    \A t \in Threads :
      At(t, "release", "deleteLocal") => table[fh[File(t)]] = NULL

TInv == TableExact /\ ClearsNothing

LEMMA InitTInv ==
  ASSUME Init
  PROVE  TInv
BY NullIsNoFile, IdleFacts DEF Init, TInv, TableExact, ClearsNothing, At

\* While neither life, fh nor table changes the invariant is kept by any step
\* that brings no thread to "deleteLocal".
LEMMA TableFrame ==
  ASSUME IInv, TInv, NEW t \in Threads, NEW f \in Files, f = File(t),
         \A u \in Threads : u # t => thread'[u] = thread[u],
         thread'[t].at # "deleteLocal",
         UNCHANGED <<fh, table>>,
         \A g \in Files : g # f => life'[g] = life[g],
         \/ life'[f] = life[f]
         \/ fh[f] = NULL
         \/ life[f] \notin {"open", "releasing"}
              /\ life'[f] \notin {"open", "releasing"}
  PROVE  TInv'
<1>1. TableExact'
  BY NullIsNoFile DEF TInv, TableExact
<1>2. ClearsNothing'
  BY DEF TInv, ClearsNothing, At, File
<1> QED
  BY <1>1, <1>2 DEF TInv

LEMMA AskTable ==
  ASSUME IInv, TInv, NEW t \in Threads, Ask(t)
  PROVE  TInv'
<1> USE CallbackFacts, NullIsNoFile
<1>0. life \in [Files -> Lives] /\ thread \in [Threads -> ThreadType]
  BY DEF IInv, TypeOK, ThreadType
<1>1. UNCHANGED <<fh, table>>
  BY DEF Ask, AskOpen, AskUse, AskRelease, kernel
<1>2. PICK f \in Files : AskOpen(t, f) \/ AskUse(t, f) \/ AskRelease(t, f)
  BY DEF Ask
<1>4. \A g \in Files :
        life'[g] \in {"open", "releasing"} <=> life[g] \in {"open", "releasing"}
  BY <1>0, <1>2 DEF AskOpen, AskUse, AskRelease, Becomes, kernel
<1>5. \A u \in Threads : At(u, "release", "deleteLocal")' =>
        At(u, "release", "deleteLocal") /\ File(u)' = File(u)
  BY <1>0, <1>2 DEF AskOpen, AskUse, AskRelease, At, File
<1> QED
  BY <1>1, <1>4, <1>5 DEF TInv, TableExact, ClearsNothing

LEMMA RunTable ==
  ASSUME SafeDelete, IInv, TInv, NEW t \in Threads, Run(t)
  PROVE  TInv'
<1> USE NullIsNoFile, IdleFacts
<1>0. /\ thread \in [Threads -> ThreadType] /\ life \in [Files -> Lives]
      /\ fh \in [Files -> Slots \cup {NULL}]
      /\ table \in [Slots -> Files \cup {NULL}]
  BY DEF IInv, TypeOK, ThreadType
<1>f. File(t) \in Files
  BY InCallback
     DEF Run, CallJava, PrepareFails, OpenThrows, OpenReturns, UseReturns,
         ReleaseReturns, StoreHandle, StoreHandleFails, DeleteGlobal,
         DeleteLocal, At
<1> PICK f \in Files : f = File(t)
  BY <1>f
<1>1. FhOf(f) /\ \A u \in Threads : u # t => thread'[u] = thread[u]
  BY <1>0
     DEF IInv, Bookkeeping, Run, CallJava, PrepareFails, OpenThrows,
         OpenReturns, UseReturns, ReleaseReturns, StoreHandle,
         StoreHandleFails, DeleteGlobal, DeleteLocal, Goto, Reply
<1>2. CASE \/ CallJava(t) \/ UseReturns(t) \/ ReleaseReturns(t)
           \/ \E h \in BOOLEAN : OpenReturns(t, h)
  <2>1. UNCHANGED <<life, fh, table>> /\ thread'[t].at # "deleteLocal"
    BY <1>0, <1>2
       DEF CallJava, UseReturns, ReleaseReturns, OpenReturns, Goto, Reply,
           ThreadType, kernel
  <2> QED
    BY <1>1, <2>1, TableFrame
<1>3. CASE PrepareFails(t) \/ OpenThrows(t)
  <2>1. /\ UNCHANGED <<fh, table>> /\ thread'[t].at # "deleteLocal"
        /\ \A g \in Files : g # f => life'[g] = life[g]
        /\ life'[f] = life[f] \/ Busy(t, "open")
    BY <1>0, <1>3
       DEF PrepareFails, OpenThrows, Goto, Reply, ThreadType, Becomes, At, Busy
  <2>2. Busy(t, "open") => fh[f] = NULL
    BY <1>1, InCallback DEF FhOf
  <2> QED
    BY <1>1, <2>1, <2>2, TableFrame
<1>4. ASSUME NEW x \in BOOLEAN, StoreHandleFails(t, x) PROVE TInv'
  <2>1. /\ UNCHANGED table /\ fh' = [fh EXCEPT ![f] = NULL] /\ fh[f] = NULL
        /\ thread'[t].at # "deleteLocal"
        /\ \A g \in Files : g # f => life'[g] = life[g]
    BY <1>0, <1>1, <1>4, InCallback
       DEF StoreHandleFails, Reply, Becomes, At, FhOf, Busy
  <2>2. UNCHANGED fh
    BY <1>0, <2>1
  <2> QED
    BY <1>1, <2>1, <2>2, TableFrame
<1>5. ASSUME NEW s \in Slots \cup {NULL}, StoreHandle(t, s) PROVE TInv'
  <2>1. /\ fh' = [fh EXCEPT ![f] = s] /\ fh[f] = NULL
        /\ life' = [life EXCEPT ![f] = "open"]
        /\ thread' = [thread EXCEPT ![t] = Idle]
        /\ life[f] = "opening"
    BY <1>1, <1>5, InCallback
       DEF StoreHandle, Reply, Becomes, At, FhOf, Busy
  <2>2. CASE s = NULL
    <3>1. UNCHANGED <<fh, table>>
      BY <1>0, <1>5, <2>1, <2>2 DEF StoreHandle
    <3> QED
      BY <1>0, <1>1, <2>1, <3>1, TableFrame
  <2>3. CASE s # NULL
    <3>1. s \in Slots /\ table[s] = NULL /\ table' = [table EXCEPT ![s] = f]
      BY <1>5, <2>3 DEF StoreHandle
    <3>2. TableExact'
      <4> SUFFICES ASSUME NEW g \in Files, NEW r \in Slots
                   PROVE  table'[r] = g <=>
                            fh'[g] = r /\ life'[g] \in {"open", "releasing"}
        BY DEF TableExact
      <4>1. table[r] = g <=> fh[g] = r /\ life[g] \in {"open", "releasing"}
        BY DEF TInv, TableExact
      <4>2. CASE g = f
        BY <1>0, <2>1, <3>1, <4>1, <4>2
      <4>3. CASE g # f
        BY <1>0, <2>1, <3>1, <4>1, <4>3
      <4> QED
        BY <4>2, <4>3
    <3>3. ClearsNothing'
      <4>1. StaleDelete = "cleared" => \A u \in Threads : u = t
        BY DEF SafeDelete
      <4> QED
        BY <1>0, <2>1, <4>1 DEF ClearsNothing, At
    <3> QED
      BY <3>2, <3>3 DEF TInv
  <2> QED
    BY <2>2, <2>3
<1>6. CASE DeleteGlobal(t)
  <2>1. UNCHANGED fh /\ life[f] = "releasing"
    <3>1. Engaged(t)
      BY DEF IInv, Bookkeeping
    <3> QED
      BY <1>6, <3>1 DEF DeleteGlobal, Engaged, At, Busy
  <2>2. CASE fh[f] = NULL
    BY <1>0, <1>1, <1>6, <2>1, <2>2, TableFrame
       DEF DeleteGlobal, Becomes, Reply
  <2>3. CASE fh[f] # NULL
    <3>1. /\ table' = [table EXCEPT ![fh[f]] = NULL]
          /\ life' = [life EXCEPT ![f] = "unpinning"]
          /\ fh[f] \in Slots /\ table[fh[f]] = f
      BY <1>0, <1>6, <2>1, <2>3
         DEF DeleteGlobal, Becomes, TInv, TableExact
    <3>2. TableExact'
      <4> SUFFICES ASSUME NEW g \in Files, NEW r \in Slots
                   PROVE  table'[r] = g <=>
                            fh[g] = r /\ life'[g] \in {"open", "releasing"}
        BY <2>1 DEF TableExact
      <4>1. table[r] = g <=> fh[g] = r /\ life[g] \in {"open", "releasing"}
        BY DEF TInv, TableExact
      <4>2. CASE g = f
        BY <1>0, <3>1, <4>1, <4>2
      <4>3. CASE g # f
        BY <1>0, <3>1, <4>1, <4>3
      <4> QED
        BY <4>2, <4>3
    <3>3. ClearsNothing'
      <4>1. \A u \in Threads : u # t => At(u, "release", "deleteLocal")' =
                                          At(u, "release", "deleteLocal")
        BY <1>1 DEF At
      <4>2. StaleDelete = "cleared" => \A u \in Threads : u = t
        BY DEF SafeDelete
      <4>3. File(t)' = f
        BY <1>0, <1>6, <2>3 DEF DeleteGlobal, Goto, File, ThreadType
      <4> QED
        BY <1>0, <2>1, <3>1, <4>2, <4>3 DEF ClearsNothing
    <3> QED
      BY <3>2, <3>3 DEF TInv
  <2> QED
    BY <2>2, <2>3
<1>7. CASE DeleteLocal(t)
  <2>1. /\ life[f] = "unpinning" /\ fh[f] # NULL
        /\ life' = [life EXCEPT ![f] = "closed"]
        /\ fh' = [fh EXCEPT ![f] = NULL]
        /\ thread' = [thread EXCEPT ![t] = Idle]
    BY <1>1, <1>7, InCallback DEF DeleteLocal, Becomes, Reply, FhOf
  <2>2. UNCHANGED table
    BY <1>0, <1>7, <2>1 DEF DeleteLocal, TInv, ClearsNothing
  <2>3. TableExact'
    BY <1>0, <2>1, <2>2 DEF TInv, TableExact
  <2>4. ClearsNothing'
    <3>1. StaleDelete = "cleared" => \A u \in Threads : u = t
      BY DEF SafeDelete
    <3> QED
      BY <1>0, <2>1, <3>1 DEF ClearsNothing, At
  <2> QED
    BY <2>3, <2>4 DEF TInv
<1> QED
  BY <1>2, <1>3, <1>4, <1>5, <1>6, <1>7 DEF Run
LEMMA NextTInv ==
  ASSUME SafeDelete, IInv, TInv, [Next]_vars
  PROVE  TInv'
<1>1. CASE Next
  BY <1>1, AskTable, RunTable DEF Next
<1>2. CASE UNCHANGED vars
  BY <1>2
     DEF vars, kernel, TInv, TableExact, ClearsNothing, At, File
<1> QED
  BY <1>1, <1>2

LEMMA TableInvariance ==
  ASSUME SafeDelete
  PROVE  Spec => []TInv
<1>1. Init => TInv
  BY InitTInv
<1>2. IInv /\ TInv /\ [Next]_vars => TInv'
  BY NextTInv
<1> QED
  BY <1>1, <1>2, Invariance, PTL DEF Spec

\* The global references are those of the open files, no more and no fewer.
THEOREM TableIsExact ==
  ASSUME SafeDelete
  PROVE  Spec => []TableExact
<1>1. TInv => TableExact
  BY DEF TInv
<1> QED
  BY <1>1, TableInvariance, PTL

-----------------------------------------------------------------------------
(* The handle a call is given.                                             *)

\* What the table holds for an open file is its handle.
LEMMA DerefOwn ==
  ASSUME IInv, TInv, NEW f \in Files, life[f] \in {"open", "releasing"}
  PROVE  Deref(fh[f]) = IF f \in given \ lost THEN f ELSE NULL
<1>1. FhOf(f) /\ fh[f] \in Slots \cup {NULL}
  BY DEF IInv, TypeOK, Bookkeeping
<1>2. fh[f] # NULL => table[fh[f]] = f
  BY <1>1 DEF TInv, TableExact
<1> QED
  BY <1>1, <1>2 DEF FhOf, Deref

LEMMA NextOwnHandle ==
  ASSUME IInv, TInv, OwnHandle, [Next]_vars
  PROVE  OwnHandle'
<1> USE IdleFacts, CallbackFacts
<1>1. CASE UNCHANGED vars
  BY <1>1 DEF vars, history, OwnHandle, Busy, File
<1>2. ASSUME NEW t \in Threads, Ask(t) \/ Run(t) PROVE OwnHandle'
  <2>0. thread \in [Threads -> ThreadType]
    BY DEF IInv, TypeOK, ThreadType
  <2>1. ASSUME NEW u \in Threads,
               thread'[u].at = "java", thread'[u].op # "open",
               thread'[u] = thread[u],
               given' = given \/ At(t, "open", "java"),
               lost' = lost \/ At(t, "open", "store")
        PROVE  thread'[u].obj =
                 IF File(u)' \in given' \ lost' THEN File(u)' ELSE NULL
    <3>1. thread[u].op \in {"use", "release"} /\ File(u) \in Files
      BY <2>0, <2>1, InCallback DEF ThreadType
    <3>2. life[File(u)] # "opening"
      BY <2>1, <3>1 DEF IInv, Bookkeeping, Engaged, Busy
    <3>3. Busy(t, "open") => File(t) # File(u)
      BY <3>2, InCallback
    <3>4. File(u) \in given' \ lost' <=> File(u) \in given \ lost
      BY <1>2, <3>3
         DEF Ask, AskOpen, AskUse, AskRelease, Run, CallJava, PrepareFails,
             OpenThrows, OpenReturns, UseReturns, ReleaseReturns, StoreHandle,
             StoreHandleFails, DeleteGlobal, DeleteLocal, history, At, Busy
    <3> QED
      BY <2>1, <3>1, <3>4 DEF OwnHandle, Busy, File
  <2>2. given' = given \/ At(t, "open", "java")
    BY <1>2
       DEF Ask, AskOpen, AskUse, AskRelease, Run, CallJava, PrepareFails,
           OpenThrows, OpenReturns, UseReturns, ReleaseReturns, StoreHandle,
           StoreHandleFails, DeleteGlobal, DeleteLocal, history
  <2>3. lost' = lost \/ At(t, "open", "store")
    BY <1>2
       DEF Ask, AskOpen, AskUse, AskRelease, Run, CallJava, PrepareFails,
           OpenThrows, OpenReturns, UseReturns, ReleaseReturns, StoreHandle,
           StoreHandleFails, DeleteGlobal, DeleteLocal, history
  <2>4. \A u \in Threads : u # t => thread'[u] = thread[u]
    BY <1>2, <2>0
       DEF Ask, AskOpen, AskUse, AskRelease, Run, CallJava, PrepareFails,
           OpenThrows, OpenReturns, UseReturns, ReleaseReturns, StoreHandle,
           StoreHandleFails, DeleteGlobal, DeleteLocal, Goto, Reply
  <2>5. CASE CallJava(t)
    <3>1. thread[t].op \in {"open", "use", "release"} /\ File(t) \in Files
      BY <2>5, InCallback DEF CallJava
    <3>2. /\ thread'[t].op = thread[t].op /\ File(t)' = File(t)
          /\ thread'[t].obj = IF thread[t].op = "open" THEN NULL
                              ELSE Deref(fh[File(t)])
          /\ UNCHANGED <<given, lost>>
      BY <2>0, <2>5 DEF CallJava, File, ThreadType
    <3>3. thread[t].op # "open" => life[File(t)] \in {"open", "releasing"}
      BY <2>5, <3>1 DEF IInv, Bookkeeping, Engaged, Busy, CallJava, File
    <3>4. thread[t].op # "open" =>
            thread'[t].obj = IF File(t) \in given \ lost THEN File(t) ELSE NULL
      BY <3>1, <3>2, <3>3, DerefOwn
    <3>5. ASSUME NEW u \in Threads, thread'[u].at = "java",
                 thread'[u].op # "open"
          PROVE  thread'[u].obj =
                   IF File(u)' \in given' \ lost' THEN File(u)' ELSE NULL
      BY <2>1, <2>2, <2>3, <2>4, <3>2, <3>4, <3>5
    <3> QED
      BY <3>5 DEF OwnHandle, Busy
  <2>6. CASE ~CallJava(t)
    <3>1. thread'[t].at # "java"
      BY <1>2, <2>0, <2>6
         DEF Ask, AskOpen, AskUse, AskRelease, Run, PrepareFails, OpenThrows,
             OpenReturns, UseReturns, ReleaseReturns, StoreHandle,
             StoreHandleFails, DeleteGlobal, DeleteLocal, Goto, Reply,
             ThreadType
    <3>2. ASSUME NEW u \in Threads, thread'[u].at = "java",
                 thread'[u].op # "open"
          PROVE  thread'[u].obj =
                   IF File(u)' \in given' \ lost' THEN File(u)' ELSE NULL
      BY <2>1, <2>2, <2>3, <2>4, <3>1, <3>2
    <3> QED
      BY <3>2 DEF OwnHandle, Busy
  <2> QED
    BY <2>5, <2>6
<1> QED
  BY <1>1, <1>2 DEF Next

\* Every call about an open file is given that file's own handle.
THEOREM HandlesAreOwn ==
  ASSUME SafeDelete
  PROVE  Spec => []OwnHandle
<1>1. Init => OwnHandle
  BY IdleFacts DEF Init, OwnHandle
<1>2. IInv /\ TInv /\ OwnHandle /\ [Next]_vars => OwnHandle'
  BY NextOwnHandle
<1> QED
  BY <1>1, <1>2, Invariance, TableInvariance, PTL DEF Spec

\* The object that a call about an open file is given cannot be collected, nor
\* its slot be taken, before the call has returned: whatever other threads open
\* and release meanwhile, a global reference to it stays.
PinnedInCall ==
  \A t \in Threads :
    thread[t].at = "java" /\ ~Busy(t, "open") /\ thread[t].obj # NULL =>
      \E s \in Slots : table[s] = thread[t].obj

THEOREM HandlesOutliveCalls ==
  ASSUME SafeDelete
  PROVE  Spec => []PinnedInCall
<1>1. IInv /\ TInv /\ OwnHandle => PinnedInCall
  <2> SUFFICES ASSUME IInv, TInv, OwnHandle, NEW t \in Threads,
                      thread[t].at = "java", ~Busy(t, "open"),
                      thread[t].obj # NULL
               PROVE  \E s \in Slots : table[s] = thread[t].obj
    BY DEF PinnedInCall
  <2>1. thread[t].obj = File(t) /\ File(t) \in given \ lost
    BY DEF OwnHandle
  <2>2. File(t) \in Files /\ life[File(t)] \in {"open", "releasing"}
    BY IdleFacts DEF IInv, Bookkeeping, Engaged, Busy
  <2>3. fh[File(t)] \in Slots
    BY <2>1, <2>2 DEF IInv, TypeOK, Bookkeeping, FhOf
  <2>4. table[fh[File(t)]] = File(t)
    BY <2>2, <2>3 DEF TInv, TableExact
  <2> QED
    BY <2>1, <2>3, <2>4
<1> QED
  BY <1>1, HandlesAreOwn, Invariance, TableInvariance, PTL

-----------------------------------------------------------------------------
(* Releases.                                                               *)

\* A file is closed only after its release has been through Java, unless a
\* JNI failure kept it from there.
THEOREM ReleasesAreSeen == Spec => []ReleaseSeen
<1>1. Init => ReleaseSeen
  BY DEF Init, ReleaseSeen
<1>2. IInv /\ ReleaseSeen /\ [Next]_vars => ReleaseSeen'
  <2> SUFFICES ASSUME IInv, ReleaseSeen, [Next]_vars,
                      NEW f \in Files, life'[f] = "closed"
               PROVE  f \in told' \cup skipped'
    BY DEF ReleaseSeen
  <2>1. CASE UNCHANGED vars
    BY <2>1 DEF vars, kernel, history, ReleaseSeen
  <2>2. ASSUME NEW t \in Threads, Ask(t) \/ Run(t)
        PROVE  f \in told' \cup skipped'
    <3>0. life \in [Files -> Lives] /\ Engaged(t)
      BY DEF IInv, TypeOK, Bookkeeping
    <3>1. told \subseteq told' /\ skipped \subseteq skipped'
      BY <2>2
         DEF Ask, AskOpen, AskUse, AskRelease, Run, CallJava, PrepareFails,
             OpenThrows, OpenReturns, UseReturns, ReleaseReturns, StoreHandle,
             StoreHandleFails, DeleteGlobal, DeleteLocal, history
    <3>2. \/ life[f] = "closed"
          \/ f = File(t) /\ (DeleteGlobal(t) \/ DeleteLocal(t))
      BY <2>2, <3>0
         DEF Ask, AskOpen, AskUse, AskRelease, Run, CallJava, PrepareFails,
             OpenThrows, OpenReturns, UseReturns, ReleaseReturns, StoreHandle,
             StoreHandleFails, DeleteGlobal, DeleteLocal, Becomes, kernel
    <3>3. CASE f = File(t) /\ (DeleteGlobal(t) \/ DeleteLocal(t))
      BY <3>0, <3>1, <3>3, IdleFacts
         DEF DeleteGlobal, DeleteLocal, At, Engaged, Busy
    <3> QED
      BY <3>1, <3>2, <3>3 DEF ReleaseSeen
  <2> QED
    BY <2>1, <2>2 DEF Next
<1> QED
  BY <1>1, <1>2, Invariance, PTL DEF Spec

\* While no JNI call fails no exception is ever pending and no release is kept
\* from Java.
Untroubled == pending = {} /\ skipped = {}

\* What Filesystem.java says of release holds as long as no JNI call fails.
THEOREM WithoutFailuresReleasesAreSeen ==
  ASSUME ~JniFails
  PROVE  Spec => []ReleaseAlwaysSeen
<1>1. Init => Untroubled
  BY DEF Init, Untroubled
<1>2. Untroubled /\ [Next]_vars => Untroubled'
  <2> SUFFICES ASSUME Untroubled, [Next]_vars PROVE Untroubled'
    OBVIOUS
  <2>1. CASE UNCHANGED vars
    BY <2>1 DEF vars, history, Untroubled
  <2>2. ASSUME NEW t \in Threads, Ask(t) \/ Run(t) PROVE Untroubled'
    BY <2>2
       DEF Ask, AskOpen, AskUse, AskRelease, Run, CallJava, PrepareFails,
           OpenThrows, OpenReturns, UseReturns, ReleaseReturns, StoreHandle,
           StoreHandleFails, DeleteGlobal, DeleteLocal, history, Untroubled
  <2> QED
    BY <2>1, <2>2 DEF Next
<1>3. Untroubled /\ ReleaseSeen => ReleaseAlwaysSeen
  BY DEF Untroubled, ReleaseSeen, ReleaseAlwaysSeen
<1> QED
  BY <1>1, <1>2, <1>3, ReleasesAreSeen, PTL DEF Spec

-----------------------------------------------------------------------------
(* Where a reference is deleted.                                           *)

LEMMA UnpinStep ==
  ASSUME SafeDelete, IInv, TInv, Next, NEW f \in Files, NEW s \in Slots,
         table[s] = f, table'[s] # f
  PROVE  /\ life[f] = "releasing"
         /\ f \in told \cup skipped
         /\ \A u \in Threads : File(u) = f => At(u, "release", "deleteGlobal")
<1> USE NullIsNoFile, IdleFacts
<1>0. /\ thread \in [Threads -> ThreadType] /\ life \in [Files -> Lives]
      /\ fh \in [Files -> Slots \cup {NULL}]
      /\ table \in [Slots -> Files \cup {NULL}]
  BY DEF IInv, TypeOK, ThreadType
<1>1. PICK t \in Threads : Ask(t) \/ Run(t)
  BY DEF Next
<1>2. \/ \E r \in Slots : StoreHandle(t, r)
      \/ DeleteGlobal(t)
      \/ DeleteLocal(t)
  BY <1>1
     DEF Ask, AskOpen, AskUse, AskRelease, Run, CallJava, PrepareFails,
         OpenThrows, OpenReturns, UseReturns, ReleaseReturns, StoreHandle,
         StoreHandleFails
<1>3. ~\E r \in Slots : StoreHandle(t, r)
  BY <1>0 DEF StoreHandle
<1>4. ~DeleteLocal(t)
  <2> SUFFICES ASSUME DeleteLocal(t) PROVE table' = table
    OBVIOUS
  <2>1. File(t) \in Files /\ life[File(t)] = "unpinning"
    BY InCallback DEF DeleteLocal, At, Busy
  <2>2. fh[File(t)] \in Slots
    BY <1>0, <2>1 DEF IInv, Bookkeeping, FhOf
  <2> QED
    BY <1>0, <2>2 DEF DeleteLocal, TInv, ClearsNothing
<1>5. DeleteGlobal(t)
  BY <1>2, <1>3, <1>4
<1>6. PICK g \in Files : g = File(t)
  BY <1>5, InCallback DEF DeleteGlobal, At, Busy
<1>7. /\ Busy(t, "release") /\ thread[t].at = "deleteGlobal"
      /\ life[g] = "releasing" /\ g \in told \cup skipped
  BY <1>5, <1>6 DEF DeleteGlobal, At, IInv, Bookkeeping, Engaged, Busy
<1>8. fh[g] = s /\ g = f
  <2>1. s = fh[g]
    BY <1>0, <1>5, <1>6 DEF DeleteGlobal
  <2>2. table[s] = g
    BY <1>7, <2>1 DEF TInv, TableExact
  <2> QED
    BY <2>1, <2>2
<1>9. \A u \in Threads : File(u) = f => u = t
  BY <1>6, <1>7, <1>8, InCallback DEF Busy
<1> QED
  BY <1>7, <1>8, <1>9 DEF At, Busy

\* A handle is unpinned by the release of its file and by nothing else.
THEOREM UnpinnedByRelease ==
  ASSUME SafeDelete
  PROVE  Spec => UnpinnedOnlyByRelease
<1>1. IInv /\ TInv /\ [Next]_vars =>
        [\A f \in Files, s \in Slots :
           table[s] = f /\ table'[s] # f =>
             /\ life[f] = "releasing"
             /\ f \in told \cup skipped
             /\ \A t \in Threads :
                  File(t) = f => At(t, "release", "deleteGlobal")]_vars
  BY UnpinStep
<1> QED
  BY <1>1, Invariance, TableInvariance, PTL DEF Spec, UnpinnedOnlyByRelease

-----------------------------------------------------------------------------
(* FileHandles implements HandleService.                                   *)

Pinned == {f \in Files : \E s \in Slots : table[s] = f}

\* The steps of the code that HandleService does not see.
LEMMA Stutters ==
  ASSUME \A f \in Files : StateOf(f)' = StateOf(f),
         \A t \in Threads : Serving(t)' = Serving(t),
         UNCHANGED table
  PROVE  UNCHANGED Service!svars
<1>1. [f \in Files |-> StateOf(f)]' = [f \in Files |-> StateOf(f)]
  OBVIOUS
<1>2. [t \in Threads |-> Serving(t)]' = [t \in Threads |-> Serving(t)]
  OBVIOUS
<1> QED
  BY <1>1, <1>2 DEF Service!svars

\* The handle HandleService gives to a call is the one the code finds.
LEMMA DerefPinned ==
  ASSUME IInv, TInv, NEW f \in Files, life[f] \in {"open", "releasing"}
  PROVE  Deref(fh[f]) = IF f \in Pinned THEN f ELSE NULL
<1>1. fh[f] \in Slots \cup {NULL}
  BY DEF IInv, TypeOK
<1> QED
  BY <1>1, NullIsNoFile DEF TInv, TableExact, Deref, Pinned

LEMMA StepImplements ==
  ASSUME SafeDelete, IInv, TInv, NEW t \in Threads, Ask(t) \/ Run(t)
  PROVE  [Service!Next]_Service!svars
<1> USE NullIsNoFile, IdleFacts, CallbackFacts
<1>0. /\ thread \in [Threads -> ThreadType] /\ life \in [Files -> Lives]
      /\ fh \in [Files -> Slots \cup {NULL}]
      /\ table \in [Slots -> Files \cup {NULL}]
      /\ Engaged(t) /\ \A f \in Files : FhOf(f)
  BY DEF IInv, TypeOK, ThreadType, Bookkeeping
<1>1. ASSUME NEW u \in Threads, thread'[u] = thread[u]
      PROVE  Serving(u)' = Serving(u)
  BY <1>1 DEF Serving, Busy, File
<1>2. \A u \in Threads : u # t => Serving(u)' = Serving(u)
  <2>1. \A u \in Threads : u # t => thread'[u] = thread[u]
    BY <1>0
       DEF Ask, AskOpen, AskUse, AskRelease, Run, CallJava, PrepareFails,
           OpenThrows, OpenReturns, UseReturns, ReleaseReturns, StoreHandle,
           StoreHandleFails, DeleteGlobal, DeleteLocal, Goto, Reply
  <2> QED
    BY <1>1, <2>1
<1>3. thread'[t].at # "java" /\ thread[t].at # "java" =>
        Serving(t)' = Serving(t)
  BY DEF Serving
<1>4. CASE Ask(t)
  <2>1. /\ UNCHANGED table
        /\ thread'[t].at # "java" /\ thread[t].at # "java"
    BY <1>0, <1>4 DEF Ask, AskOpen, AskUse, AskRelease
  <2>2. \A f \in Files : StateOf(f)' = StateOf(f)
    BY <1>0, <1>4
       DEF Ask, AskOpen, AskUse, AskRelease, Becomes, StateOf, kernel
  <2> QED
    BY <1>2, <1>3, <2>1, <2>2, Stutters
<1>5. CASE \/ PrepareFails(t) /\ ~Busy(t, "open")
           \/ \E h \in BOOLEAN : OpenReturns(t, h)
           \/ DeleteLocal(t)
  <2>1. thread'[t].at # "java"
    BY <1>0, <1>5
       DEF PrepareFails, OpenReturns, DeleteLocal, Goto, Reply, ThreadType
  <2>2. thread[t].at = "java" => Busy(t, "open")
    BY <1>5 DEF PrepareFails, OpenReturns, DeleteLocal, At, Busy
  <2>3. Serving(t)' = Serving(t)
    BY <2>1, <2>2 DEF Serving
  <2>4. UNCHANGED table /\ \A f \in Files : StateOf(f)' = StateOf(f)
    <3>1. CASE DeleteLocal(t)
      <4>1. life[File(t)] = "unpinning" /\ fh[File(t)] # NULL
        BY <1>0, <3>1, InCallback DEF DeleteLocal, At, FhOf
      <4>2. UNCHANGED table
        BY <1>0, <3>1, <4>1 DEF DeleteLocal, TInv, ClearsNothing
      <4> QED
        BY <1>0, <3>1, <4>1, <4>2 DEF DeleteLocal, Becomes, StateOf
    <3>2. CASE \/ PrepareFails(t) /\ ~Busy(t, "open")
               \/ \E h \in BOOLEAN : OpenReturns(t, h)
      BY <3>2 DEF PrepareFails, OpenReturns, StateOf, kernel
    <3> QED
      BY <1>5, <3>1, <3>2
  <2> QED
    BY <1>2, <2>3, <2>4, Stutters
<1>6. CASE CallJava(t)
  <2>1. /\ UNCHANGED <<life, table>> /\ thread[t].at = "prepare"
        /\ File(t) \in Files /\ thread[t].op \in {"open", "use", "release"}
    BY <1>6, InCallback DEF CallJava, kernel
  <2>2. /\ thread'[t].op = thread[t].op /\ thread'[t].at = "java"
        /\ File(t)' = File(t)
        /\ thread'[t].obj = IF thread[t].op = "open" THEN NULL
                            ELSE Deref(fh[File(t)])
    BY <1>0, <1>6 DEF CallJava, File, ThreadType
  <2>3. \A f \in Files : StateOf(f)' = StateOf(f)
    BY <2>1 DEF StateOf
  <2>4. CASE Busy(t, "open")
    <3>1. Serving(t)' = Serving(t)
      BY <2>1, <2>2, <2>4 DEF Serving, Busy
    <3> QED
      BY <1>2, <2>1, <2>3, <3>1, Stutters
  <2>5. CASE ~Busy(t, "open")
    <3>1. life[File(t)] \in {"open", "releasing"}
      BY <1>0, <2>1, <2>5 DEF Engaged, Busy, File
    <3>2. /\ Serving(t) = Service!Nothing
          /\ Serving(t)' = [file |-> File(t),
                            obj |-> IF File(t) \in Pinned THEN File(t)
                                    ELSE NULL]
      BY <2>1, <2>2, <2>5, <3>1, DerefPinned
         DEF Serving, Busy, Service!Nothing
    <3>3. StateOf(File(t)) = "open"
      BY <3>1 DEF StateOf
    <3>4. [u \in Threads |-> Serving(u)]' =
            [[u \in Threads |-> Serving(u)] EXCEPT ![t] =
               [file |-> File(t),
                obj |-> IF File(t) \in Pinned THEN File(t) ELSE NULL]]
      BY <1>2, <3>2
    <3>5. Service!Call(t, File(t))
      BY <2>1, <2>3, <3>2, <3>3, <3>4
         DEF Service!Call, Service!HandleOf, Pinned
    <3> QED
      BY <2>1, <3>5 DEF Service!Next
  <2> QED
    BY <2>4, <2>5
<1>7. CASE UseReturns(t) \/ ReleaseReturns(t)
  <2>1. /\ UNCHANGED <<life, table>> /\ thread[t].at = "java"
        /\ ~Busy(t, "open") /\ thread'[t].at # "java"
    BY <1>0, <1>7
       DEF UseReturns, ReleaseReturns, Reply, At, Busy, kernel, ThreadType
  <2>2. \A f \in Files : StateOf(f)' = StateOf(f)
    BY <2>1 DEF StateOf
  <2>3. File(t) \in Files
    BY <2>1, InCallback
  <2>4. Serving(t) # Service!Nothing /\ Serving(t)' = Service!Nothing
    BY <2>1, <2>3 DEF Serving, Service!Nothing
  <2>5. [u \in Threads |-> Serving(u)]' =
          [[u \in Threads |-> Serving(u)] EXCEPT ![t] = Service!Nothing]
    BY <1>2, <2>4
  <2>6. Service!Return(t)
    BY <2>1, <2>2, <2>4, <2>5 DEF Service!Return
  <2> QED
    BY <2>6 DEF Service!Next
<1>8. CASE (PrepareFails(t) /\ Busy(t, "open")) \/ OpenThrows(t)
  <2>0. PICK f \in Files : f = File(t)
    BY <1>8, InCallback DEF OpenThrows, At, Busy
  <2>1. /\ UNCHANGED table /\ life' = [life EXCEPT ![f] = "failed"]
        /\ thread'[t] = Idle /\ Busy(t, "open")
        /\ life[f] = "opening"
    BY <1>0, <1>8, <2>0, InCallback
       DEF PrepareFails, OpenThrows, Becomes, Reply, At, Busy
  <2>2. Serving(t)' = Serving(t)
    BY <2>1 DEF Serving, Busy
  <2>3. [u \in Threads |-> Serving(u)]' = [u \in Threads |-> Serving(u)]
    BY <1>2, <2>2
  <2>4. StateOf(f) = "new" /\ StateOf(f)' = "closed"
    BY <1>0, <2>1 DEF StateOf
  <2>5. \A g \in Files : g # f => StateOf(g)' = StateOf(g)
    BY <1>0, <2>1 DEF StateOf
  <2>6. [g \in Files |-> StateOf(g)]' =
          [[g \in Files |-> StateOf(g)] EXCEPT ![f] = "closed"]
    BY <2>1, <2>4, <2>5
  <2>7. Service!OpenFails(f)
    BY <2>1, <2>3, <2>4, <2>6 DEF Service!OpenFails
  <2> QED
    BY <2>1, <2>7 DEF Service!Next
<1>9. ASSUME NEW h \in BOOLEAN, NEW f \in Files, f = File(t),
             At(t, "open", "store"),
             life' = [life EXCEPT ![f] = "open"], Reply(t),
             Pinned' = IF h THEN Pinned \cup {f} ELSE Pinned
      PROVE  Service!Next
  <2>1. thread'[t] = Idle /\ life[f] = "opening"
    BY <1>0, <1>9, InCallback DEF Reply, At, Busy
  <2>2. Serving(t)' = Serving(t)
    BY <1>9, <2>1 DEF Serving, At, Busy
  <2>3. [u \in Threads |-> Serving(u)]' = [u \in Threads |-> Serving(u)]
    BY <1>2, <2>2
  <2>4. StateOf(f) = "new" /\ StateOf(f)' = "open"
    BY <1>0, <1>9, <2>1 DEF StateOf
  <2>5. \A g \in Files : g # f => StateOf(g)' = StateOf(g)
    BY <1>0, <1>9 DEF StateOf
  <2>6. [g \in Files |-> StateOf(g)]' =
          [[g \in Files |-> StateOf(g)] EXCEPT ![f] = "open"]
    BY <2>4, <2>5
  <2>7. Service!Open(f, h)
    BY <1>9, <2>3, <2>4, <2>6 DEF Service!Open, Pinned
  <2> QED
    BY <2>7 DEF Service!Next
<1>10. ASSUME NEW s \in Slots \cup {NULL}, StoreHandle(t, s)
       PROVE  Service!Next
  <2>0. PICK f \in Files : f = File(t)
    BY <1>10, InCallback DEF StoreHandle, At
  <2>1. /\ At(t, "open", "store") /\ Reply(t)
        /\ life' = [life EXCEPT ![f] = "open"]
    BY <1>10, <2>0 DEF StoreHandle, Becomes
  <2>2. CASE s = NULL
    <3>1. Pinned' = Pinned
      BY <1>10, <2>2 DEF StoreHandle, Pinned
    <3> QED
      BY <1>9, <2>0, <2>1, <3>1
  <2>3. CASE s # NULL
    <3>1. s \in Slots /\ table[s] = NULL /\ table' = [table EXCEPT ![s] = f]
      BY <1>10, <2>0, <2>3 DEF StoreHandle
    <3>2. Pinned' = Pinned \cup {f}
      BY <1>0, <3>1 DEF Pinned
    <3> QED
      BY <1>9, <2>0, <2>1, <3>2
  <2> QED
    BY <2>2, <2>3
<1>11. ASSUME NEW x \in BOOLEAN, StoreHandleFails(t, x) PROVE Service!Next
  <2>0. PICK f \in Files : f = File(t)
    BY <1>11, InCallback DEF StoreHandleFails, At
  <2>1. /\ At(t, "open", "store") /\ Reply(t)
        /\ life' = [life EXCEPT ![f] = "open"]
        /\ Pinned' = Pinned
    BY <1>11, <2>0 DEF StoreHandleFails, Becomes, Pinned
  <2> QED
    BY <1>9, <2>0, <2>1
<1>12. CASE DeleteGlobal(t)
  <2>0. PICK f \in Files : f = File(t)
    BY <1>12, InCallback DEF DeleteGlobal, At
  <2>1. /\ Busy(t, "release") /\ thread[t].at = "deleteGlobal"
        /\ life[f] = "releasing"
    BY <1>0, <1>12, <2>0 DEF DeleteGlobal, At, Engaged, Busy
  <2>2. /\ \A g \in Files : g # f => life'[g] = life[g]
        /\ life'[f] \in {"closed", "unpinning"}
    BY <1>0, <1>12, <2>0 DEF DeleteGlobal, Becomes
  <2>3. thread'[t].at # "java"
    BY <1>0, <1>12 DEF DeleteGlobal, Reply, Goto, ThreadType
  <2>4. [u \in Threads |-> Serving(u)]' = [u \in Threads |-> Serving(u)]
    BY <1>2, <1>3, <2>1, <2>3
  <2>5. StateOf(f) = "open" /\ StateOf(f)' = "closed"
    BY <2>1, <2>2 DEF StateOf
  <2>6. \A g \in Files : g # f => StateOf(g)' = StateOf(g)
    BY <2>2 DEF StateOf
  <2>7. [g \in Files |-> StateOf(g)]' =
          [[g \in Files |-> StateOf(g)] EXCEPT ![f] = "closed"]
    BY <2>5, <2>6
  <2>8. \A u \in Threads : Serving(u).file # f
    <3> SUFFICES ASSUME NEW u \in Threads PROVE Serving(u).file # f
      OBVIOUS
    <3>1. CASE u = t
      BY <2>1, <3>1 DEF Serving
    <3>2. CASE u # t
      <4>1. File(u) # f
        BY <2>0, <2>1, <3>2, InCallback DEF Busy
      <4> QED
        BY <4>1 DEF Serving
    <3> QED
      BY <3>1, <3>2
  <2>9. Pinned' = Pinned \ {f}
    <3>1. CASE fh[f] = NULL
      BY <1>12, <2>0, <2>1, <3>1
         DEF DeleteGlobal, Pinned, TInv, TableExact
    <3>2. CASE fh[f] # NULL
      <4>1. fh[f] \in Slots /\ table' = [table EXCEPT ![fh[f]] = NULL]
        BY <1>0, <1>12, <2>0, <3>2 DEF DeleteGlobal
      <4>2. \A r \in Slots : table[r] = f <=> r = fh[f]
        BY <2>1 DEF TInv, TableExact
      <4> QED
        BY <1>0, <4>1, <4>2 DEF Pinned
    <3> QED
      BY <3>1, <3>2
  <2>10. Service!Close(f)
    BY <2>4, <2>5, <2>7, <2>8, <2>9 DEF Service!Close, Pinned
  <2> QED
    BY <2>10 DEF Service!Next
<1> QED
  BY <1>4, <1>5, <1>6, <1>7, <1>8, <1>10, <1>11, <1>12 DEF Run

\* The code keeps the promise of HandleService.
THEOREM HandlesAreKept ==
  ASSUME SafeDelete
  PROVE  Spec => KeepsHandles
<1> USE NullIsNoFile, IdleFacts
<1>1. Init => Service!Init
  BY DEF Init, Service!Init, Service!Nothing, StateOf, Serving
<1>2. IInv /\ TInv /\ [Next]_vars => [Service!Next]_Service!svars
  <2> SUFFICES ASSUME IInv, TInv, [Next]_vars
               PROVE  [Service!Next]_Service!svars
    OBVIOUS
  <2>1. CASE Next
    BY <2>1, StepImplements DEF Next
  <2>2. CASE UNCHANGED vars
    BY <2>2, Stutters DEF vars, kernel, StateOf, Serving, Busy, File
  <2> QED
    BY <2>1, <2>2
<1> QED
  BY <1>1, <1>2, Invariance, TableInvariance, PTL
     DEF Spec, KeepsHandles, Service!Spec
=============================================================================
