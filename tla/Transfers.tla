----------------------------- MODULE Transfers -----------------------------
(***************************************************************************)
(* Results of varying size on their way from a Java file system to the     *)
(* process that reads them: readlink, getxattr, listxattr and getdir in    *)
(* FilesystemToFuseFSAdapter, FuseFSDirFiller and javafs.c.                *)
(*                                                                         *)
(* The buffer is made before the file system is asked, so what does not    *)
(* fit is an error.  A process that wants an attribute asks for its size   *)
(* first (size == 0), makes a buffer and asks again: two callbacks, and    *)
(* the attribute may have changed in between.  The list of attributes is   *)
(* sized by an estimate that counts characters, and filled with bytes.     *)
(*                                                                         *)
(* A name, a link's target and an attribute's value are items of which     *)
(* only the lengths matter.  One process reads things of one kind, while   *)
(* others change what is there; each call of the file system takes what is *)
(* there at the time.  Exceptions inside JNI are the subject of Callbacks. *)
(***************************************************************************)
EXTENDS Integers, Sequences

CONSTANTS
  Names,         \* the items
  Chars,         \* how many characters each has
  Bytes,         \* how many bytes it takes in the file system's charset
  Widest,        \* the most bytes that one of its characters takes
  Contents,      \* what there may be to read: sequences of items
  EstimateFrom,  \* EstimateFrom[s][i]: the estimates of s[i + 1], s[i + 2], ...
  Average,       \* averageBytesPerChar of the charset, in tenths
  Sizes,         \* the sizes of buffers made without asking
  MaxName,       \* MAX_GETDIR_NAME_LENGTH - 1
  FillerCodes,   \* what the filler of FUSE returns when it refuses an entry
  Errnos,        \* the errnos that the file system throws
  MaxChanges     \* bound: how often the content changes

ERANGE       == 34
ENAMETOOLONG == 36

\* What listxattrsize adds for an item: its characters and a terminator.
EstimateUnterminated(n) == (Chars[n] * Average) \div 10    \* Mutant
Estimate(n)             == (Chars[n] * Average) \div 10 + 1

\* Bytes may be fewer than characters: two surrogates are one code point, and
\* a charset that cannot map it replaces them by one byte.
ASSUME NamesAssumption ==
  \A n \in Names :
    /\ Chars[n] \in Nat
    /\ Bytes[n] \in Nat
    /\ Widest[n] \in Nat \ {0}
    /\ Widest[n] = 1 => Bytes[n] <= Chars[n]
ASSUME ContentsAssumption == \A s \in Contents : s \in Seq(Names)
ASSUME AverageAssumption == Average \in Nat /\ Average >= 10
ASSUME EstimateFromAssumption ==
  \A s \in Contents :
    /\ EstimateFrom[s] \in [0..Len(s) -> Nat]
    /\ EstimateFrom[s][Len(s)] = 0
    /\ \A i \in 1..Len(s) :
         EstimateFrom[s][i - 1] = Estimate(s[i]) + EstimateFrom[s][i]
ASSUME SizesAssumption == \A size \in Sizes : size \in Nat \ {0}
ASSUME MaxNameAssumption == MaxName \in Nat
ASSUME FillerCodesAssumption == \A code \in FillerCodes : code \in Int /\ code < 0

\* A buffer that is too small it reports with a BufferOverflowException, as
\* Filesystem.getxattr asks it to.
ASSUME ErrnosAssumption ==
  \A e \in Errnos : e \in Nat \ {0} /\ e # ERANGE
ASSUME MaxChangesAssumption == MaxChanges \in Nat

Kinds == {"link", "value", "list", "dir"}

\* A link has one target and an attribute one value.
Held == [k \in Kinds |->
           {s \in Contents : k \in {"link", "value"} => Len(s) = 1}]

VARIABLES
  kind,      \* what the process reads
  content,   \* what is there
  changes,   \* how often it has changed
  at,        \* where the reading is; "idle" when it has ended
  buf,       \* the size of the buffer
  snap,      \* what the file system found when it was called
  next,      \* how many items of it have been dealt with
  pos,       \* position() of the buffer; in listxattrsize, the sum so far
  got,       \* what the buffer, or the filler, has been given
  answer,    \* the answer of the callback
  same       \* history: the buffer was sized for what the call found

call == <<snap, next, pos, got>>
vars == <<kind, content, changes, at, buf, call, answer, same>>

Item == [name : Names, whole : BOOLEAN]

\* "again": a buffer was too small.  "sized": the size is known.  The others
\* are inside a callback.
Places == {"start", "idle", "again", "sized", "sizing", "filling", "handing"}

TypeOK ==
  /\ kind \in Kinds
  /\ content \in Held[kind]
  /\ changes \in 0..MaxChanges
  /\ at \in Places
  /\ buf \in Nat
  /\ snap \in Held[kind] \cup {<<>>}
  /\ next \in 0..Len(snap)
  /\ pos \in Nat
  /\ got \in Seq(Item)
  /\ answer \in {0, -ERANGE, -ENAMETOOLONG} \cup {-e : e \in Errnos}
                  \cup {-c : c \in FillerCodes}
  /\ same \in BOOLEAN

Init ==
  /\ kind \in Kinds
  /\ content \in Held[kind]
  /\ changes = 0
  /\ at = "start"
  /\ buf = 0
  /\ snap = <<>>
  /\ next = 0
  /\ pos = 0
  /\ got = <<>>
  /\ answer = 0
  /\ same = FALSE

-----------------------------------------------------------------------------
(* The process and the others.                                             *)

\* Another process changes what is there.
Change ==
  /\ changes < MaxChanges
  /\ content' \in Held[kind] \ {content}
  /\ changes' = changes + 1
  /\ UNCHANGED <<kind, at, buf, call, answer, same>>

\* One more item is handed over.
Arrives(n, isWhole) == got' = Append(got, [name |-> n, whole |-> isWhole])

\* The file system is called and takes what is there.
CallFs ==
  /\ snap' = content
  /\ next' = 0
  /\ pos' = 0
  /\ got' = <<>>
  /\ answer' = 0
  /\ UNCHANGED <<kind, content, changes>>

\* getxattr or listxattr with size == 0.
QuerySize ==
  /\ kind \in {"value", "list"}
  /\ at' = "sizing"
  /\ CallFs
  /\ UNCHANGED <<buf, same>>

Fetch(size) ==
  /\ at' = "filling"
  /\ buf' = size
  /\ same' = (at = "sized" /\ snap = content)
  /\ CallFs

\* The process begins to read, with a query or with a buffer that it has.
Begin ==
  /\ at \in {"start", "idle"}
  /\ QuerySize \/ \E size \in Sizes : Fetch(size)

\* It fetches what it knows the size of, or asks for the size again.
Continue ==
  \/ /\ at = "sized"
     /\ buf # 0
     /\ Fetch(buf)
  \/ /\ at = "again"
     /\ QuerySize

\* The size is 0: there is nothing to fetch.  The value is empty, or there is
\* no attribute.
TakeNothing ==
  /\ at = "sized"
  /\ buf = 0
  /\ at' = "idle"
  /\ \/ kind = "value" /\ Arrives(snap[1], Bytes[snap[1]] <= buf)
     \/ kind = "list" /\ UNCHANGED got
  /\ UNCHANGED <<kind, content, changes, buf, snap, next, pos, answer, same>>

-----------------------------------------------------------------------------
(* How a callback ends.                                                    *)

Succeed ==
  /\ at' = "idle"
  /\ answer' = 0
  /\ UNCHANGED <<kind, content, changes, buf, snap, next, same>>

\* What a process does that was answered e: one whose buffer was too small
\* asks for the size, if what it reads has one.
After(e) == IF e = ERANGE /\ kind \in {"value", "list"} THEN "again" ELSE "idle"

\* Mutant: the errno is not negated.
FailUnnegated(e) ==
  /\ at' = After(e)
  /\ answer' = e
  /\ UNCHANGED <<kind, content, changes, buf, call, same>>

\* return -jerrno
Fail(e) ==
  /\ at' = After(e)
  /\ answer' = -e
  /\ UNCHANGED <<kind, content, changes, buf, call, same>>

\* The file system throws, at any item; what it has handed over is lost.
FsThrows ==
  /\ at \in {"sizing", "filling"}
  /\ \E e \in Errnos : Fail(e)

-----------------------------------------------------------------------------
(* The size queries.                                                       *)

\* XattrSizeLister.add
SizeName ==
  /\ at = "sizing"
  /\ kind = "list"
  /\ next < Len(snap)
  /\ next' = next + 1
  /\ pos' = pos + Estimate(snap[next'])
  /\ UNCHANGED <<kind, content, changes, at, buf, same, snap, got, answer>>

\* Mutant: the size of a value is one short.
AnswerSizeShort ==
  /\ at = "sizing"
  /\ kind = "list" => next = Len(snap)
  /\ buf' = IF kind = "list" THEN pos ELSE Bytes[snap[1]] - 1
  /\ at' = "sized"
  /\ UNCHANGED <<kind, content, changes, call, answer, same>>

\* What the lister has added up, or what the file system says of a value.
AnswerSize ==
  /\ at = "sizing"
  /\ kind = "list" => next = Len(snap)
  /\ buf' = IF kind = "list" THEN pos ELSE Bytes[snap[1]]
  /\ at' = "sized"
  /\ UNCHANGED <<kind, content, changes, call, answer, same>>

-----------------------------------------------------------------------------
(* The calls with a buffer.                                                *)

\* What Java sees of the buffer; readlink keeps a byte for the terminator.
LimitWhole == buf                                          \* Mutant
Limit      == IF kind = "link" THEN buf - 1 ELSE buf

\* Mutant: an overflow of the encoder is not looked at.
FillLinkCut ==
  /\ at = "filling"
  /\ kind = "link"
  /\ LET n == snap[1]
     IN \/ /\ Chars[n] > Limit
           /\ Fail(ERANGE)
        \/ /\ Chars[n] <= Limit
           /\ pos' = IF Bytes[n] <= Limit THEN Bytes[n] ELSE Limit
           /\ Arrives(n, Bytes[n] <= Limit)
           /\ Succeed

\* The target is put into a CharBuffer of as many characters as the buffer has
\* bytes, encoded, and terminated at position().
FillLink ==
  /\ at = "filling"
  /\ kind = "link"
  /\ LET n == snap[1]
     IN \/ /\ Chars[n] > Limit
           /\ Fail(ERANGE)
        \/ /\ Chars[n] <= Limit /\ Bytes[n] > Limit
           /\ Fail(ENAMETOOLONG)
        \/ /\ Chars[n] <= Limit /\ Bytes[n] <= Limit
           /\ pos' = Bytes[n]
           /\ Arrives(n, TRUE)
           /\ Succeed

\* The file system puts the value into the buffer itself.
FillValue ==
  /\ at = "filling"
  /\ kind = "value"
  /\ LET n == snap[1]
     IN \/ /\ Bytes[n] > Limit
           /\ Fail(ERANGE)
        \/ /\ Bytes[n] <= Limit
           /\ pos' = Bytes[n]
           /\ Arrives(n, TRUE)
           /\ Succeed

\* XattrValueLister.add: encode stops before the first character that does not
\* fit, its result is not looked at, and the terminator is put.  `end' is where
\* encode stops.
Encoded(n, end) ==
  \/ /\ pos + Bytes[n] <= Limit
     /\ end = pos + Bytes[n]
  \/ /\ pos + Bytes[n] > Limit
     /\ end >= pos
     /\ end > Limit - Widest[n]

ListName ==
  /\ at = "filling"
  /\ kind = "list"
  /\ next < Len(snap)
  /\ next' = next + 1
  /\ LET n == snap[next + 1]
     IN \E end \in 0..Limit :
          /\ Encoded(n, end)
          /\ end < Limit
          /\ pos' = end + 1
          /\ Arrives(n, pos + Bytes[n] <= Limit)
  /\ UNCHANGED <<kind, content, changes, at, buf, same, snap, answer>>

\* There is no room for the terminator.
ListNameOverflows ==
  /\ at = "filling"
  /\ kind = "list"
  /\ next < Len(snap)
  /\ Encoded(snap[next + 1], Limit)
  /\ Fail(ERANGE)

ListDone ==
  /\ at = "filling"
  /\ kind = "list"
  /\ next = Len(snap)
  /\ Succeed
  /\ UNCHANGED <<pos, got>>

-----------------------------------------------------------------------------
(* getdir: the entries are collected in Java, then handed to FUSE.         *)

Collect ==
  /\ at = "filling"
  /\ kind = "dir"
  /\ at' = "handing"
  /\ UNCHANGED <<kind, content, changes, buf, call, same, answer>>

\* The name is copied into name[MAX_GETDIR_NAME_LENGTH], as much as fits.
HandEntry ==
  /\ at = "handing"
  /\ next < Len(snap)
  /\ next' = next + 1
  /\ Arrives(snap[next'], Bytes[snap[next']] <= MaxName)
  /\ UNCHANGED <<kind, content, changes, at, buf, same, snap, pos, answer>>

\* Mutant: the filler's answer is not looked at.
EntryRefusedIgnored ==
  /\ at = "handing"
  /\ next < Len(snap)
  /\ FillerCodes # {}
  /\ next' = next + 1
  /\ UNCHANGED <<kind, content, changes, at, buf, same, snap, pos, got, answer>>

\* The filler's code, negative as it is, becomes jerrno.
EntryRefused ==
  /\ at = "handing"
  /\ next < Len(snap)
  /\ \E code \in FillerCodes : Fail(code)

EntriesDone ==
  /\ at = "handing"
  /\ next = Len(snap)
  /\ Succeed
  /\ UNCHANGED <<pos, got>>

-----------------------------------------------------------------------------

Serving ==
  \/ FsThrows
  \/ SizeName
  \/ AnswerSize
  \/ FillLink
  \/ FillValue
  \/ ListName
  \/ ListNameOverflows
  \/ ListDone
  \/ Collect
  \/ HandEntry
  \/ EntryRefused
  \/ EntriesDone

Next == Change \/ Begin \/ Continue \/ TakeNothing \/ Serving

Spec == Init /\ [][Next]_vars

\* A callback runs to its end, and a process that has begun to read goes on;
\* nobody is obliged to begin or to change anything.
FairSpec ==
  /\ Spec
  /\ WF_vars(Serving)
  /\ WF_vars(Continue \/ TakeNothing)

-----------------------------------------------------------------------------
(* What keeps a reading from its end: the changes to come, and whether the *)
(* last one has yet to show in a buffer that is too small.                 *)

Stale ==
  \/ at \in {"sizing", "sized"} /\ snap # content
  \/ at = "filling" /\ ~same

Credit == 2 * (MaxChanges - changes) + IF Stale THEN 1 ELSE 0

\* The steps of one attempt, from the question for the size to the answer.
Stage ==
  CASE at = "again"             -> 5
    [] at = "sizing"            -> 4
    [] at = "sized"             -> 3
    [] at = "filling"           -> 2
    [] at = "handing"           -> 1
    [] at \in {"start", "idle"} -> 0

-----------------------------------------------------------------------------
(* Properties.                                                             *)

Wide(n) == Widest[n] > 1

HasWide(s) == \E i \in DOMAIN s : Wide(s[i])

\* The names that may arrive cut: in a list of attributes those with
\* characters of several bytes, in a directory those that C has no room for.
Cuttable ==
  [k \in Kinds |->
     CASE k = "list" -> {n \in Names : Wide(n)}
       [] k = "dir"  -> {n \in Names : Bytes[n] > MaxName}
       [] OTHER      -> {}]

\* What the process has been given.
Given ==
  IF at # "idle" THEN [is |-> "nothing", items |-> <<>>]
  ELSE IF answer = 0 THEN [is |-> "value", items |-> got]
  ELSE [is |-> "error", items |-> <<>>]

Promise == INSTANCE Delivery WITH
  reading <- at \notin {"start", "idle"},
  seen    <- snap,
  result  <- Given

\* A process that is answered with success holds the whole of what was there
\* when the file system was last called, whatever the calls before it found:
\* nothing is left out, and nothing is cut but a name of several bytes per
\* character in a list of attributes and a name too long for C in a directory.
ImplementsDelivery == Promise!Spec

\* What Java puts into the buffer stays inside it, and the terminator of a
\* link's target has its byte behind the target.
InsideBuffer ==
  /\ at = "filling" => pos <= buf
  /\ at = "idle" /\ answer = 0 => pos <= buf
  /\ at = "idle" /\ answer = 0 /\ kind = "link" => pos < buf

\* A buffer of the size that was answered is too small only if the content has
\* changed since, or if the list of attributes has a name with characters of
\* several bytes: the estimate counts characters.
SizedFits ==
  at = "again" /\ same => kind = "list" /\ HasWide(snap)

\* The sign of getdir's answer tells how far it got: 0 and FUSE has every
\* entry, negative and it has none, although the file system may have listed
\* some before it threw; positive, where FUSE refused an entry and has those
\* before it.
ListingAllOrNone ==
  kind = "dir" /\ at = "idle" =>
    /\ answer = 0 => Len(got) = Len(snap)
    /\ answer < 0 => got = <<>>
    /\ answer > 0 => Len(got) < Len(snap)

\* A reading that has begun gets nearer its end with every step: to go back
\* and ask for the size again takes a change of the content, each change is
\* good for one retry, and no item is dealt with twice in a call.  Only a list
\* of attributes with a name of several bytes per character is excepted, whose
\* estimate may be too small as often as one asks for it.
ReadRunsDown ==
  [][/\ at \notin {"start", "idle"}
     /\ ~(at' = "again" /\ kind = "list" /\ HasWide(snap))
     => \/ Credit' < Credit
        \/ Credit' = Credit /\ Stage' < Stage
        \/ Credit' = Credit /\ Stage' = Stage
             /\ Len(snap') - next' < Len(snap) - next]_vars

\* A process that asks for the size whenever its buffer is too small gets an
\* end of it once the others leave the content alone, unless a name in the
\* list has characters of several bytes.
ReadSettles ==
  at # "start" ~> (at = "idle" \/ (kind = "list" /\ HasWide(content)))

=============================================================================
