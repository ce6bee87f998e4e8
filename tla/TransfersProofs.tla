--------------------------- MODULE TransfersProofs ---------------------------
(***************************************************************************)
(* Proofs about Transfers, for any items, lengths, charset and buffers.    *)
(*                                                                         *)
(* Transit says, for each place of a reading, how what has been handed     *)
(* over so far relates to what the file system found, and how much of the  *)
(* buffer is left.  The room that is left is compared with the estimates   *)
(* of the items still to come, so that no sum over the list is needed.     *)
(***************************************************************************)
EXTENDS Transfers, TLAPS

\* The first `next' items have arrived, the cut ones among them excused.
Arrived ==
  /\ Len(got) = next
  /\ \A i \in 1..next :
       /\ got[i].name = snap[i]
       /\ got[i].whole \/ snap[i] \in Cuttable[kind]

Sizing ==
  /\ kind \in {"value", "list"}
  /\ snap \in Held[kind]
  /\ got = <<>>
  /\ answer = 0
  /\ kind = "list" => pos + EstimateFrom[snap][next] = EstimateFrom[snap][0]
  /\ kind = "value" => pos = 0

Sized ==
  /\ kind \in {"value", "list"}
  /\ snap \in Held[kind]
  /\ got = <<>>
  /\ answer = 0
  /\ pos = IF kind = "list" THEN buf ELSE 0
  /\ buf = IF kind = "list" THEN EstimateFrom[snap][0] ELSE Bytes[snap[1]]

\* Room for what the estimate still promises.
RoomLeft ==
  same =>
    /\ kind \in {"value", "list"}
    /\ kind = "value" => buf = Bytes[snap[1]]
    /\ kind = "list" /\ ~HasWide(snap) => buf >= pos + EstimateFrom[snap][next]

FillingOK ==
  /\ snap \in Held[kind]
  /\ answer = 0
  /\ buf >= 1
  /\ pos <= buf
  /\ RoomLeft
  /\ IF kind = "list" THEN Arrived ELSE next = 0 /\ pos = 0 /\ got = <<>>

Handing ==
  /\ kind = "dir"
  /\ snap \in Held[kind]
  /\ pos = 0
  /\ Arrived

Ended ==
  /\ answer = 0 =>
       /\ Len(got) = Len(snap)
       /\ \A i \in 1..Len(snap) :
            /\ got[i].name = snap[i]
            /\ got[i].whole \/ snap[i] \in Cuttable[kind]
       /\ pos <= buf
       /\ kind = "link" => pos < buf
  /\ kind = "dir" /\ answer < 0 => got = <<>>
  /\ kind = "dir" /\ answer > 0 => Len(got) < Len(snap)

Transit ==
  /\ at = "sizing" => Sizing
  /\ at = "sized" => Sized
  /\ at = "filling" => FillingOK
  /\ at = "handing" => Handing
  /\ at = "again" => kind \in {"value", "list"} /\ SizedFits
  /\ at = "idle" => Ended

TInv == TypeOK /\ Transit

-----------------------------------------------------------------------------
(* The constants.                                                          *)

\* An estimate leaves room for the characters and the terminator.
LEMMA EstimateEnough ==
  ASSUME NEW n \in Names
  PROVE  Estimate(n) \in Nat /\ Estimate(n) >= Chars[n] + 1
<1>1. Chars[n] \in Nat /\ Average \in Nat /\ Average >= 10
  BY NamesAssumption, AverageAssumption
<1>2. PICK p \in Nat : p = Chars[n] * Average
  BY <1>1
<1>3. p >= Chars[n] * 10
  BY <1>1, <1>2
<1>4. p \div 10 >= Chars[n] /\ p \div 10 \in Nat
  BY <1>1, <1>3
<1> QED
  BY <1>1, <1>2, <1>4 DEF Estimate

LEMMA HeldContents ==
  ASSUME NEW k \in Kinds, NEW s \in Held[k]
  PROVE  /\ s \in Contents
         /\ s \in Seq(Names)
         /\ Len(s) \in Nat
         /\ \A i \in 1..Len(s) : s[i] \in Names
         /\ k \in {"link", "value"} => Len(s) = 1 /\ s[1] \in Names
BY ContentsAssumption DEF Held

LEMMA EstimateStep ==
  ASSUME NEW s \in Contents, NEW i \in 0..Len(s)
  PROVE  /\ EstimateFrom[s][i] \in Nat
         /\ i < Len(s) => EstimateFrom[s][i] =
                            Estimate(s[i + 1]) + EstimateFrom[s][i + 1]
<1>1. s \in Seq(Names) /\ Len(s) \in Nat
  BY ContentsAssumption
<1>2. ASSUME i < Len(s)
      PROVE  EstimateFrom[s][i] = Estimate(s[i + 1]) + EstimateFrom[s][i + 1]
  <2>1. i + 1 \in 1..Len(s) /\ (i + 1) - 1 = i
    BY <1>1, <1>2
  <2> QED
    BY <2>1, EstimateFromAssumption
<1> QED
  BY <1>2, EstimateFromAssumption

-----------------------------------------------------------------------------
(* The calls begin.                                                        *)

LEMMA QueryStep ==
  ASSUME TypeOK, QuerySize
  PROVE  TypeOK' /\ Sizing'
<1>1. content \in Held[kind] /\ kind \in Kinds
  BY DEF TypeOK
<1>2. content \in Contents /\ Len(content) \in Nat
  BY <1>1, HeldContents
<1>3. EstimateFrom[content][0] \in Nat
  BY <1>2, EstimateStep
<1>4. TypeOK'
  BY <1>1, <1>2 DEF TypeOK, QuerySize, CallFs, Places
<1>5. Sizing'
  BY <1>1, <1>3 DEF QuerySize, CallFs, Sizing
<1> QED
  BY <1>4, <1>5

LEMMA FetchStep ==
  ASSUME TypeOK, at = "sized" => Sized, NEW size \in Nat \ {0}, Fetch(size),
         at = "sized" => size = buf
  PROVE  TypeOK' /\ FillingOK'
<1>1. content \in Held[kind] /\ kind \in Kinds
  BY DEF TypeOK
<1>2. content \in Contents /\ Len(content) \in Nat
  BY <1>1, HeldContents
<1>3. TypeOK'
  BY <1>1, <1>2 DEF TypeOK, Fetch, CallFs, Places
<1>4. RoomLeft'
  <2> SUFFICES ASSUME same' PROVE RoomLeft'
    BY DEF RoomLeft
  <2>1. at = "sized" /\ snap = content /\ Sized /\ size = buf
    BY DEF Fetch
  <2>2. pos' = 0 /\ next' = 0 /\ snap' = content /\ buf' = size /\ kind' = kind
    BY DEF Fetch, CallFs
  <2>3. EstimateFrom[content][0] \in Nat
    BY <1>2, EstimateStep
  <2> QED
    BY <2>1, <2>2, <2>3 DEF RoomLeft, Sized
<1>5. FillingOK'
  BY <1>1, <1>4 DEF Fetch, CallFs, FillingOK, Arrived
<1> QED
  BY <1>3, <1>5

LEMMA ClientStep ==
  ASSUME TInv, Begin \/ Continue \/ TakeNothing \/ Change
  PROVE  TInv'
<1> USE DEF TInv
<1>1. CASE Begin
  <2>1. CASE QuerySize
    <3>1. at' = "sizing"
      BY <2>1 DEF QuerySize
    <3> QED
      BY <2>1, <3>1, QueryStep DEF Transit
  <2>2. ASSUME NEW size \in Sizes, Fetch(size) PROVE TInv'
    <3>1. at' = "filling" /\ size \in Nat \ {0} /\ at # "sized"
      BY <1>1, <2>2, SizesAssumption DEF Begin, Fetch
    <3> QED
      BY <2>2, <3>1, FetchStep DEF Transit
  <2> QED
    BY <1>1, <2>1, <2>2 DEF Begin
<1>2. CASE Continue
  <2>1. CASE at = "sized" /\ buf # 0 /\ Fetch(buf)
    <3>1. at' = "filling" /\ buf \in Nat \ {0} /\ Sized
      BY <2>1 DEF Fetch, TypeOK, Transit
    <3> QED
      BY <2>1, <3>1, FetchStep DEF Transit
  <2>2. CASE at = "again" /\ QuerySize
    <3>1. at' = "sizing"
      BY <2>2 DEF QuerySize
    <3> QED
      BY <2>2, <3>1, QueryStep DEF Transit
  <2> QED
    BY <1>2, <2>1, <2>2 DEF Continue
<1>3. CASE TakeNothing
  <2>1. /\ at = "sized" /\ Sized /\ buf = 0 /\ at' = "idle" /\ kind \in Kinds
        /\ UNCHANGED <<kind, content, changes, buf, snap, next, pos, answer,
                       same>>
        /\ \/ kind = "value" /\ Arrives(snap[1], Bytes[snap[1]] <= buf)
           \/ kind = "list" /\ UNCHANGED got
    BY <1>3 DEF TakeNothing, Transit, TypeOK
  <2>2. snap \in Contents /\ Len(snap) \in Nat
        /\ \A i \in 1..Len(snap) : snap[i] \in Names
    BY <2>1, HeldContents DEF Sized
  <2>3. CASE kind = "list"
    <3>1. Len(snap) = 0
      <4> SUFFICES ASSUME Len(snap) > 0 PROVE FALSE
        BY <2>2
      <4>1. 0 \in 0..Len(snap) /\ 1 \in 0..Len(snap) /\ snap[1] \in Names
        BY <2>2
      <4>2. Estimate(snap[1]) \in Nat /\ Estimate(snap[1]) >= Chars[snap[1]] + 1
        BY <4>1, EstimateEnough
      <4>3. EstimateFrom[snap][1] \in Nat /\ Chars[snap[1]] \in Nat
        BY <2>2, <4>1, EstimateStep, NamesAssumption
      <4>4. EstimateFrom[snap][0] = Estimate(snap[1]) + EstimateFrom[snap][1]
        BY <2>2, <4>1, EstimateStep
      <4> QED
        BY <2>1, <2>3, <4>2, <4>3, <4>4 DEF Sized
    <3>2. TypeOK'
      BY <2>1, <2>3 DEF TypeOK, Places
    <3>3. Ended'
      BY <2>1, <2>3, <3>1 DEF Ended, Sized
    <3> QED
      BY <2>1, <3>2, <3>3 DEF Transit
  <2>4. CASE kind = "value"
    <3>1. /\ Len(snap) = 1 /\ snap[1] \in Names /\ got = <<>> /\ pos = 0
          /\ answer = 0 /\ Bytes[snap[1]] = buf
      BY <2>1, <2>4, HeldContents DEF Sized
    <3>2. got' = <<[name |-> snap[1], whole |-> TRUE]>>
      <4>1. (Bytes[snap[1]] <= buf) = TRUE
        BY <2>1, <3>1
      <4>2. Arrives(snap[1], Bytes[snap[1]] <= buf)
        BY <2>1, <2>4
      <4>3. Arrives(snap[1], TRUE)
        BY <4>1, <4>2, Zenon
      <4> QED
        BY <3>1, <4>3 DEF Arrives
    <3>3. got' \in Seq(Item)
      BY <3>1, <3>2 DEF Item
    <3>4. TypeOK'
      BY <2>1, <3>3 DEF TypeOK, Places
    <3>5. Ended'
      BY <2>1, <2>4, <3>1, <3>2 DEF Ended
    <3> QED
      BY <2>1, <3>4, <3>5 DEF Transit
  <2> QED
    BY <2>1, <2>3, <2>4
<1>4. CASE Change
  <2>1. UNCHANGED <<kind, at, buf, call, answer, same>>
    BY <1>4 DEF Change
  <2>2. TypeOK'
    BY <1>4, MaxChangesAssumption DEF Change, TypeOK, call
  <2>3. Transit'
    BY <2>1
       DEF Transit, Sizing, Sized, FillingOK, RoomLeft, Handing, Ended,
           Arrived, SizedFits, call
  <2> QED
    BY <2>2, <2>3
<1> QED
  BY <1>1, <1>2, <1>3, <1>4

-----------------------------------------------------------------------------
(* The callbacks.                                                          *)

LEMMA FailStep ==
  ASSUME TInv, at \in {"sizing", "filling", "handing"},
         NEW e \in Int, Fail(e),
         -e \in {0, -ERANGE, -ENAMETOOLONG} \cup {-x : x \in Errnos}
                 \cup {-c : c \in FillerCodes},
         e # 0,
         e = ERANGE => kind # "dir" /\ (kind \in {"value", "list"} /\ same =>
                                         kind = "list" /\ HasWide(snap)),
         kind = "dir" /\ e > 0 => got = <<>>,
         kind = "dir" /\ e < 0 => Len(got) < Len(snap)
  PROVE  TInv'
<1>1. /\ UNCHANGED <<kind, content, changes, buf, snap, next, pos, got, same>>
      /\ answer' = -e
      /\ at' = After(e)
  BY DEF Fail, call
<1>2. at' = "again" => e = ERANGE /\ kind \in {"value", "list"}
  BY <1>1 DEF After
<1>3. at' \in {"again", "idle"}
  BY <1>1 DEF After
<1>4. TypeOK'
  BY <1>1, <1>3 DEF TInv, TypeOK, Places
<1>5. at' = "again" => SizedFits'
  BY <1>1, <1>2 DEF SizedFits, HasWide
<1>6. Ended'
  BY <1>1 DEF Ended
<1> QED
  BY <1>1, <1>2, <1>3, <1>4, <1>5, <1>6 DEF TInv, Transit

\* A callback that succeeds with the items of snap.
LEMMA SucceedStep ==
  ASSUME TInv, Succeed, got' \in Seq(Item), Len(got') = Len(snap),
         \A i \in 1..Len(snap) :
           /\ got'[i].name = snap[i]
           /\ got'[i].whole \/ snap[i] \in Cuttable[kind],
         pos' \in Nat, pos' <= buf, kind = "link" => pos' < buf
  PROVE  TInv'
<1>1. /\ at' = "idle" /\ answer' = 0
      /\ UNCHANGED <<kind, content, changes, buf, snap, next, same>>
  BY DEF Succeed
<1>2. TypeOK'
  BY <1>1 DEF TInv, TypeOK, Places
<1>3. Ended'
  BY <1>1 DEF Ended
<1> QED
  BY <1>1, <1>2, <1>3 DEF TInv, Transit

LEMMA SizingStep ==
  ASSUME TInv, SizeName \/ AnswerSize
  PROVE  TInv'
<1>1. /\ at = "sizing" /\ Sizing /\ kind \in Kinds
      /\ next \in 0..Len(snap) /\ pos \in Nat
  BY DEF TInv, Transit, SizeName, AnswerSize, TypeOK
<1>2. snap \in Contents /\ Len(snap) \in Nat
      /\ \A i \in 1..Len(snap) : snap[i] \in Names
  BY <1>1, HeldContents DEF Sizing
<1>3. CASE SizeName
  <2>1. /\ kind = "list" /\ next < Len(snap) /\ next' = next + 1
        /\ pos' = pos + Estimate(snap[next + 1])
        /\ UNCHANGED <<kind, content, changes, at, buf, same, snap, got, answer>>
    BY <1>3 DEF SizeName
  <2>2. next + 1 \in 1..Len(snap) /\ next + 1 \in 0..Len(snap)
    BY <1>1, <1>2, <2>1
  <2>3. Estimate(snap[next + 1]) \in Nat
    BY <1>2, <2>2, EstimateEnough
  <2>4. /\ EstimateFrom[snap][next + 1] \in Nat
        /\ EstimateFrom[snap][next] = Estimate(snap[next + 1])
                                        + EstimateFrom[snap][next + 1]
    BY <1>1, <1>2, <2>1, <2>2, EstimateStep
  <2>5. pos' + EstimateFrom[snap][next'] = EstimateFrom[snap][0]
    BY <1>1, <2>1, <2>3, <2>4 DEF Sizing
  <2>6. TypeOK'
    BY <1>1, <2>1, <2>2, <2>3 DEF TInv, TypeOK
  <2> QED
    BY <1>1, <2>1, <2>5, <2>6 DEF TInv, Transit, Sizing
<1>4. CASE AnswerSize
  <2>1. /\ kind = "list" => next = Len(snap)
        /\ buf' = IF kind = "list" THEN pos ELSE Bytes[snap[1]]
        /\ at' = "sized"
        /\ UNCHANGED <<kind, content, changes, snap, next, pos, got, answer,
                       same>>
    BY <1>4 DEF AnswerSize, call
  <2>2. kind = "list" => buf' = EstimateFrom[snap][0]
    BY <1>1, <1>2, <2>1, EstimateFromAssumption DEF Sizing
  <2>3. buf' \in Nat
    BY <1>1, <1>2, <2>1, HeldContents, NamesAssumption DEF Sizing
  <2>4. TypeOK'
    BY <2>1, <2>3 DEF TInv, TypeOK, Places
  <2> QED
    BY <1>1, <2>1, <2>2, <2>4 DEF TInv, Transit, Sizing, Sized
<1> QED
  BY <1>3, <1>4

LEMMA SingleStep ==
  ASSUME TInv, FillLink \/ FillValue
  PROVE  TInv'
<1>1. /\ at = "filling" /\ FillingOK /\ kind \in {"link", "value"}
      /\ kind \in Kinds /\ buf \in Nat
  BY DEF TInv, Transit, FillLink, FillValue, TypeOK, Kinds
<1>2. PICK n \in Names : n = snap[1]
  BY <1>1, HeldContents DEF FillingOK
<1>3. /\ Len(snap) = 1 /\ got = <<>> /\ buf >= 1
      /\ Bytes[n] \in Nat /\ Limit \in Nat
      /\ Limit = IF kind = "link" THEN buf - 1 ELSE buf
  BY <1>1, <1>2, HeldContents, NamesAssumption DEF FillingOK, Limit
<1>4. kind = "value" /\ same => Bytes[n] <= Limit
  BY <1>1, <1>2, <1>3 DEF FillingOK, RoomLeft
<1>5. CASE Fail(ERANGE) /\ (kind = "value" => Bytes[n] > Limit)
  <2>1. kind = "value" => ~same
    BY <1>3, <1>4, <1>5
  <2> QED
    BY <1>1, <1>5, <2>1, FailStep DEF ERANGE
<1>6. CASE Fail(ENAMETOOLONG)
  BY <1>1, <1>6, FailStep DEF ENAMETOOLONG, ERANGE
<1>7. CASE pos' = Bytes[n] /\ Bytes[n] <= Limit /\ Arrives(n, TRUE) /\ Succeed
  <2>1. got' = <<[name |-> n, whole |-> TRUE]>>
    BY <1>3, <1>7 DEF Arrives
  <2>2. got' \in Seq(Item)
    BY <2>1 DEF Item
  <2>3. pos' \in Nat /\ pos' <= buf /\ (kind = "link" => pos' < buf)
    BY <1>1, <1>3, <1>7
  <2>4. /\ Len(got') = Len(snap)
        /\ \A i \in 1..Len(snap) : got'[i].name = snap[i] /\ got'[i].whole
    BY <1>2, <1>3, <2>1
  <2> QED
    BY <1>7, <2>2, <2>3, <2>4, SucceedStep
<1> QED
  BY <1>2, <1>5, <1>6, <1>7 DEF FillLink, FillValue

\* One more item arrives.
LEMMA OneMore ==
  ASSUME TypeOK, Arrived, next < Len(snap), next' = next + 1,
         UNCHANGED <<kind, snap>>,
         NEW n \in Names, n = snap[next + 1],
         NEW w \in BOOLEAN, w \/ n \in Cuttable[kind],
         Arrives(n, w)
  PROVE  got' \in Seq(Item) /\ Arrived'
<1>1. /\ next \in Nat /\ Len(got) = next /\ got \in Seq(Item)
      /\ got' = Append(got, [name |-> n, whole |-> w])
  BY DEF TypeOK, Arrived, Arrives
<1>2. [name |-> n, whole |-> w] \in Item
  BY DEF Item
<1>3. got' \in Seq(Item) /\ Len(got') = next + 1
  BY <1>1, <1>2
<1>4. ASSUME NEW i \in 1..(next + 1)
      PROVE  got'[i].name = snap[i] /\ (got'[i].whole \/ snap[i] \in Cuttable[kind])
  <2>1. CASE i = next + 1
    BY <1>1, <1>2, <2>1
  <2>2. CASE i # next + 1
    <3>1. i \in 1..next /\ got'[i] = got[i]
      BY <1>1, <1>2, <2>2
    <3> QED
      BY <3>1 DEF Arrived
  <2> QED
    BY <2>1, <2>2
<1> QED
  BY <1>3, <1>4 DEF Arrived

\* An item and its terminator fit, if what is estimated for it and for the
\* rest does.
LEMMA RoomForOne ==
  ASSUME NEW at0 \in Nat, NEW bytes \in Nat, NEW item \in Nat, NEW rest \in Nat,
         NEW room \in Nat, item >= bytes + 1, at0 + (item + rest) <= room
  PROVE  at0 + bytes + 1 + rest <= room
OBVIOUS

\* Where the encoder can stop.
LEMMA EncodedFits ==
  ASSUME TInv, at = "filling", kind = "list", next < Len(snap),
         NEW n \in Names, n = snap[next + 1], NEW end \in 0..Limit,
         Encoded(n, end)
  PROVE  /\ pos + Bytes[n] > Limit /\ end < Limit => n \in Cuttable[kind]
         /\ same /\ ~HasWide(snap) =>
              /\ end = pos + Bytes[n]
              /\ end < Limit
              /\ end + 1 + EstimateFrom[snap][next + 1] <= buf
<1>1. /\ FillingOK /\ kind \in Kinds /\ buf \in Nat /\ pos \in Nat
      /\ next \in 0..Len(snap) /\ Limit = buf
  BY DEF TInv, Transit, TypeOK, Limit
<1>2. /\ Chars[n] \in Nat /\ Bytes[n] \in Nat /\ Widest[n] \in Nat \ {0}
      /\ Widest[n] = 1 => Bytes[n] <= Chars[n]
  BY NamesAssumption
<1>3. ASSUME pos + Bytes[n] > Limit, end < Limit
      PROVE  n \in Cuttable[kind]
  <2>1. end > Limit - Widest[n]
    BY <1>1, <1>2, <1>3 DEF Encoded
  <2>2. Widest[n] > 1
    BY <1>1, <1>2, <1>3, <2>1
  <2> QED
    BY <1>1, <2>2 DEF Cuttable, Wide
<1>4. ASSUME same, ~HasWide(snap)
      PROVE  /\ end = pos + Bytes[n]
             /\ end < Limit
             /\ end + 1 + EstimateFrom[snap][next + 1] <= buf
  <2>1. snap \in Contents /\ Len(snap) \in Nat
    BY <1>1, HeldContents DEF FillingOK
  <2>2. next + 1 \in DOMAIN snap /\ next + 1 \in 0..Len(snap)
    BY <1>1, <2>1, HeldContents DEF FillingOK
  <2>3. Bytes[n] <= Chars[n]
    BY <1>2, <1>4, <2>2 DEF HasWide, Wide
  <2>4. Estimate(n) \in Nat /\ Estimate(n) >= Bytes[n] + 1
    BY <1>2, <2>3, EstimateEnough
  <2>5. /\ EstimateFrom[snap][next + 1] \in Nat
        /\ EstimateFrom[snap][next] = Estimate(n) + EstimateFrom[snap][next + 1]
    BY <1>1, <2>1, <2>2, EstimateStep
  <2>6. buf >= pos + EstimateFrom[snap][next]
    BY <1>1, <1>4 DEF FillingOK, RoomLeft
  <2>7. pos + Bytes[n] + 1 + EstimateFrom[snap][next + 1] <= buf
    <3>1. pos + (Estimate(n) + EstimateFrom[snap][next + 1]) <= buf
      BY <2>5, <2>6
    <3> QED
      BY <1>1, <1>2, <2>4, <2>5, <3>1, RoomForOne
  <2>8. end = pos + Bytes[n]
    <3>1. pos + Bytes[n] <= buf
      BY <1>1, <1>2, <2>5, <2>7
    <3>2. ~(pos + Bytes[n] > Limit)
      BY <1>1, <1>2, <3>1
    <3> QED
      BY <3>2 DEF Encoded
  <2> QED
    BY <1>1, <1>2, <2>5, <2>7, <2>8
<1> QED
  BY <1>3, <1>4

LEMMA ListStep ==
  ASSUME TInv, ListName \/ ListNameOverflows \/ ListDone
  PROVE  TInv'
<1>1. /\ at = "filling" /\ kind = "list" /\ FillingOK /\ Arrived
      /\ kind \in Kinds /\ buf \in Nat /\ pos \in Nat /\ Limit = buf
      /\ next \in 0..Len(snap) /\ TypeOK
  BY DEF TInv, Transit, FillingOK, TypeOK, ListName, ListNameOverflows,
         ListDone, Limit
<1>2. /\ snap \in Contents /\ Len(snap) \in Nat
      /\ \A i \in 1..Len(snap) : snap[i] \in Names
  BY <1>1, HeldContents DEF FillingOK
<1>3. CASE ListName
  <2>1. /\ next < Len(snap) /\ next' = next + 1
        /\ UNCHANGED <<kind, content, changes, at, buf, same, snap, answer>>
    BY <1>3 DEF ListName
  <2>2. next + 1 \in 1..Len(snap) /\ next + 1 \in 0..Len(snap)
    BY <1>1, <1>2, <2>1
  <2>3. PICK n \in Names : n = snap[next + 1]
    BY <1>2, <2>2
  <2>4. PICK end \in 0..Limit : /\ Encoded(n, end) /\ end < Limit
                               /\ pos' = end + 1
                               /\ Arrives(n, pos + Bytes[n] <= Limit)
    BY <1>3, <2>3 DEF ListName
  <2>5. /\ pos + Bytes[n] <= Limit \/ n \in Cuttable[kind]
        /\ same /\ ~HasWide(snap) =>
             end + 1 + EstimateFrom[snap][next + 1] <= buf
    <3>1. Bytes[n] \in Nat
      BY NamesAssumption
    <3> QED
      BY <1>1, <2>1, <2>3, <2>4, <3>1, EncodedFits
  <2>6. (pos + Bytes[n] <= Limit) \in BOOLEAN
    OBVIOUS
  <2>7. got' \in Seq(Item) /\ Arrived'
    BY <1>1, <2>1, <2>3, <2>4, <2>5, <2>6, OneMore
  <2>8. pos' \in Nat /\ pos' <= buf
    BY <1>1, <2>4
  <2>9. TypeOK'
    BY <1>1, <2>1, <2>2, <2>7, <2>8 DEF TypeOK
  <2>10. RoomLeft'
    BY <1>1, <2>1, <2>4, <2>5 DEF RoomLeft, HasWide
  <2> QED
    BY <1>1, <2>1, <2>7, <2>8, <2>9, <2>10 DEF TInv, Transit, FillingOK
<1>4. CASE ListNameOverflows
  <2>1. next < Len(snap) /\ Encoded(snap[next + 1], Limit) /\ Fail(ERANGE)
    BY <1>4 DEF ListNameOverflows
  <2>2. PICK n \in Names : n = snap[next + 1]
    BY <1>1, <1>2, <2>1
  <2>3. same => HasWide(snap)
    <3>1. Limit \in 0..Limit /\ Encoded(n, Limit)
      BY <1>1, <2>1, <2>2
    <3> QED
      BY <1>1, <2>1, <2>2, <3>1, EncodedFits
  <2> QED
    BY <1>1, <2>1, <2>3, FailStep DEF ERANGE
<1>5. CASE ListDone
  <2>1. Succeed /\ next = Len(snap) /\ UNCHANGED <<pos, got>>
    BY <1>5 DEF ListDone
  <2>2. got \in Seq(Item)
    BY <1>1 DEF TypeOK
  <2> QED
    BY <1>1, <2>1, <2>2, SucceedStep DEF Arrived, FillingOK
<1> QED
  BY <1>3, <1>4, <1>5

LEMMA DirStep ==
  ASSUME TInv, Collect \/ HandEntry \/ EntryRefused \/ EntriesDone
  PROVE  TInv'
<1>1. CASE Collect
  <2>1. /\ at = "filling" /\ kind = "dir" /\ at' = "handing" /\ FillingOK
        /\ UNCHANGED <<kind, content, changes, buf, snap, next, pos, got, same,
                       answer>>
    BY <1>1 DEF Collect, call, TInv, Transit
  <2>2. TypeOK'
    BY <2>1 DEF TInv, TypeOK, Places
  <2> QED
    BY <2>1, <2>2 DEF TInv, Transit, FillingOK, Handing, Arrived
<1>2. CASE HandEntry \/ EntryRefused \/ EntriesDone
  <2>1. /\ at = "handing" /\ Handing /\ TypeOK /\ kind \in Kinds
        /\ next \in 0..Len(snap) /\ buf \in Nat
    BY <1>2 DEF HandEntry, EntryRefused, EntriesDone, TInv, Transit, TypeOK
  <2>2. /\ Len(snap) \in Nat
        /\ \A i \in 1..Len(snap) : snap[i] \in Names
    BY <2>1, HeldContents DEF Handing
  <2>3. CASE HandEntry
    <3>1. /\ next < Len(snap) /\ next' = next + 1
          /\ UNCHANGED <<kind, content, changes, at, buf, same, snap, pos, answer>>
          /\ Arrives(snap[next + 1], Bytes[snap[next + 1]] <= MaxName)
      BY <2>3 DEF HandEntry
    <3>2. next + 1 \in 1..Len(snap) /\ next + 1 \in 0..Len(snap)
      BY <2>1, <2>2, <3>1
    <3>3. PICK n \in Names : n = snap[next + 1]
      BY <2>2, <3>2
    <3>4. (Bytes[n] <= MaxName) \in BOOLEAN
      OBVIOUS
    <3>5. Bytes[n] <= MaxName \/ n \in Cuttable[kind]
      BY <2>1, NamesAssumption, MaxNameAssumption DEF Handing, Cuttable
    <3>6. got' \in Seq(Item) /\ Arrived'
      BY <2>1, <3>1, <3>3, <3>4, <3>5, OneMore DEF Handing
    <3>7. TypeOK'
      BY <2>1, <3>1, <3>2, <3>6 DEF TypeOK
    <3> QED
      BY <2>1, <3>1, <3>6, <3>7 DEF TInv, Transit, Handing
  <2>4. CASE EntryRefused
    <3>1. PICK code \in FillerCodes : Fail(code) /\ next < Len(snap)
      BY <2>4 DEF EntryRefused
    <3>2. code \in Int /\ code < 0 /\ Len(got) < Len(snap)
      BY <2>1, <3>1, FillerCodesAssumption DEF Handing, Arrived
    <3> QED
      BY <2>1, <3>1, <3>2, FailStep DEF ERANGE
  <2>5. CASE EntriesDone
    <3>1. Succeed /\ next = Len(snap) /\ UNCHANGED <<pos, got>>
      BY <2>5 DEF EntriesDone
    <3> QED
      BY <2>1, <3>1, SucceedStep DEF Handing, Arrived, TypeOK
  <2> QED
    BY <1>2, <2>3, <2>4, <2>5
<1> QED
  BY <1>1, <1>2

LEMMA ThrowStep ==
  ASSUME TInv, FsThrows
  PROVE  TInv'
<1>1. PICK e \in Errnos : Fail(e)
  BY DEF FsThrows
<1>2. e \in Nat \ {0} /\ e # ERANGE
  BY ErrnosAssumption
<1>3. at \in {"sizing", "filling"} /\ (kind = "dir" => got = <<>>)
  BY DEF FsThrows, TInv, Transit, Sizing, FillingOK
<1> QED
  BY <1>1, <1>2, <1>3, FailStep

LEMMA TInvStep == TInv /\ [Next]_vars => TInv'
<1> SUFFICES ASSUME TInv, [Next]_vars PROVE TInv'
  OBVIOUS
<1>1. CASE UNCHANGED vars
  BY <1>1
     DEF vars, call, TInv, TypeOK, Transit, Sizing, Sized, FillingOK, RoomLeft,
         Handing, Ended, Arrived, SizedFits
<1>2. CASE Next
  BY <1>2, ClientStep, SizingStep, SingleStep, ListStep, DirStep, ThrowStep
     DEF Next, Serving
<1> QED
  BY <1>1, <1>2

LEMMA TInvStart == Init => TInv
<1> SUFFICES ASSUME Init PROVE TInv
  OBVIOUS
<1>1. <<>> \in Seq(Item) /\ 0 \in 0..Len(<<>>)
  OBVIOUS
<1>2. 0 \in 0..MaxChanges
  BY MaxChangesAssumption
<1>3. TypeOK
  BY <1>1, <1>2 DEF Init, TypeOK, Places
<1>4. Transit
  BY DEF Init, Transit
<1> QED
  BY <1>3, <1>4 DEF TInv

LEMMA Invariance == Spec => []TInv
BY TInvStart, TInvStep, PTL DEF Spec

-----------------------------------------------------------------------------
(* The theorems.                                                           *)

\* The variables have their types; an answer is 0, a negated errno, or a code
\* of the filler negated once more.
THEOREM TypeCorrect == Spec => []TypeOK
<1>1. TInv => TypeOK
  BY DEF TInv
<1> QED
  BY <1>1, Invariance, PTL

\* Nothing is written past the end of the buffer, the terminator of a link's
\* target included.
THEOREM StaysInside == Spec => []InsideBuffer
<1>1. TInv => InsideBuffer
  BY DEF TInv, Transit, FillingOK, Ended, InsideBuffer
<1> QED
  BY <1>1, Invariance, PTL

\* A buffer of the size that was answered suffices while the content stays as
\* it is, for values always and for lists of names of single-byte characters.
THEOREM EstimateSuffices == Spec => []SizedFits
<1>1. TInv => SizedFits
  BY DEF TInv, Transit, SizedFits
<1> QED
  BY <1>1, Invariance, PTL

\* getdir's answer tells by its sign what FUSE has of the directory.
THEOREM ListingBySign == Spec => []ListingAllOrNone
<1>1. TInv => ListingAllOrNone
  BY DEF TInv, Transit, Ended, ListingAllOrNone
<1> QED
  BY <1>1, Invariance, PTL

-----------------------------------------------------------------------------
(* Readings run down.                                                      *)

\* A step of the reading that leaves the content alone and lets no buffer turn
\* out too small unexpectedly pays with the stage, or with the items.
LEMMA StepPays ==
  ASSUME TypeOK, UNCHANGED <<content, changes>>, Stale' => Stale,
         \/ Stage' < Stage
         \/ Stage' = Stage /\ Len(snap') - next' < Len(snap) - next
         \/ Stale /\ ~Stale'
  PROVE  \/ Credit' < Credit
         \/ Credit' = Credit /\ Stage' < Stage
         \/ Credit' = Credit /\ Stage' = Stage
              /\ Len(snap') - next' < Len(snap) - next
<1>1. MaxChanges - changes \in Int
  BY MaxChangesAssumption DEF TypeOK
<1>2. CASE Stale /\ ~Stale'
  BY <1>1, <1>2 DEF Credit
<1>3. CASE (Stale <=> Stale')
  BY <1>1, <1>3 DEF Credit
<1> QED
  BY <1>2, <1>3

LEMMA ReadRunsDownStep ==
  ASSUME TInv, TInv', Next, at \notin {"start", "idle"},
         ~(at' = "again" /\ kind = "list" /\ HasWide(snap))
  PROVE  \/ Credit' < Credit
         \/ Credit' = Credit /\ Stage' < Stage
         \/ Credit' = Credit /\ Stage' = Stage
              /\ Len(snap') - next' < Len(snap) - next
<1>0. TypeOK /\ at \in Places
  BY DEF TInv, TypeOK
<1>1. CASE Change
  <2>1. /\ changes' = changes + 1 /\ changes < MaxChanges
        /\ changes \in Nat /\ MaxChanges \in Nat
    BY <1>0, <1>1, MaxChangesAssumption DEF Change, TypeOK
  <2> QED
    BY <2>1 DEF Credit
<1>2. CASE Continue
  <2>1. CASE at = "sized" /\ Fetch(buf)
    <3>1. /\ UNCHANGED <<content, changes>>
          /\ at = "sized" /\ at' = "filling"
          /\ same' <=> snap = content
      BY <2>1 DEF Fetch, CallFs
    <3>2. Stale' => Stale
      BY <3>1 DEF Stale
    <3>3. Stage' < Stage
      BY <3>1 DEF Stage
    <3> QED
      BY <1>0, <3>1, <3>2, <3>3, StepPays
  <2>2. CASE at = "again" /\ QuerySize
    <3>1. /\ UNCHANGED <<content, changes>> /\ at' = "sizing"
          /\ snap' = content
      BY <2>2 DEF QuerySize, CallFs
    <3>2. (Stale' => Stale) /\ Stage' < Stage
      BY <2>2, <3>1 DEF Stale, Stage
    <3> QED
      BY <1>0, <3>1, <3>2, StepPays
  <2> QED
    BY <1>2, <2>1, <2>2 DEF Continue
<1>3. CASE TakeNothing \/ Serving
  <2>0. UNCHANGED <<content, changes, kind, snap, same>>
    BY <1>3
       DEF TakeNothing, Serving, FsThrows, SizeName, AnswerSize, FillLink,
           FillValue, ListName, ListNameOverflows, ListDone, Collect,
           HandEntry, EntryRefused, EntriesDone, Fail, Succeed, call
  <2>1. CASE at' = "idle"
    <3>1. ~Stale' /\ Stage' < Stage
      BY <1>0, <2>1 DEF Stale, Stage, Places
    <3> QED
      BY <1>0, <2>0, <3>1, StepPays
  <2>2. CASE at' = "again"
    <3>1. at = "filling"
      BY <1>3, <2>2, ErrnosAssumption, FillerCodesAssumption
         DEF TakeNothing, Serving, FsThrows, SizeName, AnswerSize, FillLink,
             FillValue, ListName, ListNameOverflows, ListDone, Collect,
             HandEntry, EntryRefused, EntriesDone, Fail, After, Succeed,
             ERANGE
    <3>2. ~same
      BY <2>0, <2>2 DEF TInv, Transit, SizedFits, HasWide
    <3>3. Stale /\ ~Stale'
      BY <2>2, <3>1, <3>2 DEF Stale
    <3> QED
      BY <1>0, <2>0, <3>3, StepPays
  <2>3. CASE SizeName \/ ListName \/ HandEntry
    <3>1. UNCHANGED at /\ next' = next + 1
      BY <2>3 DEF SizeName, ListName, HandEntry
    <3>2. next \in Int /\ Len(snap) \in Int
      BY <1>0 DEF TypeOK
    <3>3. (Stale' <=> Stale) /\ Stage' = Stage
      BY <2>0, <3>1 DEF Stale, Stage
    <3> QED
      BY <1>0, <2>0, <3>1, <3>2, <3>3, StepPays
  <2>4. CASE AnswerSize
    <3>1. at = "sizing" /\ at' = "sized"
      BY <2>4 DEF AnswerSize
    <3> QED
      BY <1>0, <2>0, <3>1, StepPays DEF Stale, Stage
  <2>5. CASE Collect
    <3>1. at = "filling" /\ at' = "handing"
      BY <2>5 DEF Collect
    <3> QED
      BY <1>0, <2>0, <3>1, StepPays DEF Stale, Stage
  <2>6. \/ at' \in {"idle", "again"}
        \/ SizeName \/ ListName \/ HandEntry \/ AnswerSize \/ Collect
    BY <1>3
       DEF TakeNothing, Serving, FsThrows, FillLink, FillValue,
           ListNameOverflows, ListDone, EntryRefused, EntriesDone, Fail,
           After, Succeed
  <2> QED
    BY <2>1, <2>2, <2>3, <2>4, <2>5, <2>6
<1>4. ~Begin
  BY DEF Begin
<1> QED
  BY <1>1, <1>2, <1>3, <1>4 DEF Next

LEMMA RunDownNat ==
  ASSUME TypeOK
  PROVE  Credit \in Nat /\ Stage \in Nat /\ Len(snap) - next \in Nat
<1>1. MaxChanges - changes \in Nat
  BY MaxChangesAssumption DEF TypeOK
<1>2. Credit \in Nat
  BY <1>1 DEF Credit
<1>3. Stage \in Nat
  BY DEF TypeOK, Places, Stage
<1>4. Len(snap) \in Nat /\ next \in 0..Len(snap)
  <2>1. CASE snap = <<>>
    BY <2>1 DEF TypeOK
  <2>2. CASE snap # <<>>
    BY <2>2, HeldContents DEF TypeOK
  <2> QED
    BY <2>1, <2>2 DEF TypeOK
<1> QED
  BY <1>2, <1>3, <1>4

\* A reading takes finitely many steps for the changes there are: a process
\* that is told its buffer is too small asks again once for each change, and
\* no oftener, unless a list has a name of several bytes per character.
THEOREM ReadsRunDown ==
  Spec => /\ ReadRunsDown
          /\ [](Credit \in Nat /\ Stage \in Nat /\ Len(snap) - next \in Nat)
<1>1. TInv /\ TInv' /\ [Next]_vars =>
        [/\ at \notin {"start", "idle"}
         /\ ~(at' = "again" /\ kind = "list" /\ HasWide(snap))
         => \/ Credit' < Credit
            \/ Credit' = Credit /\ Stage' < Stage
            \/ Credit' = Credit /\ Stage' = Stage
                 /\ Len(snap') - next' < Len(snap) - next]_vars
  BY ReadRunsDownStep
<1>2. TInv => Credit \in Nat /\ Stage \in Nat /\ Len(snap) - next \in Nat
  BY RunDownNat DEF TInv
<1> QED
  BY <1>1, <1>2, Invariance, PTL DEF Spec, ReadRunsDown

-----------------------------------------------------------------------------
(* Transfers implements Delivery.                                          *)

LEMMA PromiseStart == Init => Promise!Init
BY DEF Init, Given, Promise!Init, Promise!Nothing

LEMMA PromiseStep ==
  ASSUME TInv, TInv', [Next]_vars
  PROVE  [Promise!Next]_Promise!dvars
<1>1. CASE UNCHANGED vars
  BY <1>1 DEF vars, call, Given, Promise!dvars
<1>2. CASE Change
  <2>1. /\ UNCHANGED <<kind, at, snap, got, answer>> /\ content' \in Held[kind]
    BY <1>2 DEF Change, call
  <2> QED
    BY <2>1 DEF Given, Promise!Next, Promise!Change
<1>3. CASE Begin \/ Continue
  <2>1. /\ snap' = content /\ UNCHANGED <<kind, content>>
        /\ at' \in {"sizing", "filling"}
        /\ at \in {"start", "idle", "sized", "again"}
    BY <1>3 DEF Begin, Continue, QuerySize, Fetch, CallFs
  <2>2. CASE at \in {"start", "idle"}
    BY <2>1, <2>2 DEF Given, Promise!Next, Promise!Ask, Promise!Nothing
  <2>3. CASE at \in {"sized", "again"}
    BY <2>1, <2>3 DEF Given, Promise!Next, Promise!See
  <2> QED
    BY <2>1, <2>2, <2>3
<1>4. CASE TakeNothing \/ Serving
  <2>1. /\ at \notin {"start", "idle"} /\ UNCHANGED <<kind, content, snap>>
        /\ at' # "start"
    BY <1>4
       DEF TakeNothing, Serving, FsThrows, SizeName, AnswerSize, FillLink,
           FillValue, ListName, ListNameOverflows, ListDone, Collect,
           HandEntry, EntryRefused, EntriesDone, Fail, After, Succeed, call
  <2>2. CASE at' # "idle"
    BY <2>1, <2>2 DEF Given, Promise!dvars
  <2>3. CASE at' = "idle" /\ answer' = 0
    <3>1. Ended'
      BY <2>3 DEF TInv, Transit
    <3>2. /\ got' \in Seq(Item) /\ snap \in Seq(Names)
          /\ Len(got') = Len(snap)
          /\ \A i \in 1..Len(snap) :
               /\ got'[i].name = snap[i]
               /\ got'[i].whole \/ snap[i] \in Cuttable[kind]
      <4>1. TypeOK' /\ TypeOK
        BY DEF TInv
      <4>2. got' \in Seq(Item)
        BY <4>1 DEF TypeOK
      <4>3. snap \in Seq(Names)
        <5>1. CASE snap = <<>>
          BY <5>1
        <5>2. CASE snap # <<>>
          BY <4>1, <5>2, HeldContents DEF TypeOK
        <5> QED
          BY <5>1, <5>2
      <4> QED
        BY <2>1, <2>3, <3>1, <4>2, <4>3 DEF Ended
    <3>3. Promise!Shows(kind, snap, got')
      BY <3>2 DEF Promise!Shows
    <3>4. Given' = [is |-> "value", items |-> got']
      BY <2>3 DEF Given
    <3> QED
      BY <2>1, <2>3, <3>3, <3>4 DEF Promise!Next, Promise!Deliver
  <2>4. CASE at' = "idle" /\ answer' # 0
    BY <2>1, <2>4 DEF Given, Promise!Next, Promise!Fail, Promise!Error
  <2> QED
    BY <2>2, <2>3, <2>4
<1> QED
  BY <1>1, <1>2, <1>3, <1>4 DEF Next

\* Success means all of what was there at one moment, for any sequence of
\* queries, buffers that are too small, changes in between and errors.
THEOREM DeliversWhole == Spec => ImplementsDelivery
<1>1. TInv /\ TInv' /\ [Next]_vars => [Promise!Next]_Promise!dvars
  BY PromiseStep
<1> QED
  BY <1>1, PromiseStart, Invariance, PTL DEF Spec, ImplementsDelivery, Promise!Spec
=============================================================================
