---------------------------- MODULE TransfersMC ----------------------------
(* Five names: plain, a character; long, three; wide, two of which one is   *)
(* wide; pair, two characters in one byte; and empty.  Lists of two at most *)
(* of the first three, and the others by themselves.                        *)
EXTENDS Transfers

CONSTANTS plain, long, wide, pair, empty

AllNames == {plain, long, wide, pair, empty}

ByName(p, l, w, r, e) ==
  [n \in AllNames |-> CASE n = plain -> p
                       [] n = long  -> l
                       [] n = wide  -> w
                       [] n = pair  -> r
                       [] n = empty -> e]

NameChars  == ByName(1, 3, 2, 2, 0)
NameBytes  == ByName(1, 3, 4, 1, 0)
NameWidest == ByName(1, 1, 3, 1, 1)

ShortLists ==
  UNION {[1..l -> {plain, long, wide}] : l \in 0..2}
    \cup {<<pair>>, <<empty>>}

EstimateSum ==
  [s \in ShortLists |->
     LET from[i \in 0..Len(s)] ==
           IF i = Len(s) THEN 0 ELSE Estimate(s[i + 1]) + from[i + 1]
     IN from]

FullDirectory == {-12}
=============================================================================
