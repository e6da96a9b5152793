--------------------------- MODULE FlashFSProofs ---------------------------
(***************************************************************************)
(* The flash file system for every disk, name length and address space:    *)
(* the walk over the entries meets them in order, so that the listing is   *)
(* complete, the first match is opened and reads stay in the opened file.  *)
(***************************************************************************)
EXTENDS FlashFS, Induction

LEMMA AddInRange == \A x, y \in U32 : U32Add(x, y) \in U32
BY WordAssumption DEF U32, U32Add

LEMMA AddPlain == \A x, y \in U32 : x + y < Word => U32Add(x, y) = x + y
BY DEF U32Add

LEMMA SpanInRange == ASSUME NEW f \in File PROVE Span(f) \in U32 /\ f.length \in U32
<1>1. f.length \in U32 /\ EntSize \in U32
  BY FlashAssumption DEF File
<1> QED BY <1>1, AddInRange DEF Span

(* The recursive definition of the entries' places is one: the first entry *)
(* is at 0, every other behind the one before.                             *)
LEMMA OffsetsAre ==
  ASSUME NEW d \in Seq(File)
  PROVE  /\ Offsets(d) \in [1 .. Len(d) + 1 -> U32]
         /\ Offsets(d)[1] = 0
         /\ \A k \in 1 .. Len(d) : Offsets(d)[k + 1] = U32Add(Offsets(d)[k], Span(d[k]))
<1> DEFINE Body(g) == [k \in 1 .. Len(d) + 1 |->
                         IF k = 1 THEN 0 ELSE U32Add(g[k - 1], Span(d[k - 1]))]
           step == [p \in Nat \X U32 |-> IF p[1] \in 1 .. Len(d)
                                         THEN U32Add(p[2], Span(d[p[1]])) ELSE 0]
           at == Offsets(d)
<1>1. at = CHOOSE g : g = Body(g)
  BY Zenon DEF Offsets
<1> HIDE DEF at
<1>2. Len(d) \in Nat /\ 0 \in U32 /\ \A k \in 1 .. Len(d) : d[k] \in File
  BY WordAssumption DEF U32
<1>3. step \in [Nat \X U32 -> U32]
  BY <1>2, SpanInRange, AddInRange
<1>4. \E g \in [0 .. Len(d) -> U32] : Recursive(g, Len(d), 0, step)
  <2> HIDE DEF step
  <2> QED BY <1>2, <1>3, RecursiveFunction
<1>5. PICK g \in [0 .. Len(d) -> U32] : Recursive(g, Len(d), 0, step)
  BY <1>4
<1> DEFINE h == [k \in 1 .. Len(d) + 1 |-> g[k - 1]]
<1>6. h[1] = 0
  BY <1>2, <1>5 DEF Recursive
<1>7. ASSUME NEW k \in 1 .. Len(d) PROVE h[k + 1] = U32Add(h[k], Span(d[k]))
  <2>1. /\ k \in Nat /\ k - 1 \in 0 .. Len(d) /\ k \in 1 .. Len(d) + 1
        /\ k + 1 \in 1 .. Len(d) + 1 /\ (k + 1) - 1 = k
    BY <1>2
  <2>2. h[k] = g[k - 1] /\ h[k + 1] = g[k] /\ g[k - 1] \in U32
    BY <2>1
  <2>3. g[k] = step[<<k, g[k - 1]>>]
    BY <1>5 DEF Recursive
  <2>4. step[<<k, g[k - 1]>>] = U32Add(g[k - 1], Span(d[k]))
    BY <2>1, <2>2
  <2> QED BY <2>2, <2>3, <2>4
<1>8. h = Body(h)
  <2>1. ASSUME NEW k \in 1 .. Len(d) + 1 PROVE h[k] = Body(h)[k]
    <3>1. CASE k = 1
      BY <1>6, <3>1
    <3>2. CASE k # 1
      <4>1. k - 1 \in 1 .. Len(d) /\ (k - 1) + 1 = k
        BY <1>2, <3>2
      <4>2. h[k] = U32Add(h[k - 1], Span(d[k - 1]))
        BY <1>7, <4>1
      <4> HIDE DEF h
      <4> QED BY <3>2, <4>2
    <3> QED BY <3>1, <3>2
  <2> QED BY <2>1
<1>9. at = Body(at)
  <2> HIDE DEF Body, h
  <2> QED BY <1>1, <1>8
<1>10. ASSUME NEW f, f = Body(f)
       PROVE  /\ DOMAIN f = 1 .. Len(d) + 1 /\ f[1] = 0
              /\ \A k \in 1 .. Len(d) : f[k + 1] = U32Add(f[k], Span(d[k]))
  <2>1. \A k \in 1 .. Len(d) : k + 1 \in 1 .. Len(d) + 1 /\ k + 1 # 1 /\ (k + 1) - 1 = k
    BY <1>2
  <2>2. 1 \in 1 .. Len(d) + 1
    BY <1>2
  <2> QED BY <1>10, <2>1, <2>2
<1>11. /\ DOMAIN at = 1 .. Len(d) + 1 /\ at[1] = 0
       /\ \A k \in 1 .. Len(d) : at[k + 1] = U32Add(at[k], Span(d[k]))
  <2> HIDE DEF Body
  <2> QED BY <1>9, <1>10
<1> DEFINE T == {k \in Nat : k <= Len(d) => at[k + 1] \in U32}
<1>12. 0 \in T
  BY <1>2, <1>11
<1>13. ASSUME NEW k \in Nat, k \in T PROVE k + 1 \in T
  <2> SUFFICES ASSUME k + 1 <= Len(d) PROVE at[(k + 1) + 1] \in U32
    OBVIOUS
  <2>1. k + 1 \in 1 .. Len(d) /\ at[k + 1] \in U32
    BY <1>2, <1>13
  <2> QED BY <1>2, <1>11, <2>1, SpanInRange, AddInRange
<1>14. Nat \subseteq T
  <2> HIDE DEF T
  <2> QED BY <1>12, <1>13, SetInduction
<1>15. ASSUME NEW k \in 1 .. Len(d) + 1 PROVE at[k] \in U32
  <2>1. k - 1 \in Nat /\ k - 1 <= Len(d) /\ (k - 1) + 1 = k
    BY <1>2
  <2> QED BY <1>14, <2>1
<1>16. at = [k \in 1 .. Len(d) + 1 |-> at[k]]
  BY <1>9
<1>17. at \in [1 .. Len(d) + 1 -> U32]
  BY <1>15, <1>16
<1> QED BY <1>11, <1>17 DEF at

(* A disk, its entries and their places.                                   *)
LEMMA DiskFacts ==
  ASSUME NEW d \in Disks
  PROVE  /\ d \in Seq(File) /\ Len(d) \in Nat /\ Len(d) <= MaxListing
         /\ \A k \in 1 .. Len(d) : d[k] \in File /\ d[k].length \in U32
         /\ Offsets(d) \in [1 .. Len(d) + 1 -> U32]
         /\ Offsets(d)[1] = 0
         /\ \A k \in 1 .. Len(d) : Offsets(d)[k + 1] = NextOffset(Offsets(d)[k], d[k])
         /\ \A j, k \in 1 .. Len(d) : Offsets(d)[j] = Offsets(d)[k] => j = k
<1>1. d \in Seq(File) /\ Len(d) <= MaxListing
  BY FlashAssumption
<1>2. Len(d) \in Nat /\ \A k \in 1 .. Len(d) : d[k] \in File /\ d[k].length \in U32
  BY <1>1, SpanInRange
<1>3. /\ Offsets(d) \in [1 .. Len(d) + 1 -> U32]
      /\ Offsets(d)[1] = 0
      /\ \A k \in 1 .. Len(d) : Offsets(d)[k + 1] = U32Add(Offsets(d)[k], Span(d[k]))
  BY <1>1, OffsetsAre
<1>4. \A j, k \in 1 .. Len(d) : Offsets(d)[j] = Offsets(d)[k] => j = k
  BY DiskAssumption
<1> QED BY <1>1, <1>2, <1>3, <1>4 DEF NextOffset, Span

(* On a disk that fits, every entry begins where the one before it ends,   *)
(* and so behind the end of every earlier one.                             *)
LEMMA FitsFacts ==
  ASSUME NEW d \in Disks, Fits(d)
  PROVE  /\ \A k \in 1 .. Len(d) : Offsets(d)[k + 1] = End(d, k)
         /\ \A j \in 1 .. Len(d) : \A k \in j + 1 .. Len(d) + 1 : End(d, j) <= Offsets(d)[k]
         /\ \A j, k \in 1 .. Len(d) + 1 : Offsets(d)[j] = Offsets(d)[k] => j = k
<1> DEFINE at == Offsets(d)
<1>1. /\ Len(d) \in Nat /\ \A k \in 1 .. Len(d) : d[k].length \in U32
      /\ at \in [1 .. Len(d) + 1 -> U32]
      /\ \A k \in 1 .. Len(d) : at[k + 1] = NextOffset(at[k], d[k])
  BY DiskFacts
<1>2. EntSize \in U32 /\ EntSize > 0 /\ Word \in Nat
  BY FlashAssumption, WordAssumption DEF U32
<1> HIDE DEF at
<1>3. ASSUME NEW k \in 1 .. Len(d)
      PROVE  at[k + 1] = at[k] + EntSize + d[k].length /\ at[k] \in U32 /\ at[k + 1] \in U32
  <2>1. at[k] \in U32 /\ at[k + 1] \in U32
    BY <1>1
  <2>2. d[k].length \in U32 /\ at[k + 1] = NextOffset(at[k], d[k])
    BY <1>1
  <2>3. at[k] + EntSize + d[k].length < Word
    BY DEF Fits, End, at
  <2>4. at[k] \in Nat /\ EntSize \in Nat /\ d[k].length \in Nat
    BY <1>2, <2>1, <2>2 DEF U32
  <2>5. EntSize + d[k].length < Word
    BY <1>2, <2>3, <2>4
  <2>6. U32Add(EntSize, d[k].length) = EntSize + d[k].length
    BY <2>5 DEF U32Add
  <2>7. at[k] + (EntSize + d[k].length) < Word
    BY <1>2, <2>3, <2>4
  <2>8. at[k + 1] = at[k] + (EntSize + d[k].length)
    BY <2>2, <2>6, <2>7 DEF NextOffset, U32Add
  <2> QED BY <2>1, <2>4, <2>8
<1>4. \A k \in 1 .. Len(d) : at[k + 1] = End(d, k)
  BY <1>3 DEF End, at
<1>5. ASSUME NEW j \in 1 .. Len(d)
      PROVE  \A k \in j + 1 .. Len(d) + 1 : at[j + 1] <= at[k]
  <2> DEFINE T == {m \in Nat : (j + 1) + m <= Len(d) + 1 => at[j + 1] <= at[(j + 1) + m]}
  <2>1. 0 \in T
    <3>1. (j + 1) + 0 = j + 1
      OBVIOUS
    <3>2. at[j + 1] \in Int
      BY <1>2, <1>3 DEF U32
    <3> QED BY <3>1, <3>2
  <2>2. ASSUME NEW m \in Nat, m \in T PROVE m + 1 \in T
    <3> SUFFICES ASSUME (j + 1) + (m + 1) <= Len(d) + 1
                 PROVE  at[j + 1] <= at[(j + 1) + (m + 1)]
      OBVIOUS
    <3> DEFINE k == (j + 1) + m
    <3>1. k \in 1 .. Len(d) /\ k + 1 = (j + 1) + (m + 1) /\ k <= Len(d) + 1
      BY <1>1
    <3>2. at[j + 1] <= at[k]
      BY <2>2, <3>1
    <3> HIDE DEF k
    <3>3. at[k + 1] = at[k] + EntSize + d[k].length /\ at[k] \in U32 /\ d[k].length \in U32
      BY <1>1, <1>3, <3>1
    <3>4. at[j + 1] \in U32
      BY <1>3
    <3>5. at[j + 1] <= at[k + 1]
      BY <1>2, <3>2, <3>3, <3>4 DEF U32
    <3> QED BY <3>1, <3>5
  <2>3. Nat \subseteq T
    <3> HIDE DEF T
    <3> QED BY <2>1, <2>2, SetInduction
  <2> TAKE k \in j + 1 .. Len(d) + 1
  <2>4. k - (j + 1) \in Nat /\ (j + 1) + (k - (j + 1)) = k /\ k <= Len(d) + 1
    BY <1>1
  <2> QED BY <2>3, <2>4
<1>6. \A j \in 1 .. Len(d) : \A k \in j + 1 .. Len(d) + 1 : End(d, j) <= at[k]
  BY <1>4, <1>5
<1>7. ASSUME NEW j \in 1 .. Len(d) + 1, NEW k \in 1 .. Len(d) + 1, j < k
      PROVE  at[j] # at[k]
  <2>1. j \in 1 .. Len(d) /\ k \in j + 1 .. Len(d) + 1
    BY <1>1, <1>7
  <2>2. at[j + 1] <= at[k] /\ at[k] \in U32
    BY <1>1, <1>5, <2>1
  <2>3. at[j + 1] = at[j] + EntSize + d[j].length /\ at[j] \in U32 /\ d[j].length \in U32
    BY <1>1, <1>3, <2>1
  <2> QED BY <1>2, <2>2, <2>3 DEF U32
<1>8. ASSUME NEW j \in 1 .. Len(d) + 1, NEW k \in 1 .. Len(d) + 1, at[j] = at[k] PROVE j = k
  <2>1. j < k \/ k < j \/ j = k
    BY <1>1
  <2> QED BY <1>7, <1>8, <2>1
<1> QED BY <1>4, <1>6, <1>8 DEF at

-----------------------------------------------------------------------------
(* The fields of the state.                                                *)
FlashTypeOK ==
  /\ disk \in Disks
  /\ pc \in {"check", "list", "prompt", "find", "open", "file", "abort"}
  /\ listing \in Seq(1 .. Len(disk))
  /\ typed \in Names \cup {<< >>}
  /\ fp \in [file_len: U32, file_pos: U32]

LEMMA EntryFacts ==
  ASSUME NEW k, k \in EntryAt(offset)
  PROVE  k \in 1 .. Len(disk) /\ Offsets(disk)[k] = offset
BY DEF EntryAt

LEMMA FlashTypeInit == Init => FlashTypeOK
<1>1. 0 \in U32
  BY WordAssumption DEF U32
<1> QED BY <1>1 DEF Init, FlashTypeOK

LEMMA FlashTypeStep == FlashTypeOK /\ [Next]_vars => FlashTypeOK'
<1> SUFFICES ASSUME FlashTypeOK, [Next]_vars PROVE FlashTypeOK'
  OBVIOUS
<1> USE DEF FlashTypeOK
<1>1. CASE ListEntry
  <2>1. PICK k \in EntryAt(offset) :
           listing' = IF Len(listing) < MaxListing THEN Append(listing, k) ELSE listing
    BY <1>1 DEF ListEntry
  <2>2. k \in 1 .. Len(disk)
    BY EntryFacts
  <2>3. disk' = disk /\ pc' = pc /\ typed' = typed /\ fp' = fp
    BY <1>1 DEF ListEntry
  <2>4. Append(listing, k) \in Seq(1 .. Len(disk))
    BY <2>2
  <2> QED BY <2>1, <2>3, <2>4
<1>2. CASE OpenHit
  <2>1. PICK k \in EntryAt(offset) : fp' = [file_len |-> disk[k].length, file_pos |-> 0]
    BY <1>2 DEF OpenHit
  <2>2. disk[k].length \in U32 /\ 0 \in U32
    BY EntryFacts, DiskFacts, WordAssumption DEF U32
  <2>3. fp' \in [file_len: U32, file_pos: U32]
    BY <2>1, <2>2
  <2> QED BY <1>2, <2>3 DEF OpenHit
<1>3. CASE Read
  <2>1. PICK a \in Amounts : fp' = Advance(fp, a)
    BY <1>3 DEF Read
  <2>2. a \in U32 /\ fp.file_pos \in U32
    BY FlashAssumption
  <2>3. U32Add(fp.file_pos, a) \in U32
    BY <2>2, AddInRange
  <2>4. fp' \in [file_len: U32, file_pos: U32]
    BY <2>1, <2>3 DEF Advance
  <2> QED BY <1>3, <2>4 DEF Read
<1>4. CASE Seek
  <2>1. PICK a \in Amounts : fp' \in {SeekSet(fp, a), SeekCur(fp, a), SeekEnd(fp)}
    BY <1>4 DEF Seek
  <2>2. a \in U32 /\ fp.file_pos \in U32 /\ fp.file_len \in U32
    BY FlashAssumption
  <2>3. U32Add(fp.file_pos, a) \in U32
    BY <2>2, AddInRange
  <2>4. \A p \in U32 : [fp EXCEPT !.file_pos = p] \in [file_len: U32, file_pos: U32]
    OBVIOUS
  <2>5. fp' \in [file_len: U32, file_pos: U32]
    BY <2>1, <2>2, <2>3, <2>4 DEF SeekSet, SeekCur, SeekEnd
  <2> QED BY <1>4, <2>5 DEF Seek
<1>5. CASE GiveUp
  <2>1. 0 \in U32
    BY WordAssumption DEF U32
  <2> QED BY <1>5, <2>1 DEF GiveUp
<1>6. CASE CheckFlash \/ ListEnd \/ AskFile \/ FindSkip \/ FindHit \/ FindEnd
  BY <1>6 DEF CheckFlash, ListEnd, AskFile, FindSkip, FindHit, FindEnd
<1>7. CASE UNCHANGED vars
  BY <1>7 DEF vars
<1> QED BY <1>1, <1>2, <1>3, <1>4, <1>5, <1>6, <1>7 DEF Next

-----------------------------------------------------------------------------
(* flash_directory: on a disk that fits, the entries printed so far are    *)
(* the first ones in order, and the walk stands on the next.               *)
InOrder == \A j \in 1 .. Len(listing) : listing[j] = j

ListInv ==
  Fits(disk) =>
    /\ pc = "check" => offset = 0 /\ listing = << >>
    /\ pc = "list" => /\ Len(listing) <= Len(disk) /\ InOrder
                      /\ offset = Offsets(disk)[Len(listing) + 1]
    /\ pc \in {"prompt", "find", "open", "file"} => Len(listing) = Len(disk) /\ InOrder

LEMMA ListStep ==
  ASSUME FlashTypeOK, ListInv, [Next]_vars
  PROVE  ListInv'
<1> USE DEF ListInv
<1>1. disk \in Disks /\ listing \in Seq(1 .. Len(disk)) /\ Len(listing) \in Nat
  BY DEF FlashTypeOK
<1>2. disk' = disk
  BY DEF Next, vars, CheckFlash, ListEntry, ListEnd, AskFile, FindSkip, FindHit,
         OpenHit, FindEnd, Read, Seek, GiveUp
<1> SUFFICES ASSUME Fits(disk) PROVE ListInv'
  BY <1>2
<1>3. /\ Len(disk) \in Nat /\ Len(disk) <= MaxListing /\ Offsets(disk)[1] = 0
      /\ \A k \in 1 .. Len(disk) :
           Offsets(disk)[k + 1] = NextOffset(Offsets(disk)[k], disk[k])
  BY <1>1, DiskFacts
<1>4. \A j, k \in 1 .. Len(disk) + 1 : Offsets(disk)[j] = Offsets(disk)[k] => j = k
  BY <1>1, FitsFacts
<1>5. CASE CheckFlash
  <2>1. offset' = offset /\ listing' = listing /\ pc = "check" /\ pc' \in {"abort", "list"}
    BY <1>5 DEF CheckFlash
  <2>2. offset = 0 /\ listing = << >>
    BY <2>1
  <2>3. Len(listing) = 0 /\ offset' = Offsets(disk)[Len(listing) + 1] /\ InOrder'
    BY <1>3, <2>1, <2>2 DEF InOrder
  <2> QED BY <1>2, <1>3, <2>1, <2>3
<1>6. CASE ListEntry
  <2> DEFINE m == Len(listing)
  <2>1. PICK k \in EntryAt(offset) :
          /\ listing' = IF m < MaxListing THEN Append(listing, k) ELSE listing
          /\ offset' = NextOffset(offset, disk[k])
    BY <1>6 DEF ListEntry
  <2>2. pc = "list" /\ pc' = "list"
    BY <1>6 DEF ListEntry
  <2>3. m <= Len(disk) /\ InOrder /\ offset = Offsets(disk)[m + 1]
    BY <2>2
  <2>4. k \in 1 .. Len(disk) /\ Offsets(disk)[k] = offset
    BY EntryFacts
  <2>5. m + 1 \in 1 .. Len(disk) + 1 /\ k \in 1 .. Len(disk) + 1
    BY <1>1, <1>3, <2>3, <2>4
  <2>6. k = m + 1
    BY <1>4, <2>3, <2>4, <2>5
  <2>7. listing' = Append(listing, k) /\ Len(listing') = m + 1
    <3>1. m < MaxListing
      BY <1>1, <1>3, <2>4, <2>6, FlashAssumption
    <3>2. listing' = Append(listing, k)
      BY <2>1, <3>1
    <3> QED BY <1>1, <2>4, <3>2
  <2>8. InOrder'
    BY <1>1, <2>3, <2>6, <2>7 DEF InOrder
  <2>9. offset' = Offsets(disk)[(m + 1) + 1]
    BY <1>3, <2>1, <2>4, <2>6
  <2> QED BY <1>2, <1>3, <2>2, <2>4, <2>6, <2>7, <2>8, <2>9
<1>7. CASE ListEnd
  <2>1. /\ pc = "list" /\ pc' = "prompt" /\ EntryAt(offset) = {}
        /\ listing' = listing
    BY <1>7 DEF ListEnd
  <2>2. Len(listing) <= Len(disk) /\ InOrder /\ offset = Offsets(disk)[Len(listing) + 1]
    BY <2>1
  <2>3. Len(listing) + 1 \notin 1 .. Len(disk)
    BY <2>1, <2>2 DEF EntryAt
  <2>4. Len(listing) = Len(disk)
    BY <1>1, <1>3, <2>2, <2>3
  <2>5. InOrder'
    BY <2>1, <2>2 DEF InOrder
  <2> QED BY <1>2, <2>1, <2>4, <2>5
<1>8. CASE \/ AskFile \/ FindSkip \/ FindHit \/ OpenHit \/ FindEnd
           \/ Read \/ Seek \/ GiveUp
  <2>1. /\ listing' = listing /\ pc \in {"prompt", "find", "open", "file"}
        /\ pc' \in {"prompt", "find", "open", "file"}
    BY <1>8 DEF AskFile, FindSkip, FindHit, OpenHit, FindEnd, Read, Seek, GiveUp
  <2>2. Len(listing) = Len(disk) /\ InOrder
    BY <2>1
  <2>3. InOrder'
    BY <2>1, <2>2 DEF InOrder
  <2> QED BY <1>2, <2>1, <2>2, <2>3
<1>9. CASE UNCHANGED vars
  <2>1. offset' = offset /\ listing' = listing /\ pc' = pc /\ (InOrder' <=> InOrder)
    BY <1>9 DEF vars, InOrder
  <2> QED BY <1>2, <2>1
<1> QED BY <1>5, <1>6, <1>7, <1>8, <1>9 DEF Next

LEMMA FlashTypes == Spec => []FlashTypeOK
BY FlashTypeInit, FlashTypeStep, PTL DEF Spec

(* flash_directory prints every file of a disk that fits, once and in      *)
(* order, before the first prompt.                                         *)
THEOREM DirectoryListed == Spec => []ListingComplete
<1>1. Init => ListInv
  BY DEF Init, ListInv
<1>2. FlashTypeOK /\ ListInv /\ [Next]_vars => ListInv'
  BY ListStep
<1>3. FlashTypeOK /\ ListInv => ListingComplete
  <2> SUFFICES ASSUME FlashTypeOK, ListInv, Fits(disk),
                      pc \in {"prompt", "find", "open", "file"}
               PROVE  listing = [k \in 1 .. Len(disk) |-> k]
    BY DEF ListingComplete
  <2>1. listing \in Seq(1 .. Len(disk)) /\ Len(listing) = Len(disk) /\ InOrder
    BY DEF FlashTypeOK, ListInv
  <2> QED BY <2>1 DEF InOrder
<1> QED BY <1>1, <1>2, <1>3, FlashTypes, PTL DEF Spec

-----------------------------------------------------------------------------
(* Names: strncmp over the field is equality of the name with what is left *)
(* of the typed one in kernel[].                                           *)
LEMMA PrefixFacts ==
  ASSUME NEW S, NEW s \in Seq(S), NEW m \in Nat
  PROVE  Len(Prefix(s, m)) <= m /\ Prefix(s, m) \in Seq(S) /\ (Len(s) <= m => Prefix(s, m) = s)
<1>1. CASE Len(s) <= m
  <2>1. Prefix(s, m) = SubSeq(s, 1, Len(s))
    BY <1>1 DEF Prefix
  <2> QED BY <1>1, <2>1
<1>2. CASE ~(Len(s) <= m)
  <2>1. Prefix(s, m) = SubSeq(s, 1, m)
    BY <1>2 DEF Prefix
  <2> QED BY <1>2, <2>1
<1> QED BY <1>1, <1>2

LEMMA NamesCompared ==
  ASSUME FlashTypeOK, NEW k \in 1 .. Len(disk)
  PROVE  /\ SameName(disk[k].name, Want) <=> disk[k].name = Want
         /\ Len(disk[k].name) <= TypedLen /\ disk[k].name = typed => Want = typed
<1> DEFINE S == {typed[j] : j \in 1 .. Len(typed)}
           name == disk[k].name
           R == {name[j] : j \in 1 .. Len(name)}
<1>1. /\ disk[k] \in File /\ disk \in Disks /\ typed \in Names \cup {<< >>}
  BY DiskFacts DEF FlashTypeOK
<1>2. name \in Names /\ name \in Seq(R) /\ Len(name) <= NameLen
  BY <1>1, FlashAssumption DEF File
<1>3. typed \in Seq(S)
  <2>1. CASE typed \in Names
    BY <2>1, FlashAssumption
  <2>2. CASE typed = << >>
    <3>1. typed \in Seq({}) /\ S = {}
      BY <2>2
    <3> QED BY <3>1
  <2> QED BY <1>1, <2>1, <2>2
<1>4. TypedLen \in Nat /\ NameLen \in Nat /\ TypedLen <= NameLen
  BY FlashAssumption
<1> HIDE DEF S, R, name
<1>5. /\ Len(Want) <= TypedLen /\ Want \in Seq(S)
      /\ Len(typed) <= TypedLen => Want = typed
  BY <1>3, <1>4, PrefixFacts DEF Want
<1>6. Prefix(Want, NameLen) = Want
  <2>1. Len(Want) <= NameLen
    BY <1>4, <1>5
  <2> QED BY <1>4, <1>5, <2>1, PrefixFacts
<1>7. Prefix(name, NameLen) = name
  BY <1>2, <1>4, PrefixFacts
<1> QED BY <1>5, <1>6, <1>7 DEF SameName, name

-----------------------------------------------------------------------------
(* find_file: the walk stands on a place with no match before it; in the   *)
(* second search there is a match somewhere; the file opened is the first. *)
(* This needs no disk that fits: where the last entry leads back around    *)
(* the address space, the walk has seen every entry by then.               *)
NoneBefore(k) == \A j \in 1 .. k - 1 : ~SameName(disk[j].name, Want)

OnPath == \E k \in 1 .. Len(disk) + 1 : offset = Offsets(disk)[k] /\ NoneBefore(k)

FoundFirst ==
  /\ found \in 1 .. Len(disk) /\ SameName(disk[found].name, Want) /\ NoneBefore(found)
  /\ fp.file_len = disk[found].length

FindInv ==
  /\ pc \in {"find", "open"} => OnPath
  /\ pc = "open" => \E m \in 1 .. Len(disk) : SameName(disk[m].name, Want)
  /\ pc = "file" => FoundFirst

(* An entry met on the path has no match before it.                        *)
LEMMA MetInOrder ==
  ASSUME FlashTypeOK, OnPath, NEW k \in EntryAt(offset)
  PROVE  NoneBefore(k)
<1>1. PICK p \in 1 .. Len(disk) + 1 : offset = Offsets(disk)[p] /\ NoneBefore(p)
  BY DEF OnPath
<1>2. k \in 1 .. Len(disk) /\ Offsets(disk)[k] = offset
  BY EntryFacts
<1>3. Len(disk) \in Nat /\ \A j, m \in 1 .. Len(disk) :
                             Offsets(disk)[j] = Offsets(disk)[m] => j = m
  BY DiskFacts DEF FlashTypeOK
<1>4. k <= p
  BY <1>1, <1>2, <1>3
<1>5. \A j \in 1 .. k - 1 : j \in 1 .. p - 1
  BY <1>2, <1>3, <1>4
<1> QED BY <1>1, <1>5 DEF NoneBefore

(* The path ends only behind the last entry: nothing matches.              *)
LEMMA PathEnds ==
  ASSUME FlashTypeOK, OnPath, EntryAt(offset) = {}
  PROVE  \A j \in 1 .. Len(disk) : ~SameName(disk[j].name, Want)
<1>1. PICK p \in 1 .. Len(disk) + 1 : offset = Offsets(disk)[p] /\ NoneBefore(p)
  BY DEF OnPath
<1>2. p \notin 1 .. Len(disk)
  BY <1>1 DEF EntryAt
<1>3. Len(disk) \in Nat
  BY DiskFacts DEF FlashTypeOK
<1>4. p - 1 = Len(disk)
  BY <1>2, <1>3
<1> QED BY <1>1, <1>4 DEF NoneBefore

LEMMA PathStart == ASSUME FlashTypeOK' , offset' = 0 PROVE OnPath'
<1>1. disk' \in Disks
  BY DEF FlashTypeOK
<1>2. Len(disk') \in Nat /\ Offsets(disk')[1] = 0
  BY <1>1, DiskFacts
<1>3. 1 \in 1 .. Len(disk') + 1 /\ \A j : j \notin 1 .. 1 - 1
  BY <1>2
<1> QED BY <1>2, <1>3 DEF OnPath, NoneBefore

LEMMA FindStep ==
  ASSUME FlashTypeOK, FlashTypeOK', FindInv, [Next]_vars
  PROVE  FindInv'
<1> USE DEF FindInv
<1>1. disk \in Disks
  BY DEF FlashTypeOK
<1>2. Len(disk) \in Nat /\ \A k \in 1 .. Len(disk) :
                 Offsets(disk)[k + 1] = NextOffset(Offsets(disk)[k], disk[k])
  BY <1>1, DiskFacts
<1>3. CASE CheckFlash \/ ListEntry \/ ListEnd \/ FindEnd \/ GiveUp
  <2>1. pc' \notin {"find", "open", "file"}
    BY <1>3 DEF CheckFlash, ListEntry, ListEnd, FindEnd, GiveUp
  <2> QED BY <2>1
<1>4. CASE AskFile
  <2>1. pc' = "find" /\ offset' = 0
    BY <1>4 DEF AskFile
  <2> QED BY <2>1, PathStart
<1>5. CASE FindSkip
  <2>1. PICK k \in EntryAt(offset) :
           ~SameName(disk[k].name, Want) /\ offset' = NextOffset(offset, disk[k])
    BY <1>5 DEF FindSkip
  <2>2. /\ pc \in {"find", "open"} /\ pc' = pc /\ disk' = disk /\ typed' = typed
    BY <1>5 DEF FindSkip
  <2>3. k \in 1 .. Len(disk) /\ Offsets(disk)[k] = offset /\ NoneBefore(k)
    BY <2>2, EntryFacts, MetInOrder
  <2>4. offset' = Offsets(disk)[k + 1] /\ k + 1 \in 1 .. Len(disk) + 1
    BY <1>2, <2>1, <2>3
  <2>5. \A j \in 1 .. (k + 1) - 1 : j = k \/ j \in 1 .. k - 1
    BY <2>3
  <2>6. Want' = Want
    BY <2>2 DEF Want
  <2>7. NoneBefore(k + 1)'
    BY <2>1, <2>2, <2>3, <2>5, <2>6 DEF NoneBefore
  <2>8. OnPath'
    BY <2>2, <2>4, <2>7 DEF OnPath
  <2> QED BY <2>2, <2>6, <2>8
<1>6. CASE FindHit
  <2>1. PICK k \in EntryAt(offset) : SameName(disk[k].name, Want)
    BY <1>6 DEF FindHit
  <2>2. k \in 1 .. Len(disk)
    BY EntryFacts
  <2>3. pc' = "open" /\ offset' = 0 /\ disk' = disk /\ typed' = typed
    BY <1>6 DEF FindHit
  <2>4. Want' = Want
    BY <2>3 DEF Want
  <2>5. OnPath'
    BY <2>3, PathStart
  <2> QED BY <2>1, <2>2, <2>3, <2>4, <2>5
<1>7. CASE OpenHit
  <2>1. PICK k \in EntryAt(offset) :
          /\ SameName(disk[k].name, Want) /\ found' = k
          /\ fp' = [file_len |-> disk[k].length, file_pos |-> 0]
    BY <1>7 DEF OpenHit
  <2>2. pc = "open" /\ pc' = "file" /\ disk' = disk /\ typed' = typed
    BY <1>7 DEF OpenHit
  <2>3. k \in 1 .. Len(disk) /\ NoneBefore(k)
    BY <2>2, EntryFacts, MetInOrder
  <2>4. Want' = Want
    BY <2>2 DEF Want
  <2>5. FoundFirst'
    BY <2>1, <2>2, <2>3, <2>4 DEF FoundFirst, NoneBefore
  <2> QED BY <2>2, <2>5
<1>8. CASE Read \/ Seek
  <2>1. /\ pc = "file" /\ pc' = pc /\ disk' = disk /\ typed' = typed /\ found' = found
    BY <1>8 DEF Read, Seek
  <2>2. fp \in [file_len: U32, file_pos: U32]
    BY DEF FlashTypeOK
  <2>3. fp'.file_len = fp.file_len
    BY <1>8, <2>2 DEF Read, Seek, Advance, SeekSet, SeekCur, SeekEnd
  <2>4. Want' = Want
    BY <2>1 DEF Want
  <2>5. FoundFirst'
    BY <2>1, <2>3, <2>4 DEF FoundFirst, NoneBefore
  <2> QED BY <2>1, <2>5
<1>9. CASE UNCHANGED vars
  <2>1. UNCHANGED <<disk, pc, offset, typed, found, fp>>
    BY <1>9 DEF vars
  <2>2. Want' = Want
    BY <2>1 DEF Want
  <2>3. (OnPath' <=> OnPath) /\ (FoundFirst' <=> FoundFirst)
    BY <2>1, <2>2 DEF OnPath, FoundFirst, NoneBefore
  <2> QED BY <2>1, <2>2, <2>3
<1> QED BY <1>3, <1>4, <1>5, <1>6, <1>7, <1>8, <1>9 DEF Next

LEMMA Searches == Spec => []FindInv
<1>1. Init => FindInv
  BY DEF Init, FindInv
<1>2. FlashTypeOK /\ FlashTypeOK' /\ FindInv /\ [Next]_vars => FindInv'
  BY FindStep
<1> QED BY <1>1, <1>2, FlashTypes, PTL DEF Spec

(* cilo_open opens the first file on the flash with the name asked for, and*)
(* platio_file_open's own search never misses what platio_find_file found. *)
THEOREM FirstMatchOpened == Spec => []OpensFirstMatch
<1>1. ASSUME FlashTypeOK, FindInv PROVE OpensFirstMatch
  <2>1. ~OpenMiss
    BY <1>1, PathEnds DEF OpenMiss, FindInv
  <2>2. ASSUME pc = "file"
        PROVE  /\ disk[found].name = Want /\ fp.file_len = disk[found].length
               /\ \A k \in 1 .. found - 1 : disk[k].name # Want
    <3>1. FoundFirst
      BY <1>1, <2>2 DEF FindInv
    <3>2. disk[found].name = Want
      BY <1>1, <3>1, NamesCompared DEF FoundFirst
    <3>3. ASSUME NEW k \in 1 .. found - 1 PROVE disk[k].name # Want
      <4>1. k \in 1 .. Len(disk)
        BY <1>1, <3>1, DiskFacts DEF FoundFirst, FlashTypeOK
      <4> QED BY <1>1, <3>1, <4>1, NamesCompared DEF FoundFirst, NoneBefore
    <3> QED BY <3>1, <3>2, <3>3 DEF FoundFirst
  <2> QED BY <2>1, <2>2 DEF OpensFirstMatch
<1> QED BY <1>1, FlashTypes, Searches, PTL

(* A name that flash_directory printed is never reported missing: on a     *)
(* machine whose field is no longer than kernel[] (c1700, c3600), or with  *)
(* no longer names on the flash (c7200).                                   *)
THEOREM ListedFound ==
  ASSUME \A d \in Disks : \A k \in 1 .. Len(d) : Len(d[k].name) <= TypedLen
  PROVE  Spec => ListedNamesOpen
<1>1. ASSUME FlashTypeOK, FindInv, [Next]_vars
      PROVE  [pc = "find" /\ pc' = "prompt"
                => \A j \in 1 .. Len(listing) : disk[listing[j]].name # typed]_vars
  <2> SUFFICES ASSUME Next, pc = "find", pc' = "prompt", NEW j \in 1 .. Len(listing),
                      disk[listing[j]].name = typed
               PROVE  FALSE
    BY <1>1
  <2>1. EntryAt(offset) = {}
    BY DEF Next, CheckFlash, ListEntry, ListEnd, AskFile, FindSkip, FindHit,
           OpenHit, FindEnd, Read, Seek, GiveUp
  <2>2. listing[j] \in 1 .. Len(disk) /\ disk \in Disks
    BY <1>1 DEF FlashTypeOK
  <2>3. ~SameName(disk[listing[j]].name, Want)
    BY <1>1, <2>1, <2>2, PathEnds DEF FindInv
  <2>4. Len(disk[listing[j]].name) <= TypedLen
    BY <2>2
  <2>5. Want = typed
    BY <1>1, <2>2, <2>4, NamesCompared
  <2>6. disk[listing[j]].name # Want
    BY <1>1, <2>2, <2>3, NamesCompared
  <2> QED BY <2>5, <2>6
<1> QED BY <1>1, FlashTypes, Searches, PTL DEF Spec, ListedNamesOpen

-----------------------------------------------------------------------------
(* platio_read: where the last read took its bytes from.                   *)
ReadInv ==
  \/ lastRead = NoRead
  \/ /\ pc = "file" /\ lastRead.pos \in U32 /\ lastRead.n \in U32
     /\ lastRead.from = DataAddress(found, lastRead.pos)

LEMMA ReadStep == FlashTypeOK /\ ReadInv /\ [Next]_vars => ReadInv'
<1> SUFFICES ASSUME FlashTypeOK, ReadInv, [Next]_vars PROVE ReadInv'
  OBVIOUS
<1> USE DEF ReadInv
<1>1. CASE Read
  <2>1. PICK a \in Amounts :
          lastRead' = [from |-> DataAddress(found, fp.file_pos), pos |-> fp.file_pos, n |-> a]
    BY <1>1 DEF Read
  <2>2. fp.file_pos \in U32 /\ a \in U32
    BY FlashAssumption DEF FlashTypeOK
  <2>3. pc' = "file" /\ found' = found /\ disk' = disk
    BY <1>1 DEF Read
  <2> QED BY <2>1, <2>2, <2>3 DEF DataAddress
<1>2. CASE OpenHit \/ Seek \/ GiveUp
  <2>1. lastRead' = NoRead
    BY <1>2 DEF OpenHit, Seek, GiveUp
  <2> QED BY <2>1 DEF NoRead
<1>3. CASE \/ CheckFlash \/ ListEntry \/ ListEnd \/ AskFile
           \/ FindSkip \/ FindHit \/ FindEnd
  <2>1. lastRead' = lastRead /\ pc # "file"
    BY <1>3 DEF CheckFlash, ListEntry, ListEnd, AskFile, FindSkip, FindHit, FindEnd
  <2> QED BY <2>1 DEF NoRead
<1>4. CASE UNCHANGED vars
  BY <1>4 DEF vars, DataAddress, NoRead
<1> QED BY <1>1, <1>2, <1>3, <1>4 DEF Next

(* platio_read returns bytes of the file that was opened, and no other,    *)
(* when the request begins and ends inside the file.                       *)
THEOREM OwnBytesRead == Spec => []ReadsOwnBytes
<1>1. Init => ReadInv
  BY DEF Init, ReadInv
<1>2. ASSUME FlashTypeOK, FindInv, ReadInv PROVE ReadsOwnBytes
  <2> DEFINE pos == lastRead.pos  a == lastRead.n  at == Offsets(disk)
             len == disk[found].length
  <2> SUFFICES ASSUME Fits(disk), pos + a <= fp.file_len, a > 0
               PROVE  /\ lastRead.from >= at[found] + EntSize
                      /\ lastRead.from + a <= End(disk, found)
                      /\ \A k \in 1 .. Len(disk) : k # found =>
                           \/ lastRead.from + a <= at[k]
                           \/ lastRead.from >= End(disk, k)
    BY DEF ReadsOwnBytes
  <2>1. lastRead # NoRead
    BY DEF NoRead
  <2>2. /\ pc = "file" /\ pos \in U32 /\ a \in U32
        /\ lastRead.from = U32Add(at[found], U32Add(EntSize, pos))
    BY <1>2, <2>1 DEF ReadInv, DataAddress
  <2>3. found \in 1 .. Len(disk) /\ fp.file_len = len
    BY <1>2, <2>2 DEF FindInv, FoundFirst
  <2>4. /\ disk \in Disks /\ Len(disk) \in Nat /\ len \in U32
        /\ at \in [1 .. Len(disk) + 1 -> U32]
    BY <1>2, <2>3, DiskFacts DEF FlashTypeOK
  <2>5. /\ \A j \in 1 .. Len(disk) : \A k \in j + 1 .. Len(disk) + 1 : End(disk, j) <= at[k]
        /\ End(disk, found) = at[found] + EntSize + len /\ End(disk, found) < Word
    BY <2>3, <2>4, FitsFacts DEF Fits, End
  <2>6. EntSize \in Nat /\ Word \in Nat /\ pos \in Nat /\ a \in Nat /\ len \in Nat
        /\ at[found] \in Nat /\ pos + a <= len
    BY <2>2, <2>3, <2>4, FlashAssumption, WordAssumption DEF U32
  <2> DEFINE from == lastRead.from  o == at[found]
  <2> HIDE DEF pos, a, at, len, from, o
  <2>7. from = o + (EntSize + pos)
    <3>1. EntSize + pos < Word /\ o + (EntSize + pos) < Word
      BY <2>5, <2>6 DEF o
    <3> QED BY <2>2, <3>1 DEF U32Add, from, o
  <2>8. from >= o + EntSize /\ from + a <= o + EntSize + len /\ from \in Nat /\ from >= o
    BY <2>6, <2>7 DEF o
  <2>9. ASSUME NEW k \in 1 .. Len(disk), k # found
        PROVE  from + a <= at[k] \/ from >= End(disk, k)
    <3>1. at[k] \in Nat
      <4>1. at[k] \in U32
        BY <2>4
      <4> QED BY <2>6, <4>1 DEF U32
    <3>2. CASE k < found
      <4>1. found \in k + 1 .. Len(disk) + 1
        BY <2>3, <2>4, <3>2
      <4>2. End(disk, k) <= o /\ End(disk, k) \in Int
        <5>1. disk[k].length \in Int
          BY <2>4, <2>6, DiskFacts DEF U32
        <5>2. End(disk, k) <= o
          BY <2>5, <4>1 DEF o
        <5>3. End(disk, k) = at[k] + EntSize + disk[k].length
          BY DEF End, at
        <5> QED BY <2>6, <3>1, <5>1, <5>2, <5>3
      <4> QED BY <2>6, <2>8, <4>2 DEF o
    <3>3. CASE k > found
      <4>1. k \in found + 1 .. Len(disk) + 1
        BY <2>3, <2>4, <3>3
      <4>2. End(disk, found) <= at[k]
        BY <2>3, <2>5, <4>1
      <4> QED BY <2>5, <2>6, <2>8, <3>1, <4>2 DEF o
    <3>4. k < found \/ k > found
      BY <2>3, <2>9
    <3> QED BY <3>2, <3>3, <3>4
  <2> QED BY <2>5, <2>8, <2>9 DEF from, o
<1> QED BY <1>1, <1>2, ReadStep, FlashTypes, Searches, PTL DEF Spec
=============================================================================
