-------------------------- MODULE HostToolsProofs --------------------------
(***************************************************************************)
(* elf2img and elf2mzip for every input file, command line, archive size   *)
(* and width of an address.                                                *)
(***************************************************************************)
EXTENDS HostTools, FiniteSetTheorems, Induction

(* The fields of an input file and of its program headers.                 *)
LEMMA InputFacts ==
  ASSUME NEW g \in Inputs
  PROVE  /\ Word \in Nat /\ Word > 1
         /\ g.len \in Nat /\ g.entry \in Nat /\ Len(g.phdrs) \in Nat /\ g.msb \in BOOLEAN
         /\ \A k \in 1 .. Len(g.phdrs) :
              /\ g.phdrs[k].offset \in Nat /\ g.phdrs[k].offset < Word
              /\ g.phdrs[k].paddr \in Nat /\ g.phdrs[k].paddr < Word
              /\ g.phdrs[k].filesz \in Nat /\ g.phdrs[k].filesz < Word
              /\ g.phdrs[k].memsz \in Nat /\ g.phdrs[k].memsz < Word
<1>1. Word \in Nat /\ Word > 1 /\ \A x \in U32 : x \in Nat /\ x < Word
  BY WordAssumption DEF U32
<1>2. /\ g.len \in U32 /\ g.entry \in U32 /\ g.phdrs \in Seq(Segment) /\ g.msb \in BOOLEAN
  BY MzipAssumption DEF Input
<1>3. ASSUME NEW p \in Segment
      PROVE  p.offset \in U32 /\ p.paddr \in U32 /\ p.filesz \in U32 /\ p.memsz \in U32
  BY DEF Segment
<1>4. Len(g.phdrs) \in Nat /\ \A k \in 1 .. Len(g.phdrs) : g.phdrs[k] \in Segment
  BY <1>2
<1> QED BY <1>1, <1>2, <1>3, <1>4

(* A segment that elf2img measures.                                        *)
LEMMA LoadableFacts ==
  ASSUME input \in Inputs, NEW k \in Loadable
  PROVE  /\ k \in 1 .. Len(input.phdrs) /\ input.phdrs[k].load
         /\ input.phdrs[k].offset \in Nat /\ input.phdrs[k].offset < Word
         /\ input.phdrs[k].paddr \in Nat /\ input.phdrs[k].paddr < Word
         /\ input.phdrs[k].filesz \in Nat /\ input.phdrs[k].filesz < Word
         /\ input.phdrs[k].memsz \in Nat /\ input.phdrs[k].memsz < Word
         /\ input.phdrs[k] \in Segments
BY InputFacts DEF Loadable, Segments

(* The greatest and the least of a bounded set of naturals.                *)
LEMMA Extremes ==
  ASSUME NEW M \in Nat, NEW T \in SUBSET (0 .. M), T # {}
  PROVE  /\ Max(T) \in T /\ \A y \in T : Max(T) >= y
         /\ Min(T) \in T /\ \A y \in T : Min(T) <= y
<1>1. \E x \in T : \A y \in T : x >= y
  BY GreatestNatural
<1>2. Max(T) \in T /\ \A y \in T : Max(T) >= y
  BY <1>1 DEF Max
<1>3. T \in SUBSET Nat
  OBVIOUS
<1>4. \E x \in T : \A y \in T : x <= y
  BY <1>3, LeastNatural
<1>5. Min(T) \in T /\ \A y \in T : Min(T) <= y
  BY <1>4 DEF Min
<1> QED BY <1>2, <1>5

(* The lowest and the highest address, as elf2img's loop finds them.       *)
LEMMA RangeFound ==
  ASSUME input \in Inputs
  PROVE  /\ MinAddr \in Nat /\ MinAddr < Word /\ MaxAddr \in Nat /\ MaxAddr < Word
         /\ \A k \in Loadable :
              /\ MinAddr <= input.phdrs[k].paddr
              /\ U32Add(input.phdrs[k].paddr, input.phdrs[k].memsz) <= MaxAddr
         /\ Loadable = {} => memsz = 1
         /\ Loadable # {} =>
              /\ \E k \in Loadable : MinAddr = input.phdrs[k].paddr
              /\ MaxAddr # 0 => \E k \in Loadable :
                   MaxAddr = U32Add(input.phdrs[k].paddr, input.phdrs[k].memsz)
<1> DEFINE lows  == {input.phdrs[k].paddr : k \in Loadable}
           highs == {U32Add(input.phdrs[k].paddr, input.phdrs[k].memsz) : k \in Loadable}
           A == {Word - 1} \cup lows
           B == {0} \cup highs
           M == Word - 1
<1>1. Word \in Nat /\ Word > 1 /\ M \in Nat
  BY InputFacts
<1>2. ASSUME NEW k \in Loadable
      PROVE  /\ input.phdrs[k].paddr \in 0 .. M
             /\ U32Add(input.phdrs[k].paddr, input.phdrs[k].memsz) \in 0 .. M
  BY <1>1, LoadableFacts DEF U32Add
<1>3. lows \in SUBSET (0 .. M) /\ highs \in SUBSET (0 .. M)
  BY <1>2
<1>4. A \in SUBSET (0 .. M) /\ A # {} /\ B \in SUBSET (0 .. M) /\ B # {}
  BY <1>1, <1>3
<1>5. MinAddr = Min(A) /\ MaxAddr = Max(B)
  BY DEF MinAddr, MaxAddr
<1> HIDE DEF A, B, M
<1>6. /\ MinAddr \in A /\ \A y \in A : MinAddr <= y
      /\ MaxAddr \in B /\ \A y \in B : MaxAddr >= y
  BY <1>1, <1>4, <1>5, Extremes
<1>7. MinAddr \in 0 .. M /\ MaxAddr \in 0 .. M
  BY <1>4, <1>6
<1>8. MinAddr \in Nat /\ MinAddr < Word /\ MaxAddr \in Nat /\ MaxAddr < Word
  BY <1>1, <1>7 DEF M
<1>9. ASSUME NEW k \in Loadable
      PROVE  /\ MinAddr <= input.phdrs[k].paddr
             /\ U32Add(input.phdrs[k].paddr, input.phdrs[k].memsz) <= MaxAddr
  <2>1. /\ input.phdrs[k].paddr \in A
        /\ U32Add(input.phdrs[k].paddr, input.phdrs[k].memsz) \in B
    BY DEF A, B
  <2>2. MaxAddr >= U32Add(input.phdrs[k].paddr, input.phdrs[k].memsz)
    BY <1>6, <2>1
  <2>3. U32Add(input.phdrs[k].paddr, input.phdrs[k].memsz) \in Nat
    BY <1>1, <1>2 DEF M
  <2> QED BY <1>6, <1>8, <2>1, <2>2, <2>3
<1>10. ASSUME Loadable = {} PROVE memsz = 1
  <2>1. MinAddr = Word - 1 /\ MaxAddr = 0
    BY <1>6, <1>10 DEF A, B
  <2> QED BY <1>1, <2>1 DEF memsz, U32Sub
<1>11. ASSUME Loadable # {} PROVE \E k \in Loadable : MinAddr = input.phdrs[k].paddr
  <2>1. CASE MinAddr \in lows
    BY <2>1
  <2>2. CASE MinAddr = Word - 1
    <3>1. PICK k \in Loadable : TRUE
      BY <1>11
    <3>2. MinAddr <= input.phdrs[k].paddr /\ input.phdrs[k].paddr \in 0 .. M
      BY <1>2, <1>9
    <3>3. MinAddr = input.phdrs[k].paddr
      BY <1>1, <2>2, <3>2 DEF M
    <3> QED BY <3>3
  <2> QED BY <1>6, <2>1, <2>2 DEF A
<1>12. ASSUME MaxAddr # 0
       PROVE  \E k \in Loadable : MaxAddr = U32Add(input.phdrs[k].paddr, input.phdrs[k].memsz)
  BY <1>6, <1>12 DEF B
<1> QED BY <1>8, <1>9, <1>10, <1>11, <1>12

(* For a linked file they are the lowest and the highest address of the    *)
(* memory image, and every segment lies between them.                      *)
LEMMA RangeLinked ==
  ASSUME input \in Inputs, Linked, Loadable # {}
  PROVE  /\ MinAddr = Lowest /\ memsz = Highest - Lowest /\ memsz \in Nat /\ MinAddr \in Nat
         /\ \A k \in Loadable :
              /\ MinAddr <= input.phdrs[k].paddr
              /\ input.phdrs[k].paddr + input.phdrs[k].memsz <= MinAddr + memsz
<1>1. /\ MinAddr \in Nat /\ MinAddr < Word /\ MaxAddr \in Nat /\ MaxAddr < Word
      /\ Word \in Nat
  BY RangeFound, InputFacts
<1>2. ASSUME NEW k \in Loadable
      PROVE  /\ U32Add(input.phdrs[k].paddr, input.phdrs[k].memsz)
                  = input.phdrs[k].paddr + input.phdrs[k].memsz
             /\ MinAddr <= input.phdrs[k].paddr
             /\ input.phdrs[k].paddr + input.phdrs[k].memsz <= MaxAddr
  <2>1. input.phdrs[k].paddr + input.phdrs[k].memsz < Word
    BY LoadableFacts DEF Linked
  <2>2. U32Add(input.phdrs[k].paddr, input.phdrs[k].memsz)
                  = input.phdrs[k].paddr + input.phdrs[k].memsz
    BY <2>1 DEF U32Add
  <2> QED BY <2>2, RangeFound
<1>3. PICK k \in Loadable : MinAddr = input.phdrs[k].paddr
  BY RangeFound
<1>4. PICK h \in Loadable : MaxAddr = input.phdrs[h].paddr + input.phdrs[h].memsz
  <2>1. CASE MaxAddr # 0
    BY <1>2, <2>1, RangeFound
  <2>2. CASE MaxAddr = 0
    <3>1. /\ input.phdrs[k].paddr \in Nat /\ input.phdrs[k].memsz \in Nat
          /\ input.phdrs[k].paddr + input.phdrs[k].memsz <= 0
      BY <1>2, <2>2, LoadableFacts
    <3>2. input.phdrs[k].paddr + input.phdrs[k].memsz = 0
      BY <3>1
    <3> QED BY <2>2, <3>2
  <2> QED BY <2>1, <2>2
<1>5. ASSUME NEW p \in Segments
      PROVE  \E m \in Loadable : p = input.phdrs[m]
  BY DEF Segments
<1>6. MinAddr = Lowest
  <2>1. MinAddr \in U32 /\ \E p \in Segments : p.paddr = MinAddr
    BY <1>1, <1>3, LoadableFacts DEF U32
  <2>2. \A p \in Segments : MinAddr <= p.paddr
    BY <1>2, <1>5
  <2>3. ASSUME NEW a \in U32, \E p \in Segments : p.paddr = a,
               \A p \in Segments : a <= p.paddr
        PROVE  a = MinAddr
    <3>1. a <= MinAddr /\ MinAddr <= a /\ a \in Int
      BY <1>1, <2>1, <2>2, <2>3 DEF U32
    <3> QED BY <1>1, <3>1
  <2> QED BY <2>1, <2>2, <2>3 DEF Lowest
<1>7. MaxAddr = Highest
  <2>1. MaxAddr \in U32 /\ \E p \in Segments : p.paddr + p.memsz = MaxAddr
    BY <1>1, <1>4, LoadableFacts DEF U32
  <2>2. \A p \in Segments : p.paddr + p.memsz <= MaxAddr
    BY <1>2, <1>5
  <2>3. ASSUME NEW a \in U32, \E p \in Segments : p.paddr + p.memsz = a,
               \A p \in Segments : p.paddr + p.memsz <= a
        PROVE  a = MaxAddr
    <3>1. a <= MaxAddr /\ MaxAddr <= a /\ a \in Int
      BY <1>1, <2>1, <2>2, <2>3 DEF U32
    <3> QED BY <1>1, <3>1
  <2> QED BY <2>1, <2>2, <2>3 DEF Highest
<1>8. MinAddr <= MaxAddr
  <2>1. /\ input.phdrs[k].memsz \in Nat /\ input.phdrs[k].paddr \in Nat
        /\ input.phdrs[k].paddr + input.phdrs[k].memsz <= MaxAddr
    BY <1>2, LoadableFacts
  <2> QED BY <1>1, <1>3, <2>1
<1>9. memsz = MaxAddr - MinAddr
  BY <1>1, <1>8 DEF memsz, U32Sub
<1>10. memsz \in Nat /\ MinAddr + memsz = MaxAddr
  BY <1>1, <1>8, <1>9
<1> QED BY <1>1, <1>2, <1>6, <1>7, <1>9, <1>10

-----------------------------------------------------------------------------
(* A field of the header, and what the operators on it do.                 *)
HeaderField == [v: Nat, swapped: BOOLEAN]

LEMMA FieldFacts ==
  /\ \A x \in Nat : Host(x) \in HeaderField /\ Host(x).v = x /\ Host(x).swapped = FALSE
  /\ \A f \in HeaderField : /\ SWAP(f) \in HeaderField /\ SWAP(f).v = f.v
                            /\ SWAP(f).swapped = ~f.swapped
  /\ \A x \in Nat, b \in BOOLEAN :
       /\ Swapped(Host(x), b) \in HeaderField /\ Swapped(Host(x), b).v = x
       /\ Swapped(Host(x), b).swapped = b
<1>1. \A x \in Nat : Host(x) \in HeaderField /\ Host(x).v = x /\ Host(x).swapped = FALSE
  BY DEF Host, HeaderField
<1>2. \A f \in HeaderField : /\ SWAP(f) \in HeaderField /\ SWAP(f).v = f.v
                             /\ SWAP(f).swapped = ~f.swapped
  BY DEF SWAP, HeaderField
<1>3. ASSUME NEW x \in Nat, NEW b \in BOOLEAN
      PROVE  /\ Swapped(Host(x), b) \in HeaderField /\ Swapped(Host(x), b).v = x
             /\ Swapped(Host(x), b).swapped = b
  <2>1. CASE b = TRUE
    BY <1>1, <1>2, <2>1 DEF Swapped
  <2>2. CASE b = FALSE
    BY <1>1, <2>2 DEF Swapped
  <2> QED BY <2>1, <2>2
<1> QED BY <1>1, <1>2, <1>3

-----------------------------------------------------------------------------
(* The command line and the input never change, so nothing that is read    *)
(* off them does.                                                          *)
LEMMA Frame ==
  ASSUME [Next]_vars
  PROVE  /\ argv' = argv /\ input' = input
         /\ mzip' = mzip /\ Loadable' = Loadable /\ Segments' = Segments
         /\ Linked' = Linked /\ Single' = Single /\ TheSegment' = TheSegment
         /\ MinAddr' = MinAddr /\ memsz' = memsz
<1>1. argv' = argv /\ input' = input
  <2>1. CASE UNCHANGED vars
    BY <2>1 DEF vars
  <2>2. CASE Elf2ImgNext
    BY <2>2 DEF Elf2ImgNext, ParseArgs, OpenInput, RefuseInput, AllocateImage,
         SkipImageSegment, CopySegment, OpenOutput, WriteRaw, PackImage, PackImageFails,
         StampImage, NoDescription, NoDescriptionBuffer, PrintUnterminated, WriteImage
  <2>3. CASE Elf2MzipNext
    BY <2>3 DEF Elf2MzipNext, MzipInput, MzipOutput, MzipRefuse, MzipFill, MzipPack,
         MzipPackFails, MzipStamp, MzipWrite
  <2> QED BY <2>1, <2>2, <2>3 DEF Next
<1>2. mzip' = mzip
  BY <1>1 DEF mzip, argc
<1>3. Loadable' = Loadable
  BY <1>1 DEF Loadable
<1>4. Segments' = Segments
  BY <1>1, <1>3 DEF Segments
<1>5. Linked' = Linked
  BY <1>1, <1>3, <1>4 DEF Linked
<1>6. Single' = Single /\ TheSegment' = TheSegment
  BY <1>1, <1>3 DEF Single, TheSegment
<1>7. MinAddr' = MinAddr /\ MaxAddr' = MaxAddr
  BY <1>1, <1>3 DEF MinAddr, MaxAddr
<1>8. memsz' = memsz
  BY <1>7 DEF memsz
<1> QED BY <1>1, <1>2, <1>3, <1>4, <1>5, <1>6, <1>7, <1>8

(* Each tool keeps to its own steps; the output holds what was written     *)
(* last, and until then elf2img has not touched it.                        *)
Elf2ImgSteps  == {"elf2img", "open", "headers", "segments", "output", "crcs", "descr"}
Elf2MzipSteps == {"elf2mzip", "unlink", "parse", "pack", "stamp", "write"}

ControlInv ==
  /\ argv \in Argvs /\ input \in Inputs
  /\ out = [kind |-> out.kind, hdr |-> out.hdr, crcs |-> out.crcs, body |-> out.body]
  /\ pc \in Elf2ImgSteps => argv[1] = "elf2img"
  /\ pc \in Elf2MzipSteps => argv[1] = "elf2mzip"
  /\ argv[1] = "elf2img" /\ (pc \notin {"elf2img", "exit-1", "undefined"} \/ out.kind # "old") =>
       argc >= 3
  /\ argv[1] = "elf2img" /\ (pc \notin {"elf2img", "open", "exit-1", "undefined"}
                              \/ out.kind # "old") => file_in # "-m"
  /\ pc \in {"crcs", "descr"} => mzip
  /\ argv[1] = "elf2img" /\ pc \in {"elf2img", "open", "headers", "segments", "exit-1"} =>
       out.kind = "old"
  /\ pc \in {"output", "crcs", "descr"} => out.kind = "empty"
  /\ pc \in {"elf2mzip", "unlink"} => out.kind = "old"
  /\ pc = "exit0" => out.kind \in {"raw", "mzip"} \/ failed = "buffer"
  /\ out.kind = "raw" => pc = "exit0" /\ argv[1] = "elf2img" /\ ~mzip /\ out.body = img
  /\ out.kind = "mzip" => /\ pc = "exit0" /\ (argv[1] = "elf2img" => mzip)
                          /\ out.hdr = mz /\ out.crcs = crcs /\ out.body = code.bytes

LEMMA ControlInit == Init => ControlInv
<1> SUFFICES ASSUME Init PROVE ControlInv
  OBVIOUS
<1>1. argv[1] \in {"elf2img", "elf2mzip"}
  BY MzipAssumption DEF Init
<1>2. out.kind = "old" /\ pc = argv[1]
  BY DEF Init
<1>3. out = [kind |-> out.kind, hdr |-> out.hdr, crcs |-> out.crcs, body |-> out.body]
  BY DEF Init
<1> QED BY <1>1, <1>2, <1>3 DEF Init, ControlInv, Elf2ImgSteps, Elf2MzipSteps

LEMMA ControlStep == ControlInv /\ [Next]_vars => ControlInv'
<1> SUFFICES ASSUME ControlInv, [Next]_vars PROVE ControlInv'
  OBVIOUS
<1> USE DEF ControlInv, Elf2ImgSteps, Elf2MzipSteps
<1>f. argv' = argv /\ input' = input /\ mzip' = mzip /\ argc' = argc /\ file_in' = file_in
  BY Frame DEF argc, file_in
<1>1. CASE UNCHANGED vars
  BY <1>f, <1>1 DEF vars
<1>2. CASE ParseArgs
  <2>1. argc \in Nat
    BY MzipAssumption DEF argc
  <2> QED BY <1>f, <1>2, <2>1 DEF ParseArgs
<1>3. CASE OpenInput
  BY <1>f, <1>3 DEF OpenInput
<1>4. CASE RefuseInput
  BY <1>f, <1>4 DEF RefuseInput
<1>5. CASE AllocateImage
  BY <1>f, <1>5 DEF AllocateImage
<1>6. CASE SkipImageSegment
  BY <1>f, <1>6 DEF SkipImageSegment
<1>7. CASE CopySegment
  <2>1. pc = "segments" /\ pc' \in {"segments", "undefined"} /\ out' = out /\ failed' = failed
    BY <1>7 DEF CopySegment
  <2> QED BY <1>f, <2>1
<1>8. CASE OpenOutput
  BY <1>f, <1>8 DEF OpenOutput
<1>9. CASE WriteRaw
  BY <1>f, <1>9 DEF WriteRaw
<1>10. CASE PackImage
  <2>1. pc = "output" /\ mzip /\ pc' = "crcs" /\ out' = out /\ failed' = failed
    BY <1>10 DEF PackImage
  <2> QED BY <1>f, <2>1
<1>11. CASE PackImageFails
  BY <1>f, <1>11 DEF PackImageFails
<1>12. CASE StampImage
  <2>1. pc = "crcs" /\ pc' = "descr" /\ out' = out /\ failed' = failed
    BY <1>12 DEF StampImage
  <2> QED BY <1>f, <2>1
<1>13. CASE NoDescription
  BY <1>f, <1>13 DEF NoDescription
<1>14. CASE NoDescriptionBuffer
  BY <1>f, <1>14 DEF NoDescriptionBuffer
<1>15. CASE WriteImage
  BY <1>f, <1>15 DEF WriteImage, WriteMzip
<1>24. CASE PrintUnterminated
  BY <1>f, <1>24 DEF PrintUnterminated
<1>16. CASE MzipInput
  BY <1>f, <1>16 DEF MzipInput
<1>17. CASE MzipOutput
  BY <1>f, <1>17 DEF MzipOutput
<1>18. CASE MzipRefuse
  BY <1>f, <1>18 DEF MzipRefuse
<1>19. CASE MzipFill
  <2>1. pc = "parse" /\ pc' = "pack" /\ out' = out /\ failed' = failed
    BY <1>19 DEF MzipFill
  <2> QED BY <1>f, <2>1
<1>20. CASE MzipPack
  <2>1. pc = "pack" /\ pc' = "stamp" /\ out' = out /\ failed' = failed
    BY <1>20 DEF MzipPack
  <2> QED BY <1>f, <2>1
<1>21. CASE MzipPackFails
  <2>1. pc = "pack" /\ pc' \in {"abort", "stamp"} /\ out' = out
    BY <1>21 DEF MzipPackFails
  <2> QED BY <1>f, <2>1
<1>22. CASE MzipStamp
  <2>1. pc = "stamp" /\ pc' = "write" /\ out' = out /\ failed' = failed
    BY <1>22 DEF MzipStamp
  <2> QED BY <1>f, <2>1
<1>23. CASE MzipWrite
  BY <1>f, <1>23 DEF MzipWrite, WriteMzip
<1> QED BY <1>1, <1>2, <1>3, <1>4, <1>5, <1>6, <1>7, <1>8, <1>9, <1>10, <1>11, <1>12,
           <1>13, <1>14, <1>15, <1>16, <1>17, <1>18, <1>19, <1>20, <1>21, <1>22, <1>23,
           <1>24
      DEF Next, Elf2ImgNext, Elf2MzipNext

(* The usage line of elf2img, cut off anywhere.                            *)
UsageLines ==
  { <<"elf2img">>, <<"elf2img", "in">>, <<"elf2img", "in", "out">>,
    <<"elf2img", "in", "out", "desc">>, <<"elf2img", "-m">>, <<"elf2img", "-m", "in">>,
    <<"elf2img", "-m", "in", "out">>, <<"elf2img", "-m", "in", "out", "desc">> }

(* For every input file and every command line that is the usage line of   *)
(* elf2img, whole or cut off, or anything for elf2mzip, the exit code says *)
(* what was written and elf2img writes over the output file alone (ExitHonest). *)
THEOREM ExitsHonest ==
  ASSUME \A a \in Argvs : a[1] = "elf2img" => a \in UsageLines
  PROVE  Spec => []ExitHonest
<1>1. ASSUME ControlInv PROVE ExitHonest
  <2>1. argv[1] \in {"elf2img", "elf2mzip"}
    BY <1>1, MzipAssumption DEF ControlInv
  <2>2. pc = "exit0" => \/ out.kind = IF argv[1] = "elf2mzip" \/ mzip THEN "mzip" ELSE "raw"
                        \/ failed = "buffer"
    BY <1>1, <2>1 DEF ControlInv
  <2>3. pc = "exit-1" /\ argv[1] = "elf2img" => out.kind = "old"
    BY <1>1 DEF ControlInv
  <2>4. ASSUME argv[1] = "elf2img", out.kind # "old"
        PROVE  file_out = "out" \/ argc = 3
    <3>1. argv \in UsageLines /\ argc >= 3 /\ file_in # "-m"
      BY <1>1, <2>4 DEF ControlInv
    <3>2. CASE argv = <<"elf2img", "in", "out", "desc">>
      BY <3>2 DEF argc, file_out
    <3>3. CASE argv = <<"elf2img", "-m", "in", "out">>
      BY <3>1, <3>3 DEF argc, file_in
    <3>4. CASE argv = <<"elf2img", "-m", "in", "out", "desc">>
      BY <3>4 DEF argc, file_out
    <3>5. CASE argv \in {<<"elf2img">>, <<"elf2img", "in">>, <<"elf2img", "-m">>}
      <4>1. argc \in {1, 2}
        BY <3>5 DEF argc
      <4> QED BY <3>1, <4>1
    <3>6. CASE argv \in {<<"elf2img", "in", "out">>, <<"elf2img", "-m", "in">>}
      BY <3>6 DEF argc
    <3> QED BY <3>1, <3>2, <3>3, <3>4, <3>5, <3>6 DEF UsageLines
  <2> QED BY <2>2, <2>3, <2>4 DEF ExitHonest
<1> QED BY <1>1, ControlInit, ControlStep, PTL DEF Spec

-----------------------------------------------------------------------------
(* The header keeps its fields.                                            *)
HeaderType == mz \in [Field -> HeaderField]

LEMMA StampFacts ==
  ASSUME HeaderType, StampCrcs, input.msb \in BOOLEAN
  PROVE  /\ mz' \in [Field -> HeaderField]
         /\ \A f \in Field \ {"crc_code", "crc_header"} : mz'[f] = mz[f]
         /\ \A f \in {"crc_code", "crc_header"} : mz'[f].swapped = input.msb
         /\ crcs'.code = mzip_calculate_crc(mz', code)
         /\ crcs'.header = mzip_calculate_hdr_crc(mz')
<1> DEFINE one == Swapped(Host(1), input.msb)
           h1  == [mz EXCEPT !["crc_code"] = one]
           h2  == [h1 EXCEPT !["crc_header"] = one]
<1>1. one \in HeaderField /\ one.swapped = input.msb
  BY FieldFacts
<1>2. /\ mz' = h2
      /\ crcs' = [code |-> mzip_calculate_crc(mz, code),
                  header |-> mzip_calculate_hdr_crc(h1)]
  BY DEF StampCrcs
<1> HIDE DEF one
<1>3. /\ h1 \in [Field -> HeaderField] /\ h2 \in [Field -> HeaderField]
      /\ \A f \in Field \ {"crc_code"} : h1[f] = mz[f]
      /\ \A f \in Field \ {"crc_header"} : h2[f] = h1[f]
      /\ h2["crc_code"] = one /\ h2["crc_header"] = one
  BY <1>1 DEF HeaderType, Field, HeadFields
<1> HIDE DEF h1, h2
<1>4. \A f \in TailFields : mz[f] = h2[f]
  BY <1>3 DEF TailFields, Field
<1>5. \A f \in HeadFields : h1[f] = h2[f]
  BY <1>3 DEF HeadFields, Field
<1>6. mzip_calculate_crc(mz, code) = mzip_calculate_crc(h2, code)
  BY <1>4 DEF mzip_calculate_crc
<1>7. mzip_calculate_hdr_crc(h1) = mzip_calculate_hdr_crc(h2)
  BY <1>5 DEF mzip_calculate_hdr_crc
<1>8. crcs'.code = mzip_calculate_crc(mz, code) /\ crcs'.header = mzip_calculate_hdr_crc(h1)
  BY <1>2
<1>9. /\ mz' \in [Field -> HeaderField]
      /\ \A f \in Field \ {"crc_code", "crc_header"} : mz'[f] = mz[f]
      /\ \A f \in {"crc_code", "crc_header"} : mz'[f].swapped = input.msb
  BY <1>1, <1>2, <1>3
<1> QED BY <1>2, <1>6, <1>7, <1>8, <1>9

(* What both tools put in the header before it is stamped.                 *)
LEMMA InitialHeader ==
  /\ mzip_initialize \in [Field -> HeaderField]
  /\ \A f \in Field : mzip_initialize[f].swapped = FALSE
  /\ \A f \in Field \ {"version"} : mzip_initialize[f].v = 0
<1> DEFINE z == [f \in Field |-> Host(0)]
<1>1. /\ Host(0) \in HeaderField /\ Host(0).v = 0 /\ Host(0).swapped = FALSE
      /\ Host(1) \in HeaderField /\ Host(1).swapped = FALSE
  BY FieldFacts
<1>2. z \in [Field -> HeaderField] /\ \A f \in Field : z[f] = Host(0)
  BY <1>1
<1>3. mzip_initialize = [z EXCEPT !["version"] = Host(1)]
  BY DEF mzip_initialize
<1> HIDE DEF z
<1> QED BY <1>1, <1>2, <1>3

LEMMA FilledHeader ==
  ASSUME input \in Inputs, NEW size \in Nat, NEW h, h = FillHeader(mzip_initialize, size)
  PROVE  /\ h \in [Field -> HeaderField]
         /\ \A f \in Field : h[f].swapped = FALSE
         /\ h["entrypt"].v = input.entry /\ h["loader_addr"].v = MinAddr
         /\ h["memory_image_size"].v = memsz /\ h["code_unpacked_size"].v = memsz
         /\ h["code_packed_size"].v = size
<1>1. input.entry \in Nat /\ MinAddr \in Nat /\ memsz \in Nat
  BY InputFacts, RangeFound DEF memsz, U32Sub
<1> DEFINE E == Host(input.entry)  L == Host(MinAddr)  S == Host(memsz)  P == Host(size)
           one == Host(1)  n112 == Host(112)  g == mzip_initialize
<1>2. /\ E \in HeaderField /\ E.v = input.entry /\ E.swapped = FALSE
      /\ L \in HeaderField /\ L.v = MinAddr /\ L.swapped = FALSE
      /\ S \in HeaderField /\ S.v = memsz /\ S.swapped = FALSE
      /\ P \in HeaderField /\ P.v = size /\ P.swapped = FALSE
      /\ one \in HeaderField /\ one.swapped = FALSE
      /\ n112 \in HeaderField /\ n112.swapped = FALSE
  BY <1>1, FieldFacts
<1>3. g \in [Field -> HeaderField] /\ \A f \in Field : g[f].swapped = FALSE
  BY InitialHeader
<1>4. h = [g EXCEPT !["version"] = one, !["entrypt"] = E,
            !["flags1"] = one, !["flags2"] = one, !["flags3"] = one,
            !["header_size"] = n112, !["loader_addr"] = L,
            !["code_packed_size"] = P, !["code_unpacked_size"] = S,
            !["memory_image_size"] = S]
  BY DEF FillHeader
<1> HIDE DEF E, L, S, P, one, n112, g
<1>5. h \in [Field -> HeaderField]
  BY <1>2, <1>3, <1>4 DEF Field, HeadFields, TailFields
<1>6. /\ h["entrypt"] = E /\ h["loader_addr"] = L /\ h["code_packed_size"] = P
      /\ h["memory_image_size"] = S /\ h["code_unpacked_size"] = S
  BY <1>3, <1>4 DEF Field, HeadFields, TailFields
<1>7. \A f \in Field : h[f] \in {g[f], one, E, n112, L, P, S}
  BY <1>3, <1>4 DEF Field, HeadFields, TailFields
<1>8. \A f \in Field : h[f].swapped = FALSE
  BY <1>2, <1>3, <1>7
<1> QED BY <1>2, <1>5, <1>6, <1>8

(* The only PT_LOAD segment is the one elf2mzip reads.                     *)
LEMMA SingleFacts ==
  ASSUME input \in Inputs, Single
  PROVE  /\ \E k \in Loadable : Loadable = {k} /\ TheSegment = input.phdrs[k]
         /\ TheSegment.paddr \in Nat /\ TheSegment.paddr < Word
         /\ TheSegment.filesz \in Nat /\ TheSegment.memsz \in Nat
         /\ TheSegment.offset \in Nat
<1>1. Len(input.phdrs) \in Nat
  BY InputFacts
<1>2. IsFiniteSet(1 .. Len(input.phdrs))
  BY <1>1, FS_Interval
<1>3. IsFiniteSet(Loadable)
  BY <1>2, FS_Subset DEF Loadable
<1>4. PICK k : Loadable = {k}
  BY <1>3, FS_Singleton DEF Single
<1>5. k \in Loadable /\ TheSegment = input.phdrs[k]
  BY <1>4 DEF TheSegment
<1> QED BY <1>4, <1>5, LoadableFacts

LEMMA MzipFilled ==
  ASSUME input \in Inputs, Single, mz = mzip_initialize, MzipFill
  PROVE  /\ mz' \in [Field -> HeaderField]
         /\ \A f \in Field : mz'[f].v = 0 \/ mz'[f].swapped = input.msb
         /\ mz'["entrypt"].v = input.entry /\ mz'["loader_addr"].v = TheSegment.paddr
         /\ mz'["memory_image_size"].v = TheSegment.memsz
         /\ mz'["code_unpacked_size"].v = TheSegment.filesz
<1>1. /\ input.entry \in Nat /\ input.msb \in BOOLEAN /\ TheSegment.paddr \in Nat
      /\ TheSegment.filesz \in Nat /\ TheSegment.memsz \in Nat
  BY InputFacts, SingleFacts
<1> DEFINE E == FromFile(input.entry)  L == FromFile(TheSegment.paddr)
           F == FromFile(TheSegment.filesz)  S == FromFile(TheSegment.memsz)
           one == Swapped(Host(1), input.msb)  n112 == Swapped(Host(112), input.msb)
           g == mzip_initialize
<1>2. /\ E \in HeaderField /\ E.v = input.entry /\ E.swapped = input.msb
      /\ L \in HeaderField /\ L.v = TheSegment.paddr /\ L.swapped = input.msb
      /\ F \in HeaderField /\ F.v = TheSegment.filesz /\ F.swapped = input.msb
      /\ S \in HeaderField /\ S.v = TheSegment.memsz /\ S.swapped = input.msb
  BY <1>1 DEF FromFile, HeaderField
<1>3. /\ one \in HeaderField /\ one.swapped = input.msb
      /\ n112 \in HeaderField /\ n112.swapped = input.msb
  BY <1>1, FieldFacts
<1>4. g \in [Field -> HeaderField] /\ \A f \in Field \ {"version"} : g[f].v = 0
  BY InitialHeader
<1>5. mz' = [g EXCEPT !["flags1"] = one, !["flags2"] = one, !["version"] = one,
                      !["entrypt"] = E, !["header_size"] = n112, !["loader_addr"] = L,
                      !["code_unpacked_size"] = F, !["memory_image_size"] = S]
  BY DEF MzipFill
<1> HIDE DEF E, L, F, S, one, n112, g
<1>6. mz' \in [Field -> HeaderField]
  BY <1>2, <1>3, <1>4, <1>5 DEF Field, HeadFields, TailFields
<1>7. /\ mz'["entrypt"] = E /\ mz'["loader_addr"] = L /\ mz'["memory_image_size"] = S
      /\ mz'["code_unpacked_size"] = F /\ mz'["version"] = one
  BY <1>4, <1>5 DEF Field, HeadFields, TailFields
<1>8. \A f \in Field : mz'[f] \in {g[f], one, E, n112, L, F, S}
  BY <1>4, <1>5 DEF Field, HeadFields, TailFields
<1>9. ASSUME NEW f \in Field PROVE mz'[f].v = 0 \/ mz'[f].swapped = input.msb
  <2>1. CASE f = "version"
    BY <1>3, <1>7, <2>1
  <2>2. CASE f # "version"
    BY <1>2, <1>3, <1>4, <1>8, <2>2
  <2> QED BY <2>1, <2>2
<1> QED BY <1>2, <1>6, <1>7, <1>9

(* The header from the moment it is filled to the moment it is written.    *)
Early == {"elf2img", "open", "headers", "segments", "output", "elf2mzip", "unlink", "parse"}

InByteOrder ==
  \A f \in Field : \/ mz[f].v = 0
                   \/ mz[f].swapped = input.msb
                   \/ f = "loader_addr" /\ argv[1] = "elf2img"

ImageHeader ==
  /\ mz["entrypt"].v = input.entry /\ mz["loader_addr"].v = MinAddr
  /\ mz["memory_image_size"].v = memsz /\ mz["code_unpacked_size"].v = memsz

SegmentHeader ==
  /\ mz["entrypt"].v = input.entry /\ mz["loader_addr"].v = TheSegment.paddr
  /\ mz["memory_image_size"].v = TheSegment.memsz
  /\ mz["code_unpacked_size"].v = TheSegment.filesz

HeaderInv ==
  /\ HeaderType
  /\ pc \in Early => mz = mzip_initialize
  /\ pc \in Early \cup {"pack"} => code = NoCode
  /\ pc \in {"crcs", "descr", "pack", "stamp", "write"} \/ out.kind = "mzip" => InByteOrder
  /\ pc \in {"crcs", "descr"} \/ (out.kind = "mzip" /\ argv[1] = "elf2img") =>
       ImageHeader /\ mz["code_packed_size"].v = code.size
  /\ pc \in {"pack", "stamp", "write"} \/ (out.kind = "mzip" /\ argv[1] = "elf2mzip") =>
       Single /\ SegmentHeader
  /\ pc \in {"stamp", "write"} \/ (out.kind = "mzip" /\ argv[1] = "elf2mzip") =>
       mz["code_packed_size"].v = code.size

(* The CRCs from the moment they are stored.                               *)
CrcInv ==
  pc \in {"descr", "write"} \/ out.kind = "mzip" =>
    /\ crcs.code = mzip_calculate_crc(mz, code)
    /\ crcs.header = mzip_calculate_hdr_crc(mz)

LEMMA HeaderInit == Init => HeaderInv /\ CrcInv
<1> SUFFICES ASSUME Init PROVE HeaderInv /\ CrcInv
  OBVIOUS
<1>1. pc \in {"elf2img", "elf2mzip"} /\ out.kind = "old" /\ mz = mzip_initialize /\ code = NoCode
  BY MzipAssumption DEF Init
<1> QED BY <1>1, InitialHeader DEF HeaderInv, CrcInv, HeaderType, Early

(* The steps that store in the header.                                     *)
LEMMA PackHeader ==
  ASSUME ControlInv, HeaderInv, PackImage
  PROVE  mz' \in [Field -> HeaderField] /\ InByteOrder' /\ ImageHeader'
         /\ mz'["code_packed_size"].v = code'.size
<1>1. PICK n \in PackedSizes : code' = [bytes |-> img, size |-> n]
  BY DEF PackImage, CodesegBuilt
<1>2. n \in Nat /\ code'.size = n /\ input.msb \in BOOLEAN /\ input \in Inputs
  BY <1>1, WordAssumption, MzipAssumption, InputFacts DEF U32, ControlInv
<1>3. PICK h : h = FillHeader(mzip_initialize, n)
  OBVIOUS
<1>4. mz = mzip_initialize
  BY DEF HeaderInv, PackImage, Early
<1>5. mz' = IF input.msb THEN mzip_swap(h) ELSE h
  BY <1>2, <1>3, <1>4 DEF PackImage
<1>6. /\ h \in [Field -> HeaderField]
      /\ \A f \in Field : h[f].swapped = FALSE
      /\ h["entrypt"].v = input.entry /\ h["loader_addr"].v = MinAddr
      /\ h["memory_image_size"].v = memsz /\ h["code_unpacked_size"].v = memsz
      /\ h["code_packed_size"].v = n
  BY <1>2, <1>3, FilledHeader
<1>7. /\ mz' \in [Field -> HeaderField]
      /\ \A f \in Field : mz'[f].v = h[f].v
      /\ \A f \in Field \ {"loader_addr"} : mz'[f].swapped = input.msb
  <2>1. CASE input.msb
    <3>1. mz' = [f \in Field |-> IF f = "loader_addr" THEN h[f] ELSE SWAP(h[f])]
      BY <1>5, <2>1 DEF mzip_swap
    <3> QED BY <1>2, <1>6, <2>1, <3>1, FieldFacts
  <2>2. CASE ~input.msb
    BY <1>2, <1>5, <1>6, <2>2
  <2> QED BY <2>1, <2>2
<1>8. [Next]_vars
  BY DEF PackImage, Next, Elf2ImgNext
<1>9. /\ input' = input /\ argv' = argv /\ argv[1] = "elf2img" /\ MinAddr' = MinAddr
      /\ memsz' = memsz
  BY <1>8, Frame DEF ControlInv, Elf2ImgSteps, PackImage
<1>10. InByteOrder'
  BY <1>7, <1>9 DEF InByteOrder
<1>11. ImageHeader' /\ mz'["code_packed_size"].v = code'.size
  BY <1>2, <1>6, <1>7, <1>9 DEF ImageHeader, Field, HeadFields, TailFields
<1> QED BY <1>7, <1>10, <1>11

LEMMA PackSegmentHeader ==
  ASSUME HeaderInv, pc = "pack", argv' = argv, input' = input, TheSegment' = TheSegment,
         input.msb \in BOOLEAN, code'.size \in Nat,
         mz' = [mz EXCEPT !["code_packed_size"] = Swapped(Host(code'.size), input.msb)]
  PROVE  mz' \in [Field -> HeaderField] /\ InByteOrder' /\ SegmentHeader'
         /\ mz'["code_packed_size"].v = code'.size
<1> DEFINE P == Swapped(Host(code'.size), input.msb)
<1>1. P \in HeaderField /\ P.v = code'.size /\ P.swapped = input.msb
  BY FieldFacts
<1>2. mz' = [mz EXCEPT !["code_packed_size"] = P]
  OBVIOUS
<1> HIDE DEF P
<1>3. mz \in [Field -> HeaderField] /\ InByteOrder /\ SegmentHeader
  BY DEF HeaderInv, HeaderType
<1>4. /\ mz' \in [Field -> HeaderField] /\ mz'["code_packed_size"] = P
      /\ \A f \in Field \ {"code_packed_size"} : mz'[f] = mz[f]
  BY <1>1, <1>2, <1>3 DEF Field, TailFields
<1>5. InByteOrder'
  BY <1>1, <1>3, <1>4 DEF InByteOrder
<1>6. SegmentHeader'
  BY <1>3, <1>4 DEF SegmentHeader, Field, HeadFields, TailFields
<1> QED BY <1>1, <1>4, <1>5, <1>6

LEMMA StampHeader ==
  ASSUME HeaderInv, StampCrcs, input.msb \in BOOLEAN, argv' = argv, input' = input,
         TheSegment' = TheSegment, MinAddr' = MinAddr, memsz' = memsz
  PROVE  /\ mz' \in [Field -> HeaderField]
         /\ InByteOrder => InByteOrder'
         /\ ImageHeader => ImageHeader'
         /\ SegmentHeader => SegmentHeader'
         /\ mz'["code_packed_size"] = mz["code_packed_size"]
<1>1. /\ mz' \in [Field -> HeaderField]
      /\ \A f \in Field \ {"crc_code", "crc_header"} : mz'[f] = mz[f]
      /\ \A f \in {"crc_code", "crc_header"} : mz'[f].swapped = input.msb
  BY StampFacts DEF HeaderInv
<1>2. InByteOrder => InByteOrder'
  BY <1>1 DEF InByteOrder
<1>3. mz'["code_packed_size"] = mz["code_packed_size"]
  BY <1>1 DEF Field, TailFields
<1>4. /\ mz'["entrypt"] = mz["entrypt"] /\ mz'["loader_addr"] = mz["loader_addr"]
      /\ mz'["memory_image_size"] = mz["memory_image_size"]
      /\ mz'["code_unpacked_size"] = mz["code_unpacked_size"]
  BY <1>1 DEF Field, HeadFields, TailFields
<1> QED BY <1>1, <1>2, <1>3, <1>4 DEF ImageHeader, SegmentHeader

(* The steps that leave the header alone and do not fill it.               *)
LEMMA HeaderKept ==
  ASSUME ControlInv, HeaderInv, CrcInv, UNCHANGED <<argv, input, code, mz, crcs>>,
         Single' = Single, TheSegment' = TheSegment, MinAddr' = MinAddr, memsz' = memsz,
         \/ pc' \in Early /\ pc \in Early /\ out'.kind # "mzip"
         \/ pc' \notin Early \cup {"pack", "crcs", "descr", "stamp", "write"}
              /\ (out'.kind = "mzip" => pc \in {"descr", "write"} /\ out.kind # "mzip")
         \/ pc' = pc /\ out' = out
  PROVE  HeaderInv' /\ CrcInv'
<1>1. HeaderType' = HeaderType /\ InByteOrder' = InByteOrder /\ ImageHeader' = ImageHeader
      /\ SegmentHeader' = SegmentHeader
  BY DEF HeaderType, InByteOrder, ImageHeader, SegmentHeader
<1>2. HeaderInv'
  BY <1>1 DEF HeaderInv, Early, ControlInv, Elf2ImgSteps, Elf2MzipSteps
<1>3. CrcInv'
  BY DEF CrcInv, Early
<1> QED BY <1>2, <1>3

LEMMA HeaderStep == ControlInv /\ HeaderInv /\ CrcInv /\ [Next]_vars => HeaderInv' /\ CrcInv'
<1> SUFFICES ASSUME ControlInv, HeaderInv, CrcInv, [Next]_vars PROVE HeaderInv' /\ CrcInv'
  OBVIOUS
<1>f. /\ argv' = argv /\ input' = input /\ Single' = Single /\ TheSegment' = TheSegment
      /\ MinAddr' = MinAddr /\ memsz' = memsz
  BY Frame
<1>g. input.msb \in BOOLEAN /\ input \in Inputs
  BY InputFacts DEF ControlInv
<1>k. /\ pc \notin {"exit0"} => out.kind # "mzip"
      /\ pc \in Elf2ImgSteps => argv[1] = "elf2img"
      /\ pc \in Elf2MzipSteps => argv[1] = "elf2mzip"
      /\ out = [kind |-> out.kind, hdr |-> out.hdr, crcs |-> out.crcs, body |-> out.body]
  BY DEF ControlInv
<1>1. CASE UNCHANGED vars
  BY <1>f, <1>1, HeaderKept DEF vars
<1>2. CASE ParseArgs
  <2>1. pc \in Early /\ pc' \in {"exit-1", "open", "undefined"} /\ out' = out /\ out.kind # "mzip"
    BY <1>k, <1>2 DEF ParseArgs, Early
  <2> QED BY <1>f, <1>2, <2>1, HeaderKept DEF ParseArgs, Early
<1>3. CASE OpenInput
  <2>1. pc \in Early /\ pc' \in {"exit-1", "headers"} /\ out' = out /\ out.kind # "mzip"
    BY <1>k, <1>3 DEF OpenInput, Early
  <2> QED BY <1>f, <1>3, <2>1, HeaderKept DEF OpenInput, Early
<1>4. CASE RefuseInput
  BY <1>f, <1>k, <1>4, HeaderKept DEF RefuseInput, Early
<1>5. CASE AllocateImage
  BY <1>f, <1>k, <1>5, HeaderKept DEF AllocateImage, Early
<1>6. CASE SkipImageSegment
  BY <1>f, <1>6, HeaderKept DEF SkipImageSegment
<1>7. CASE CopySegment
  <2>1. /\ pc = "segments" /\ pc' \in {"segments", "undefined"}
        /\ UNCHANGED <<argv, input, code, mz, crcs, out>>
    BY <1>7 DEF CopySegment
  <2> QED BY <1>f, <1>k, <2>1, HeaderKept DEF Early
<1>8. CASE OpenOutput
  <2>1. /\ pc = "segments" /\ pc' \in {"exit-1", "output"} /\ out'.kind # "mzip"
        /\ UNCHANGED <<argv, input, code, mz, crcs>>
    BY <1>k, <1>8 DEF OpenOutput
  <2> QED BY <1>f, <2>1, HeaderKept DEF Early
<1>9. CASE WriteRaw
  <2>1. /\ pc = "output" /\ pc' = "exit0" /\ out'.kind # "mzip"
        /\ UNCHANGED <<argv, input, code, mz, crcs>>
    BY <1>k, <1>9 DEF WriteRaw
  <2> QED BY <1>f, <2>1, HeaderKept DEF Early
<1>10. CASE PackImage
  <2>1. pc = "output" /\ pc' = "crcs" /\ out' = out
    BY <1>10 DEF PackImage
  <2>2. /\ mz' \in [Field -> HeaderField] /\ InByteOrder' /\ ImageHeader'
        /\ mz'["code_packed_size"].v = code'.size
    BY <1>10, PackHeader
  <2> QED BY <1>k, <2>1, <2>2 DEF HeaderInv, CrcInv, HeaderType, Early
<1>11. CASE PackImageFails
  BY <1>f, <1>k, <1>11, HeaderKept DEF PackImageFails, Early
<1>12. CASE StampImage
  <2>1. /\ pc = "crcs" /\ pc' = "descr" /\ out' = out /\ code' = code /\ StampCrcs
    BY <1>12 DEF StampImage
  <2>2. InByteOrder /\ ImageHeader /\ mz["code_packed_size"].v = code.size
    BY <2>1 DEF HeaderInv
  <2>3. /\ mz' \in [Field -> HeaderField] /\ InByteOrder' /\ ImageHeader'
        /\ mz'["code_packed_size"] = mz["code_packed_size"]
    BY <1>f, <1>g, <2>1, <2>2, StampHeader
  <2>4. /\ crcs'.code = mzip_calculate_crc(mz', code)
        /\ crcs'.header = mzip_calculate_hdr_crc(mz')
    BY <1>g, <2>1, StampFacts DEF HeaderInv
  <2>5. HeaderInv'
    BY <1>k, <2>1, <2>2, <2>3 DEF HeaderInv, HeaderType, Early
  <2>6. CrcInv'
    BY <2>1, <2>4 DEF CrcInv
  <2> QED BY <2>5, <2>6
<1>13. CASE NoDescription
  BY <1>f, <1>k, <1>13, HeaderKept DEF NoDescription, Early
<1>14. CASE NoDescriptionBuffer
  BY <1>f, <1>k, <1>14, HeaderKept DEF NoDescriptionBuffer, Early
<1>24. CASE PrintUnterminated
  BY <1>f, <1>k, <1>24, HeaderKept DEF PrintUnterminated, Early
<1>15. CASE WriteImage
  <2>1. pc = "descr" /\ pc' = "exit0" /\ out.kind # "mzip" /\ UNCHANGED <<argv, input, code, mz, crcs>>
    BY <1>k, <1>15 DEF WriteImage
  <2> QED BY <1>f, <2>1, HeaderKept DEF Early
<1>16. CASE MzipInput
  <2>1. pc = "elf2mzip" /\ pc' \in {"exit-1", "unlink"} /\ out' = out /\ out.kind # "mzip"
    BY <1>k, <1>16 DEF MzipInput
  <2> QED BY <1>f, <1>16, <2>1, HeaderKept DEF MzipInput, Early
<1>17. CASE MzipOutput
  <2>1. /\ pc = "unlink" /\ pc' \in {"undefined", "exit-1", "parse"} /\ out'.kind # "mzip"
        /\ UNCHANGED <<argv, input, code, mz, crcs>>
    BY <1>k, <1>17 DEF MzipOutput
  <2> QED BY <1>f, <2>1, HeaderKept DEF Early
<1>18. CASE MzipRefuse
  BY <1>f, <1>k, <1>18, HeaderKept DEF MzipRefuse, Early
<1>19. CASE MzipFill
  <2>1. pc = "parse" /\ pc' = "pack" /\ out' = out /\ code' = code /\ Single
    BY <1>19 DEF MzipFill
  <2>2. mz = mzip_initialize /\ code = NoCode
    BY <2>1 DEF HeaderInv, Early
  <2>3. /\ mz' \in [Field -> HeaderField]
        /\ \A f \in Field : mz'[f].v = 0 \/ mz'[f].swapped = input.msb
        /\ mz'["entrypt"].v = input.entry /\ mz'["loader_addr"].v = TheSegment.paddr
        /\ mz'["memory_image_size"].v = TheSegment.memsz
        /\ mz'["code_unpacked_size"].v = TheSegment.filesz
    BY <1>g, <1>19, <2>1, <2>2, MzipFilled
  <2>4. InByteOrder' /\ SegmentHeader'
    BY <1>f, <2>3 DEF InByteOrder, SegmentHeader
  <2> QED BY <1>f, <1>k, <2>1, <2>2, <2>3, <2>4 DEF HeaderInv, CrcInv, HeaderType, Early
<1>20. CASE MzipPack
  <2>1. pc = "pack" /\ pc' = "stamp" /\ out' = out
    BY <1>20 DEF MzipPack
  <2>2. code'.size \in Nat
    <3>1. PICK n \in PackedSizes : code' = [bytes |-> img, size |-> n]
      BY <1>20 DEF MzipPack, CodesegBuilt
    <3> QED BY <3>1, WordAssumption, MzipAssumption DEF U32
  <2>3. /\ mz' \in [Field -> HeaderField] /\ InByteOrder' /\ SegmentHeader'
        /\ mz'["code_packed_size"].v = code'.size
    BY <1>f, <1>g, <1>20, <2>1, <2>2, PackSegmentHeader DEF MzipPack
  <2>4. Single
    BY <2>1 DEF HeaderInv
  <2> QED BY <1>f, <1>k, <2>1, <2>3, <2>4 DEF HeaderInv, CrcInv, HeaderType, Early
<1>21. CASE MzipPackFails
  <2>1. pc = "pack" /\ pc' \in {"abort", "stamp"} /\ out' = out /\ code' = code
    BY <1>21 DEF MzipPackFails
  <2>2. code'.size = 0 /\ Single
    BY <2>1 DEF HeaderInv, NoCode
  <2>3. /\ mz' \in [Field -> HeaderField] /\ InByteOrder' /\ SegmentHeader'
        /\ mz'["code_packed_size"].v = code'.size
    BY <1>f, <1>g, <1>21, <2>1, <2>2, PackSegmentHeader DEF MzipPackFails
  <2> QED BY <1>f, <1>k, <2>1, <2>2, <2>3 DEF HeaderInv, CrcInv, HeaderType, Early
<1>22. CASE MzipStamp
  <2>1. /\ pc = "stamp" /\ pc' = "write" /\ out' = out /\ code' = code /\ StampCrcs
    BY <1>22 DEF MzipStamp
  <2>2. InByteOrder /\ SegmentHeader /\ Single /\ mz["code_packed_size"].v = code.size
    BY <2>1 DEF HeaderInv
  <2>3. /\ mz' \in [Field -> HeaderField] /\ InByteOrder' /\ SegmentHeader'
        /\ mz'["code_packed_size"] = mz["code_packed_size"]
    BY <1>f, <1>g, <2>1, <2>2, StampHeader
  <2>4. /\ crcs'.code = mzip_calculate_crc(mz', code)
        /\ crcs'.header = mzip_calculate_hdr_crc(mz')
    BY <1>g, <2>1, StampFacts DEF HeaderInv
  <2>5. HeaderInv'
    BY <1>f, <1>k, <2>1, <2>2, <2>3 DEF HeaderInv, HeaderType, Early
  <2>6. CrcInv'
    BY <2>1, <2>4 DEF CrcInv
  <2> QED BY <2>5, <2>6
<1>23. CASE MzipWrite
  <2>1. pc = "write" /\ pc' = "exit0" /\ out.kind # "mzip" /\ UNCHANGED <<argv, input, code, mz, crcs>>
    BY <1>k, <1>23 DEF MzipWrite
  <2> QED BY <1>f, <2>1, HeaderKept DEF Early
<1> QED BY <1>1, <1>2, <1>3, <1>4, <1>5, <1>6, <1>7, <1>8, <1>9, <1>10, <1>11, <1>12,
           <1>13, <1>14, <1>15, <1>16, <1>17, <1>18, <1>19, <1>20, <1>21, <1>22, <1>23,
           <1>24
      DEF Next, Elf2ImgNext, Elf2MzipNext

(* For every input file and every command line, the two CRCs in an MZIP    *)
(* file are those of the header and the code that were written (CrcsValid). *)
THEOREM CrcsStored == Spec => []CrcsValid
<1>1. ASSUME ControlInv, CrcInv PROVE CrcsValid
  <2> SUFFICES ASSUME out.kind = "mzip"
               PROVE  /\ out.crcs.code = [fields |-> [f \in TailFields |-> out.hdr[f]],
                                          bytes |-> out.body]
                      /\ out.crcs.header = [fields |-> [f \in HeadFields |-> out.hdr[f]]]
    BY DEF CrcsValid
  <2>1. out.hdr = mz /\ out.crcs = crcs /\ out.body = code.bytes
    BY <1>1 DEF ControlInv
  <2> QED BY <1>1, <2>1 DEF CrcInv, mzip_calculate_crc, mzip_calculate_hdr_crc
<1> QED BY <1>1, ControlInit, ControlStep, HeaderInit, HeaderStep, PTL DEF Spec

-----------------------------------------------------------------------------
(* Segment k has a byte of the file for cell a of the image, and the first *)
(* m segments are in their places.                                         *)
At(k, a) == /\ input.phdrs[k].paddr <= MinAddr + a
            /\ MinAddr + a < input.phdrs[k].paddr + input.phdrs[k].filesz

InPlace(image, m) ==
  \A a \in 0 .. memsz - 1 :
    /\ \A k \in Loadable : k <= m /\ At(k, a) =>
         image[a] = input.phdrs[k].offset + (MinAddr + a - input.phdrs[k].paddr)
    /\ (\A k \in Loadable : k <= m => ~At(k, a)) => image[a] = ZERO

(* In a linked file no two segments have a byte for the same cell.         *)
LEMMA OneSegment ==
  ASSUME input \in Inputs, Linked, MinAddr \in Nat, NEW a \in Nat,
         NEW j \in Loadable, NEW k \in Loadable, At(j, a), At(k, a)
  PROVE  j = k
<1> DEFINE p == input.phdrs[j]  q == input.phdrs[k]
<1>1. /\ p.paddr \in Nat /\ p.filesz \in Nat /\ p.memsz \in Nat /\ p \in Segments
      /\ q.paddr \in Nat /\ q.filesz \in Nat /\ q.memsz \in Nat /\ q \in Segments
  BY LoadableFacts
<1>2. /\ p.filesz <= p.memsz /\ q.filesz <= q.memsz
      /\ j = k \/ p.paddr + p.memsz <= q.paddr \/ q.paddr + q.memsz <= p.paddr
  BY <1>1 DEF Linked
<1>3. /\ p.paddr <= MinAddr + a /\ MinAddr + a < p.paddr + p.filesz
      /\ q.paddr <= MinAddr + a /\ MinAddr + a < q.paddr + q.filesz
  BY DEF At
<1> HIDE DEF p, q
<1> QED BY <1>1, <1>2, <1>3

(* The cells of an image from address m on that get the f bytes from       *)
(* position o of the file when they belong at address p.                   *)
LEMMA CellArithmetic ==
  ASSUME NEW o \in Nat, NEW p \in Nat, NEW f \in Nat, NEW m \in Nat, NEW a \in Nat,
         NEW l \in Nat, m <= p, o + f <= l
  PROVE  /\ (p <= m + a /\ m + a < p + f) <=> (p - m <= a /\ a < p - m + f)
         /\ p - m <= a /\ a < p - m + f => o + (a - (p - m)) < l
         /\ o + (a - (p - m)) = o + (m + a - p)
OBVIOUS

(* The lesser of two numbers.                                              *)
LEMMA LesserOfTwo ==
  ASSUME NEW x \in Nat, NEW y \in Nat, x <= y
  PROVE  Min({x, y}) = x
<1>1. x \in {x, y} /\ \A z \in {x, y} : x <= z
  OBVIOUS
<1>2. \A w \in {x, y} : (\A z \in {x, y} : w <= z) => w = x
  OBVIOUS
<1> DEFINE S == {x, y}
<1>3. Min(S) = CHOOSE w \in S : \A z \in S : w <= z
  BY DEF Min
<1>4. Min(S) \in S /\ \A z \in S : Min(S) <= z
  BY <1>1, <1>3
<1> QED BY <1>2, <1>4

(* What one fread of elf2img stores, for a linked file: the bytes of the   *)
(* segment, all of them, within the image.                                 *)
LEMMA SegmentCopied ==
  ASSUME input \in Inputs, Linked, Loadable # {}, DOMAIN img = 0 .. memsz - 1,
         i + 1 \in Loadable, CopySegment
  PROVE  /\ pc' = pc
         /\ DOMAIN img' = DOMAIN img
         /\ \A a \in 0 .. memsz - 1 :
              img'[a] = IF At(i + 1, a)
                        THEN input.phdrs[i + 1].offset
                               + (MinAddr + a - input.phdrs[i + 1].paddr)
                        ELSE img[a]
<1> DEFINE ph == input.phdrs[i + 1]
           buf_off == U32Sub(ph.paddr, MinAddr)
           inFile  == IF ph.offset < input.len THEN input.len - ph.offset ELSE 0
           n       == Min({ph.filesz, inFile})
<1>1. /\ img' = Fread(img, buf_off, ph.offset, n)
      /\ pc' = IF n > 0 /\ buf_off + n > Cardinality(DOMAIN img) THEN "undefined" ELSE pc
  BY DEF CopySegment
<1>2. /\ ph.offset \in Nat /\ ph.paddr \in Nat /\ ph.filesz \in Nat /\ ph.memsz \in Nat
      /\ ph \in Segments /\ input.len \in Nat
  BY LoadableFacts, InputFacts
<1>3. /\ ph.offset + ph.filesz <= input.len /\ ph.filesz <= ph.memsz
  BY <1>2 DEF Linked
<1>4. /\ MinAddr \in Nat /\ memsz \in Nat /\ MinAddr <= ph.paddr
      /\ ph.paddr + ph.memsz <= MinAddr + memsz
  BY RangeLinked
<1>5. buf_off = ph.paddr - MinAddr
  BY <1>2, <1>4 DEF U32Sub
<1>6. n = ph.filesz
  <2>1. ph.filesz <= inFile /\ inFile \in Nat
    BY <1>2, <1>3
  <2> HIDE DEF inFile, ph
  <2> QED BY <1>2, <2>1, LesserOfTwo
<1>7. Cardinality(DOMAIN img) = memsz
  BY <1>4, FS_Interval
<1> HIDE DEF ph, n, buf_off
<1>8. pc' = pc
  <2>1. buf_off + n <= memsz
    BY <1>2, <1>3, <1>4, <1>5, <1>6
  <2> QED BY <1>1, <1>2, <1>4, <1>5, <1>6, <1>7, <2>1
<1>9. img' = [a \in 0 .. memsz - 1 |->
                IF buf_off <= a /\ a < buf_off + n /\ ph.offset + (a - buf_off) < input.len
                THEN ph.offset + (a - buf_off) ELSE img[a]]
  BY <1>1 DEF Fread
<1>10. ASSUME NEW a \in 0 .. memsz - 1
       PROVE  img'[a] = IF At(i + 1, a) THEN ph.offset + (MinAddr + a - ph.paddr) ELSE img[a]
  <2>1. At(i + 1, a) <=> ph.paddr <= MinAddr + a /\ MinAddr + a < ph.paddr + ph.filesz
    BY DEF At, ph
  <2>2. a \in Nat
    BY <1>4
  <2>3. LET o == ph.offset  p == ph.paddr  f == ph.filesz  m == MinAddr  l == input.len
        IN  /\ (p <= m + a /\ m + a < p + f) <=> (p - m <= a /\ a < p - m + f)
            /\ p - m <= a /\ a < p - m + f => o + (a - (p - m)) < l
            /\ o + (a - (p - m)) = o + (m + a - p)
    <3> DEFINE o == ph.offset  p == ph.paddr  f == ph.filesz  m == MinAddr  l == input.len
    <3>1. /\ o \in Nat /\ p \in Nat /\ f \in Nat /\ m \in Nat /\ l \in Nat
          /\ m <= p /\ o + f <= l
      BY <1>2, <1>3, <1>4
    <3> HIDE DEF o, p, f, m, l
    <3>2. /\ (p <= m + a /\ m + a < p + f) <=> (p - m <= a /\ a < p - m + f)
          /\ p - m <= a /\ a < p - m + f => o + (a - (p - m)) < l
          /\ o + (a - (p - m)) = o + (m + a - p)
      BY <2>2, <3>1, CellArithmetic
    <3> QED BY <3>2 DEF o, p, f, m, l
  <2>4. /\ At(i + 1, a) <=> buf_off <= a /\ a < buf_off + n
        /\ buf_off <= a /\ a < buf_off + n => ph.offset + (a - buf_off) < input.len
        /\ ph.offset + (a - buf_off) = ph.offset + (MinAddr + a - ph.paddr)
    BY <1>5, <1>6, <2>1, <2>3, Zenon
  <2>5. img'[a] = IF buf_off <= a /\ a < buf_off + n /\ ph.offset + (a - buf_off) < input.len
                  THEN ph.offset + (a - buf_off) ELSE img[a]
    BY <1>9
  <2> QED BY <2>4, <2>5
<1> QED BY <1>8, <1>9, <1>10 DEF ph

LEMMA CopyInPlace ==
  ASSUME input \in Inputs, Linked, Loadable # {}, DOMAIN img = 0 .. memsz - 1, i \in Nat,
         i + 1 \in Loadable, CopySegment, InPlace(img, i)
  PROVE  InPlace(img', i + 1)
<1>1. \A a \in 0 .. memsz - 1 :
        img'[a] = IF At(i + 1, a)
                  THEN input.phdrs[i + 1].offset + (MinAddr + a - input.phdrs[i + 1].paddr)
                  ELSE img[a]
  BY SegmentCopied
<1>2. MinAddr \in Nat /\ memsz \in Nat /\ \A k \in Loadable : k \in Nat
  BY RangeLinked DEF Loadable
<1>3. ASSUME NEW a \in 0 .. memsz - 1, NEW k \in Loadable, k <= i + 1, At(k, a)
      PROVE  img'[a] = input.phdrs[k].offset + (MinAddr + a - input.phdrs[k].paddr)
  <2>1. CASE At(i + 1, a)
    <3>1. a \in Nat
      BY <1>2
    <3>2. k = i + 1
      BY <1>2, <1>3, <2>1, <3>1, OneSegment
    <3> QED BY <1>1, <2>1, <3>2
  <2>2. CASE ~At(i + 1, a)
    <3>1. k <= i
      BY <1>2, <1>3, <2>2
    <3> QED BY <1>1, <1>3, <2>2, <3>1 DEF InPlace
  <2> QED BY <2>1, <2>2
<1>4. ASSUME NEW a \in 0 .. memsz - 1, \A k \in Loadable : k <= i + 1 => ~At(k, a)
      PROVE  img'[a] = ZERO
  <2>1. ~At(i + 1, a) /\ \A k \in Loadable : k <= i => ~At(k, a)
    BY <1>2, <1>4
  <2> QED BY <1>1, <2>1 DEF InPlace
<1> QED BY <1>3, <1>4 DEF InPlace

(* The image of elf2img, segment by segment, and the bytes of elf2mzip.    *)
SegmentRead ==
  /\ DOMAIN img = 0 .. TheSegment.filesz - 1
  /\ Linked => \A a \in DOMAIN img : img[a] = TheSegment.offset + a

ImageInv ==
  /\ i \in 0 .. Len(input.phdrs)
  /\ pc \in {"elf2img", "open", "headers"} => i = 0
  /\ pc \in {"segments", "output", "crcs", "descr"}
       \/ (out.kind \in {"raw", "mzip"} /\ argv[1] = "elf2img") =>
       /\ Loadable # {} /\ DOMAIN img = 0 .. memsz - 1
       /\ Linked => InPlace(img, i)
       /\ pc # "segments" => i = Len(input.phdrs)
  /\ pc \in {"crcs", "descr"} \/ (out.kind = "mzip" /\ argv[1] = "elf2img") =>
       code.bytes = img
  /\ pc \in {"pack", "stamp", "write"} \/ (out.kind = "mzip" /\ argv[1] = "elf2mzip") =>
       SegmentRead
  /\ pc \in {"stamp", "write"} \/ (out.kind = "mzip" /\ argv[1] = "elf2mzip") =>
       code.bytes = img \/ failed # "none"
  /\ StaysDefined

LEMMA ImageInit == Init => ImageInv
<1> SUFFICES ASSUME Init PROVE ImageInv
  OBVIOUS
<1>1. pc \in {"elf2img", "elf2mzip"} /\ out.kind = "old" /\ i = 0 /\ Len(input.phdrs) \in Nat
  BY MzipAssumption, InputFacts DEF Init
<1> QED BY <1>1 DEF ImageInv, StaysDefined

(* The bytes elf2mzip reads.                                               *)
LEMMA MzipRead ==
  ASSUME input \in Inputs, Single, MzipFill, input' = input, Linked' = Linked,
         TheSegment' = TheSegment
  PROVE  SegmentRead'
<1> DEFINE ph == TheSegment
<1>1. PICK k \in Loadable : ph = input.phdrs[k]
  BY SingleFacts
<1>2. ph.offset \in Nat /\ ph.filesz \in Nat /\ ph \in Segments /\ input.len \in Nat
  BY <1>1, LoadableFacts, InputFacts
<1>3. img' = Fread([a \in 0 .. ph.filesz - 1 |-> UNTOUCHED], 0, ph.offset, ph.filesz)
  BY DEF MzipFill
<1>4. img' = [a \in 0 .. ph.filesz - 1 |->
                IF 0 <= a /\ a < 0 + ph.filesz /\ ph.offset + (a - 0) < input.len
                THEN ph.offset + (a - 0) ELSE [b \in 0 .. ph.filesz - 1 |-> UNTOUCHED][a]]
  BY <1>3 DEF Fread
<1> HIDE DEF ph
<1>5. ASSUME Linked, NEW a \in 0 .. ph.filesz - 1 PROVE img'[a] = ph.offset + a
  <2>1. ph.offset + ph.filesz <= input.len
    BY <1>2, <1>5 DEF Linked
  <2>2. 0 <= a /\ a < 0 + ph.filesz /\ ph.offset + (a - 0) < input.len
        /\ ph.offset + (a - 0) = ph.offset + a
    BY <1>2, <2>1
  <2> QED BY <1>4, <2>2
<1>6. DOMAIN img' = 0 .. ph.filesz - 1
  BY <1>4
<1> QED BY <1>5, <1>6 DEF SegmentRead, ph

(* The steps that leave the image alone.                                   *)
LEMMA ImageKept ==
  ASSUME ControlInv, ImageInv, UNCHANGED <<argv, input, i, img, code>>,
         Loadable' = Loadable, Linked' = Linked, TheSegment' = TheSegment,
         MinAddr' = MinAddr, memsz' = memsz, StaysDefined',
         \/ pc' = pc /\ out' = out /\ failed' = failed
         \/ /\ out'.kind \notin {"raw", "mzip"}
            /\ \/ pc' \notin Elf2ImgSteps \cup Elf2MzipSteps
               \/ pc = "elf2img" /\ pc' = "open"
               \/ pc = "open" /\ pc' = "headers"
               \/ pc = "segments" /\ pc' = "output" /\ i = Len(input.phdrs)
               \/ pc = "crcs" /\ pc' = "descr"
               \/ pc' \in {"elf2mzip", "unlink", "parse"}
               \/ pc = "stamp" /\ pc' = "write" /\ failed' = failed
         \/ /\ pc' = "exit0"
            /\ \/ pc = "output" /\ out'.kind = "raw"
               \/ pc \in {"descr", "write"} /\ out'.kind = "mzip" /\ failed' = failed
  PROVE  ImageInv'
<1>1. InPlace(img, i)' = InPlace(img, i) /\ SegmentRead' = SegmentRead
  BY DEF InPlace, At, SegmentRead
<1> QED BY <1>1 DEF ImageInv, ControlInv, Elf2ImgSteps, Elf2MzipSteps

LEMMA ImageStep == ControlInv /\ ImageInv /\ [Next]_vars => ImageInv'
<1> SUFFICES ASSUME ControlInv, ImageInv, [Next]_vars PROVE ImageInv'
  OBVIOUS
<1>f. /\ argv' = argv /\ input' = input /\ Loadable' = Loadable /\ Linked' = Linked
      /\ Single' = Single /\ TheSegment' = TheSegment /\ MinAddr' = MinAddr
      /\ memsz' = memsz
  BY Frame
<1>g. input \in Inputs /\ Len(input.phdrs) \in Nat /\ i \in Nat /\ i <= Len(input.phdrs)
  BY InputFacts DEF ControlInv, ImageInv
<1>k. /\ pc # "exit0" => out.kind \notin {"raw", "mzip"}
      /\ pc \in Elf2MzipSteps => argv[1] = "elf2mzip"
      /\ out = [kind |-> out.kind, hdr |-> out.hdr, crcs |-> out.crcs, body |-> out.body]
  BY DEF ControlInv
<1>1. CASE UNCHANGED vars
  <2>1. StaysDefined'
    BY <1>f, <1>1, Frame DEF ImageInv, StaysDefined, vars, argc
  <2> QED BY <1>f, <1>1, <2>1, ImageKept DEF vars
<1>2. CASE ParseArgs
  <2>1. /\ pc = "elf2img" /\ pc' \in {"exit-1", "open", "undefined"}
        /\ UNCHANGED <<i, img, code, out, failed>>
        /\ pc' = "undefined" => argc < 3
    BY <1>2 DEF ParseArgs
  <2>2. argv[1] = "elf2img" /\ out.kind = "old"
    BY <2>1 DEF ControlInv, Elf2ImgSteps
  <2>3. StaysDefined'
    BY <1>f, <2>1, <2>2 DEF StaysDefined, argc
  <2> QED BY <1>f, <1>k, <2>1, <2>3, ImageKept DEF Elf2ImgSteps, Elf2MzipSteps
<1>3. CASE OpenInput
  <2>1. pc = "open" /\ pc' \in {"exit-1", "headers"} /\ UNCHANGED <<i, img, code, out, failed>>
    BY <1>3 DEF OpenInput
  <2> QED BY <1>f, <1>k, <2>1, ImageKept DEF StaysDefined, Elf2ImgSteps, Elf2MzipSteps
<1>4. CASE RefuseInput
  <2>1. pc = "headers" /\ pc' = "exit-1" /\ UNCHANGED <<i, img, code, out, failed>>
    BY <1>4 DEF RefuseInput
  <2> QED BY <1>f, <1>k, <2>1, ImageKept DEF StaysDefined, Elf2ImgSteps, Elf2MzipSteps
<1>5. CASE AllocateImage
  <2>1. /\ pc = "headers" /\ pc' = "segments" /\ memsz # 1
        /\ img' = [a \in 0 .. memsz - 1 |-> ZERO] /\ UNCHANGED <<i, code, out, failed>>
    BY <1>5 DEF AllocateImage
  <2>2. Loadable # {} /\ i = 0
    BY <1>g, <2>1, RangeFound DEF ImageInv
  <2>3. \A k \in Loadable : ~(k <= i)
    BY <2>2 DEF Loadable
  <2>4. InPlace(img, i)'
    BY <1>f, <2>1, <2>3 DEF InPlace
  <2> QED BY <1>f, <1>g, <1>k, <2>1, <2>2, <2>4 DEF ImageInv, StaysDefined
<1>6. CASE SkipImageSegment
  <2>1. /\ pc = "segments" /\ pc' = "segments" /\ i < Len(input.phdrs) /\ i' = i + 1
        /\ ~input.phdrs[i + 1].load /\ UNCHANGED <<img, code, out, failed>>
    BY <1>6 DEF SkipImageSegment
  <2>2. Loadable # {} /\ DOMAIN img = 0 .. memsz - 1 /\ (Linked => InPlace(img, i))
    BY <2>1 DEF ImageInv
  <2>3. \A k \in Loadable : k \in Nat /\ k # i + 1
    BY <2>1 DEF Loadable
  <2>4. \A k \in Loadable : k <= i + 1 <=> k <= i
    BY <1>g, <2>3
  <2>5. Linked => InPlace(img, i)'
    BY <1>f, <2>1, <2>2, <2>4 DEF InPlace, At
  <2> QED BY <1>f, <1>g, <1>k, <2>1, <2>2, <2>5 DEF ImageInv, StaysDefined
<1>7. CASE CopySegment
  <2>1. /\ pc = "segments" /\ pc' \in {"segments", "undefined"} /\ i < Len(input.phdrs)
        /\ i' = i + 1 /\ input.phdrs[i + 1].load /\ UNCHANGED <<code, out, failed>>
        /\ DOMAIN img' = DOMAIN img
    BY <1>7 DEF CopySegment, Fread
  <2>2. Loadable # {} /\ DOMAIN img = 0 .. memsz - 1 /\ (Linked => InPlace(img, i))
    BY <2>1 DEF ImageInv
  <2>3. i + 1 \in Loadable
    BY <1>g, <2>1 DEF Loadable
  <2>4. ASSUME Linked PROVE pc' = pc /\ InPlace(img, i)'
    <3>1. pc' = pc
      BY <1>g, <1>7, <2>2, <2>3, <2>4, SegmentCopied
    <3>2. InPlace(img', i + 1)
      BY <1>g, <1>7, <2>2, <2>3, <2>4, CopyInPlace
    <3>3. InPlace(img, i)'
      BY <1>f, <2>1, <3>2 DEF InPlace, At
    <3> QED BY <3>1, <3>3
  <2>5. StaysDefined'
    BY <1>f, <2>1, <2>4 DEF StaysDefined
  <2> QED BY <1>f, <1>g, <1>k, <2>1, <2>2, <2>4, <2>5 DEF ImageInv
<1>8. CASE OpenOutput
  <2>1. /\ pc = "segments" /\ i = Len(input.phdrs) /\ pc' \in {"exit-1", "output"}
        /\ out'.kind \notin {"raw", "mzip"} /\ UNCHANGED <<i, img, code, failed>>
    BY <1>k, <1>8 DEF OpenOutput
  <2> QED BY <1>f, <2>1, ImageKept DEF StaysDefined, Elf2ImgSteps, Elf2MzipSteps
<1>9. CASE WriteRaw
  <2>1. /\ pc = "output" /\ pc' = "exit0" /\ out'.kind = "raw"
        /\ UNCHANGED <<i, img, code, failed>>
    BY <1>k, <1>9 DEF WriteRaw
  <2> QED BY <1>f, <2>1, ImageKept DEF StaysDefined
<1>10. CASE PackImage
  <2>1. /\ pc = "output" /\ pc' = "crcs" /\ code'.bytes = img
        /\ UNCHANGED <<i, img, out, failed>>
    BY <1>10 DEF PackImage, CodesegBuilt
  <2>2. /\ Loadable # {} /\ DOMAIN img = 0 .. memsz - 1 /\ (Linked => InPlace(img, i))
        /\ i = Len(input.phdrs)
    BY <2>1 DEF ImageInv
  <2>3. InPlace(img, i)' <=> InPlace(img, i)
    BY <1>f, <2>1 DEF InPlace, At
  <2> QED BY <1>f, <1>g, <1>k, <2>1, <2>2, <2>3 DEF ImageInv, StaysDefined
<1>11. CASE PackImageFails
  <2>1. pc = "output" /\ pc' = "undefined" /\ failed' # "none" /\ UNCHANGED <<i, img, code, out>>
    BY <1>11 DEF PackImageFails
  <2> QED BY <1>f, <1>k, <2>1, ImageKept DEF StaysDefined, Elf2ImgSteps, Elf2MzipSteps
<1>12. CASE StampImage
  <2>1. pc = "crcs" /\ pc' = "descr" /\ UNCHANGED <<i, img, code, out, failed>>
    BY <1>12 DEF StampImage
  <2> QED BY <1>f, <1>k, <2>1, ImageKept DEF StaysDefined
<1>13. CASE NoDescription
  <2>1. pc = "descr" /\ pc' = "undefined" /\ failed' # "none" /\ UNCHANGED <<i, img, code, out>>
    BY <1>13 DEF NoDescription
  <2> QED BY <1>f, <1>k, <2>1, ImageKept DEF StaysDefined, Elf2ImgSteps, Elf2MzipSteps
<1>14. CASE NoDescriptionBuffer
  <2>1. pc = "descr" /\ pc' = "exit0" /\ UNCHANGED <<i, img, code, out>>
    BY <1>14 DEF NoDescriptionBuffer
  <2> QED BY <1>f, <1>k, <2>1, ImageKept DEF StaysDefined, Elf2ImgSteps, Elf2MzipSteps
<1>24. CASE PrintUnterminated
  <2>1. /\ pc = "descr" /\ pc' = "undefined" /\ ~input.descNul
        /\ UNCHANGED <<i, img, code, out, failed>>
    BY <1>24 DEF PrintUnterminated
  <2>2. argv[1] = "elf2img" /\ mzip /\ out.kind = "empty" /\ mzip' = mzip
    BY <2>1, Frame DEF ControlInv, Elf2ImgSteps
  <2>3. StaysDefined'
    BY <1>f, <2>1, <2>2 DEF StaysDefined
  <2> QED BY <1>f, <1>k, <2>1, <2>3, ImageKept DEF Elf2ImgSteps, Elf2MzipSteps
<1>15. CASE WriteImage
  <2>1. /\ pc = "descr" /\ pc' = "exit0" /\ out'.kind = "mzip"
        /\ UNCHANGED <<i, img, code, failed>>
    BY <1>15 DEF WriteImage, WriteMzip
  <2> QED BY <1>f, <2>1, ImageKept DEF StaysDefined
<1>16. CASE MzipInput
  <2>1. pc = "elf2mzip" /\ pc' \in {"exit-1", "unlink"} /\ UNCHANGED <<i, img, code, out, failed>>
    BY <1>16 DEF MzipInput
  <2> QED BY <1>f, <1>k, <2>1, ImageKept DEF StaysDefined, Elf2ImgSteps, Elf2MzipSteps
<1>17. CASE MzipOutput
  <2>1. /\ pc = "unlink" /\ pc' \in {"undefined", "exit-1", "parse"}
        /\ out'.kind \notin {"raw", "mzip"} /\ UNCHANGED <<i, img, code, failed>>
        /\ pc' = "undefined" => Len(argv) = 2
    BY <1>k, <1>17 DEF MzipOutput
  <2>2. argv[1] = "elf2mzip" /\ (pc' = "undefined" => out' = out /\ out.kind = "old")
    BY <1>k, <1>17, <2>1 DEF ControlInv, MzipOutput, Elf2MzipSteps
  <2>3. StaysDefined'
    BY <1>f, <2>1, <2>2 DEF StaysDefined
  <2> QED BY <1>f, <2>1, <2>3, ImageKept DEF Elf2ImgSteps, Elf2MzipSteps
<1>18. CASE MzipRefuse
  <2>1. pc = "parse" /\ pc' = "exit-1" /\ UNCHANGED <<i, img, code, out, failed>>
    BY <1>18 DEF MzipRefuse
  <2> QED BY <1>f, <1>k, <2>1, ImageKept DEF StaysDefined, Elf2ImgSteps, Elf2MzipSteps
<1>19. CASE MzipFill
  <2>1. pc = "parse" /\ pc' = "pack" /\ Single /\ UNCHANGED <<i, code, out, failed>>
    BY <1>19 DEF MzipFill
  <2>2. SegmentRead'
    BY <1>f, <1>g, <1>19, <2>1, MzipRead
  <2> QED BY <1>f, <1>g, <1>k, <2>1, <2>2 DEF ImageInv, StaysDefined
<1>20. CASE MzipPack
  <2>1. /\ pc = "pack" /\ pc' = "stamp" /\ code'.bytes = img
        /\ UNCHANGED <<i, img, out, failed>>
    BY <1>20 DEF MzipPack, CodesegBuilt
  <2>2. SegmentRead' <=> SegmentRead
    BY <1>f, <2>1 DEF SegmentRead
  <2> QED BY <1>f, <1>g, <1>k, <2>1, <2>2 DEF ImageInv, StaysDefined
<1>21. CASE MzipPackFails
  <2>1. /\ pc = "pack" /\ pc' \in {"abort", "stamp"} /\ failed' # "none"
        /\ UNCHANGED <<i, img, code, out>>
    BY <1>21 DEF MzipPackFails
  <2>2. SegmentRead' <=> SegmentRead
    BY <1>f, <2>1 DEF SegmentRead
  <2> QED BY <1>f, <1>g, <1>k, <2>1, <2>2 DEF ImageInv, StaysDefined
<1>22. CASE MzipStamp
  <2>1. pc = "stamp" /\ pc' = "write" /\ UNCHANGED <<i, img, code, out, failed>>
    BY <1>22 DEF MzipStamp
  <2> QED BY <1>f, <1>k, <2>1, ImageKept DEF StaysDefined
<1>23. CASE MzipWrite
  <2>1. /\ pc = "write" /\ pc' = "exit0" /\ out'.kind = "mzip"
        /\ UNCHANGED <<i, img, code, failed>>
    BY <1>23 DEF MzipWrite, WriteMzip
  <2> QED BY <1>f, <2>1, ImageKept DEF StaysDefined
<1> QED BY <1>1, <1>2, <1>3, <1>4, <1>5, <1>6, <1>7, <1>8, <1>9, <1>10, <1>11, <1>12,
           <1>13, <1>14, <1>15, <1>16, <1>17, <1>18, <1>19, <1>20, <1>21, <1>22, <1>23,
           <1>24
      DEF Next, Elf2ImgNext, Elf2MzipNext

(* For every linked input file, as long as no library call fails, no step  *)
(* of either tool leaves what C defines but for three reads: of the end or *)
(* the front of argv when there are too few arguments, before the output   *)
(* is touched, and behind a description without a NUL, before anything is  *)
(* written (StaysDefined).                                                 *)
THEOREM ToolsStayDefined == Spec => []StaysDefined
<1>1. ImageInv => StaysDefined
  BY DEF ImageInv
<1> QED BY <1>1, ControlInit, ControlStep, ImageInit, ImageStep, PTL DEF Spec

(* The address range of a file of one segment.                             *)
LEMMA SingleRange ==
  ASSUME input \in Inputs, Single, Linked
  PROVE  /\ Segments = {TheSegment} /\ Lowest = TheSegment.paddr
         /\ Highest = TheSegment.paddr + TheSegment.memsz
<1> DEFINE p == TheSegment
<1>1. PICK k \in Loadable : Loadable = {k} /\ p = input.phdrs[k]
  BY SingleFacts
<1>2. p.paddr \in Nat /\ p.memsz \in Nat /\ p.paddr < Word /\ Word \in Nat
  BY SingleFacts, WordAssumption
<1>3. Segments = {p}
  BY <1>1 DEF Segments
<1>4. p.paddr + p.memsz < Word
  BY <1>3 DEF Linked
<1> HIDE DEF p
<1>5. Lowest = p.paddr
  BY <1>2, <1>3 DEF Lowest, U32
<1>6. Highest = p.paddr + p.memsz
  BY <1>2, <1>3, <1>4 DEF Highest, U32
<1> QED BY <1>3, <1>5, <1>6 DEF p

(* The number of cells of an image.                                        *)
LEMMA IntervalSize ==
  ASSUME NEW n \in Nat
  PROVE  Cardinality(0 .. n - 1) = n
<1>1. Cardinality(0 .. n - 1) = IF 0 > n - 1 THEN 0 ELSE n - 1 - 0 + 1
  BY FS_Interval
<1> QED BY <1>1

(* What the two tools have written, by the invariants.                     *)
LEMMA WrittenFacts ==
  ASSUME ControlInv, HeaderInv, ImageInv, Written
  PROVE  /\ input \in Inputs /\ Linked /\ argv[1] \in {"elf2img", "elf2mzip"}
         /\ out.body = img
         /\ argv[1] = "elf2img" =>
              /\ Loadable # {} /\ DOMAIN img = 0 .. memsz - 1
              /\ InPlace(img, Len(input.phdrs))
         /\ argv[1] = "elf2mzip" => Single /\ SegmentRead
<1>1. /\ input \in Inputs /\ Linked /\ argv[1] \in {"elf2img", "elf2mzip"}
      /\ out.kind \in {"raw", "mzip"} /\ failed = "none" /\ pc = "exit0"
  BY MzipAssumption DEF ControlInv, Written
<1>2. CASE argv[1] = "elf2img"
  <2>1. out.body = img
    BY <1>1, <1>2 DEF ControlInv, ImageInv
  <2> QED BY <1>1, <1>2, <2>1 DEF ImageInv
<1>3. CASE argv[1] = "elf2mzip"
  <2>1. out.kind = "mzip" /\ out.body = code.bytes
    BY <1>1, <1>3 DEF ControlInv
  <2>2. code.bytes = img /\ SegmentRead
    BY <1>1, <1>3, <2>1 DEF ImageInv
  <2>3. Single
    BY <1>3, <2>1 DEF HeaderInv
  <2> QED BY <1>1, <1>3, <2>1, <2>2, <2>3
<1> QED BY <1>1, <1>2, <1>3

(* For every linked input file, what either tool writes is its memory      *)
(* image: every byte of every segment in its place, 0 between them, and    *)
(* from elf2img all of it (ImageLaidOut).                                  *)
THEOREM ImageWritten == Spec => []ImageLaidOut
<1>1. ASSUME ControlInv, HeaderInv, ImageInv PROVE ImageLaidOut
  <2> SUFFICES ASSUME Written
               PROVE  /\ \A a \in DOMAIN out.body :
                           LET here == {p \in Segments : /\ p.paddr <= Lowest + a
                                                         /\ Lowest + a < p.paddr + p.filesz}
                           IN  out.body[a] = IF here = {} THEN ZERO
                                             ELSE LET p == CHOOSE p \in here : TRUE
                                                  IN  p.offset + (Lowest + a - p.paddr)
                      /\ argv[1] = "elf2img" => DOMAIN out.body = 0 .. Highest - Lowest - 1
    BY Zenon DEF ImageLaidOut
  <2>1. /\ input \in Inputs /\ Linked /\ argv[1] \in {"elf2img", "elf2mzip"}
        /\ out.body = img
        /\ argv[1] = "elf2img" =>
             /\ Loadable # {} /\ DOMAIN img = 0 .. memsz - 1
             /\ InPlace(img, Len(input.phdrs))
        /\ argv[1] = "elf2mzip" => Single /\ SegmentRead
    BY <1>1, WrittenFacts
  <2>2. argv[1] = "elf2img" => DOMAIN out.body = 0 .. Highest - Lowest - 1
    BY <2>1, RangeLinked
  <2>3. ASSUME NEW a \in DOMAIN img,
               NEW here, here = {p \in Segments : /\ p.paddr <= Lowest + a
                                                  /\ Lowest + a < p.paddr + p.filesz}
        PROVE  img[a] = IF here = {} THEN ZERO
                        ELSE LET p == CHOOSE p \in here : TRUE
                             IN  p.offset + (Lowest + a - p.paddr)
    <3>1. CASE argv[1] = "elf2img"
      <4>1. Lowest = MinAddr /\ a \in 0 .. memsz - 1 /\ InPlace(img, Len(input.phdrs))
        BY <2>1, <3>1, RangeLinked
      <4>2. \A k \in Loadable : k <= Len(input.phdrs)
        BY <2>1, LoadableFacts, InputFacts
      <4>3. CASE here = {}
        <5>1. \A k \in Loadable : ~At(k, a)
          BY <2>1, <2>3, <4>1, <4>3, LoadableFacts DEF At
        <5> QED BY <4>1, <4>3, <5>1 DEF InPlace
      <4>4. CASE here # {}
        <5>1. PICK p : p = CHOOSE q \in here : TRUE
          OBVIOUS
        <5>2. p \in here
          BY <4>4, <5>1
        <5>3. PICK k \in Loadable : p = input.phdrs[k]
          BY <2>3, <5>2 DEF Segments
        <5>4. At(k, a)
          BY <2>3, <4>1, <5>2, <5>3 DEF At
        <5>5. img[a] = p.offset + (Lowest + a - p.paddr)
          BY <4>1, <4>2, <5>3, <5>4 DEF InPlace
        <5> QED BY <4>4, <5>1, <5>5
      <4> QED BY <4>3, <4>4
    <3>2. CASE argv[1] = "elf2mzip"
      <4>1. Single /\ SegmentRead
        BY <2>1, <3>2
      <4>2. /\ Segments = {TheSegment} /\ Lowest = TheSegment.paddr
        BY <2>1, <4>1, SingleRange
      <4>3. /\ TheSegment.paddr \in Nat /\ TheSegment.filesz \in Nat
            /\ TheSegment.offset \in Nat
        BY <2>1, <4>1, SingleFacts
      <4>4. a \in 0 .. TheSegment.filesz - 1 /\ img[a] = TheSegment.offset + a
        BY <2>1, <4>1 DEF SegmentRead
      <4>5. /\ TheSegment.paddr <= Lowest + a
            /\ Lowest + a < TheSegment.paddr + TheSegment.filesz
            /\ TheSegment.offset + a = TheSegment.offset + (Lowest + a - TheSegment.paddr)
        BY <4>2, <4>3, <4>4
      <4>6. here = {TheSegment}
        BY <2>3, <4>2, <4>5
      <4>7. (CHOOSE p \in here : TRUE) = TheSegment /\ here # {}
        BY <4>6
      <4> QED BY <4>4, <4>5, <4>7
    <3> QED BY <2>1, <3>1, <3>2
  <2> QED BY <2>1, <2>2, <2>3, Zenon
<1> QED BY <1>1, ControlInit, ControlStep, HeaderInit, HeaderStep, ImageInit, ImageStep,
           PTL DEF Spec

(* For every linked input file the header of an MZIP file gives the entry  *)
(* point, the lowest address, the size of the memory image and both sizes  *)
(* of the code that was written, and for every input file its fields are   *)
(* in the target's byte order, but for the one mzip_swap leaves out        *)
(* (HeaderDescribes).                                                      *)
THEOREM HeaderWritten == Spec => []HeaderDescribes
<1>1. ASSUME ControlInv, HeaderInv, ImageInv PROVE HeaderDescribes
  <2>1. ASSUME out.kind = "mzip"
        PROVE  \A f \in Field : \/ out.hdr[f].v = 0
                                \/ out.hdr[f].swapped = input.msb
                                \/ f = "loader_addr" /\ argv[1] = "elf2img"
    BY <1>1, <2>1 DEF ControlInv, HeaderInv, InByteOrder
  <2>2. ASSUME Written, out.kind = "mzip"
        PROVE  /\ out.hdr["entrypt"].v = input.entry
               /\ out.hdr["loader_addr"].v = Lowest
               /\ out.hdr["memory_image_size"].v = Highest - Lowest
               /\ out.hdr["code_unpacked_size"].v = Cardinality(DOMAIN out.body)
               /\ out.hdr["code_packed_size"].v = code.size
    <3>1. /\ input \in Inputs /\ Linked /\ argv[1] \in {"elf2img", "elf2mzip"}
          /\ out.body = img
          /\ argv[1] = "elf2img" => Loadable # {} /\ DOMAIN img = 0 .. memsz - 1
          /\ argv[1] = "elf2mzip" => Single /\ SegmentRead
      BY <1>1, <2>2, WrittenFacts
    <3>2. out.hdr = mz
      BY <1>1, <2>2 DEF ControlInv
    <3>3. CASE argv[1] = "elf2img"
      <4>1. ImageHeader /\ mz["code_packed_size"].v = code.size
        BY <1>1, <2>2, <3>3 DEF HeaderInv
      <4>2. MinAddr = Lowest /\ memsz = Highest - Lowest /\ memsz \in Nat
        BY <3>1, <3>3, RangeLinked
      <4>3. Cardinality(0 .. memsz - 1) = memsz
        BY <4>2, IntervalSize
      <4> QED BY <3>1, <3>2, <3>3, <4>1, <4>2, <4>3 DEF ImageHeader
    <3>4. CASE argv[1] = "elf2mzip"
      <4>1. SegmentHeader /\ mz["code_packed_size"].v = code.size
        BY <1>1, <2>2, <3>4 DEF HeaderInv
      <4>2. Single /\ DOMAIN img = 0 .. TheSegment.filesz - 1
        BY <3>1, <3>4 DEF SegmentRead
      <4>3. /\ TheSegment.filesz \in Nat /\ TheSegment.paddr \in Nat
            /\ TheSegment.memsz \in Nat
        BY <3>1, <4>2, SingleFacts
      <4>4. Cardinality(0 .. TheSegment.filesz - 1) = TheSegment.filesz
        BY <4>3, IntervalSize
      <4>5. Lowest = TheSegment.paddr /\ Highest = TheSegment.paddr + TheSegment.memsz
        BY <3>1, <4>2, SingleRange
      <4>6. Highest - Lowest = TheSegment.memsz
        BY <4>3, <4>5
      <4> QED BY <3>1, <3>2, <4>1, <4>2, <4>4, <4>5, <4>6 DEF SegmentHeader
    <3> QED BY <3>1, <3>3, <3>4
  <2> QED BY <2>1, <2>2 DEF HeaderDescribes
<1> QED BY <1>1, ControlInit, ControlStep, HeaderInit, HeaderStep, ImageInit, ImageStep,
           PTL DEF Spec
=============================================================================
