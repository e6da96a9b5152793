----------------------------- MODULE MCElfTool -----------------------------
(***************************************************************************)
(* ElfTool on files of both byte orders with up to three sections and two  *)
(* program headers: a string table in every place, named by an index that  *)
(* is right, wrong or too large, names inside and outside it, machine and  *)
(* file types at the ends of their tables, and files cut short.            *)
(***************************************************************************)
EXTENDS ElfTool

Ordered(s, order) == [k \in DOMAIN s |-> IF order = MSB THEN SWAP(s[k]) ELSE s[k]]

Strings == <<0, 5, 6, 0, 7, 0>>

(* header, program headers, strings, section headers.                      *)
Build(order, type, machine, secs, nseg, ndx) ==
  LET phdrs == <<1, 20, 4, 17>>
      stroff == EhdrSize + PhdrSize * nseg
      shoff == stroff + Len(Strings)
      entry(s) == <<s.name, s.type, IF s.type = SHT_STRTAB THEN stroff ELSE 33,
                    IF s.type = SHT_STRTAB THEN Len(Strings) ELSE 18>>
  IN  <<ELF_MAGIC, order>>
        \o Ordered(<<type, machine, EhdrSize, shoff, nseg, Len(secs), ndx>>, order)
        \o Ordered(SubSeq(phdrs, 1, PhdrSize * nseg), order)
        \o Strings
        \o Ordered(IF Len(secs) = 0 THEN << >>
                   ELSE IF Len(secs) = 1 THEN entry(secs[1])
                   ELSE IF Len(secs) = 2 THEN entry(secs[1]) \o entry(secs[2])
                   ELSE entry(secs[1]) \o entry(secs[2]) \o entry(secs[3]), order)

Sct(n, t) == [name |-> n, type |-> t]

SectionLists ==
  { << >>, <<Sct(0, 0)>>, <<Sct(1, 3)>>, <<Sct(0, 0), Sct(4, 3)>>, <<Sct(1, 3), Sct(4, 12)>>,
    <<Sct(0, 0), Sct(2, 1), Sct(4, 3)>>, <<Sct(0, 0), Sct(4, 3), Sct(1, 11)>>,
    <<Sct(1, 3), Sct(6, 1)>>, <<Sct(0, 0), Sct(200, 1), Sct(4, 3)>> }

Kinds == {<<2, 8>>, <<4, 105>>, <<5, 106>>, <<64, 6>>, <<0, 0>>}

Whole ==
  { Build(o, k[1], k[2], s, n, x) :
      o \in {1, MSB}, k \in Kinds, s \in SectionLists, n \in 0 .. 2, x \in {0, 1, 2, 5} }

Cut == { SubSeq(f, 1, Len(f) - c) :
           f \in { Build(o, 2, 8, s, n, x) :
                     o \in {1, MSB}, s \in SectionLists, n \in 0 .. 2, x \in 0 .. 2 },
           c \in {1, 3, 6, 9} }

MCFiles == Whole \cup Cut \cup {<< >>, <<MZIP_MAGIC>>, <<9, 1, 1>>, <<ELF_MAGIC>>}
=============================================================================
