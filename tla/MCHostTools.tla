---------------------------- MODULE MCHostTools ----------------------------
(***************************************************************************)
(* The host tools on files of up to three segments in 128 cells: gaps,     *)
(* bss, overlaps, segments in any order, one that runs over the top, one   *)
(* that is cut off by the end of the file, and the one-byte image.         *)
(***************************************************************************)
EXTENDS HostTools

seg(load, offset, paddr, filesz, ms) ==
  [load |-> load, offset |-> offset, paddr |-> paddr, filesz |-> filesz, memsz |-> ms]

Segs ==
  { seg(FALSE, 0, 0, 0, 0),       \* PT_NOTE
    seg(TRUE, 2, 20, 2, 2),       \* text
    seg(TRUE, 4, 23, 1, 3),       \* data and bss behind a gap
    seg(TRUE, 5, 10, 1, 1),       \* one byte
    seg(TRUE, 3, 21, 2, 2),       \* over the text
    seg(TRUE, 6, 30, 3, 3),       \* cut off
    seg(TRUE, 2, 40, 3, 1),       \* memsz < filesz
    seg(TRUE, 2, 120, 2, 20) }    \* over the top of memory

Tables == {<< >>} \cup {<<p>> : p \in Segs} \cup {<<p, q>> : p, q \in Segs}
            \cup {<<p, seg(TRUE, 2, 20, 2, 2), r>> : p, r \in Segs}

MCInputs ==
  [len: {7}, magic: {TRUE}, class: {1}, msb: BOOLEAN, entry: {21}, phdrs: Tables,
   descNul: {TRUE}]
  \cup [len: {7}, magic: BOOLEAN, class: {1, 2}, msb: {TRUE}, entry: {21},
        phdrs: {<<seg(TRUE, 2, 20, 2, 2)>>}, descNul: BOOLEAN]

MCArgvs ==
  { <<"elf2img">>, <<"elf2img", "in">>, <<"elf2img", "in", "out">>,
    <<"elf2img", "in", "out", "desc">>, <<"elf2img", "-m">>,
    <<"elf2img", "-m", "in">>, <<"elf2img", "-m", "in", "out">>,
    <<"elf2img", "-m", "in", "out", "desc">>,
    <<"elf2mzip">>, <<"elf2mzip", "in">>, <<"elf2mzip", "in", "out">> }

MCPackedSizes == {1, 9}
=============================================================================
