---------------------------- MODULE MCElfLoader ----------------------------
(***************************************************************************)
(* The ELF loaders on 12-cell address spaces: headers of two cells, table  *)
(* entries of one, and images of one to three segments in every order,     *)
(* bss tail, alignment and overlap that fits.  A header that lies outside  *)
(* the table spells a segment the image does not have.                     *)
(***************************************************************************)
EXTENDS Elf64Loader

ph(load, offset, paddr, filesz, memsz) ==
  [load |-> load, offset |-> offset, paddr |-> paddr,
   filesz |-> filesz, memsz |-> memsz]

MCPhdrs ==
  { ph(FALSE, 0, 0, 0, 0),     \* PT_NULL, PT_NOTE, PT_REGINFO
    ph(TRUE, 4, 2, 2, 2),      \* text
    ph(TRUE, 6, 4, 1, 3),      \* data with a bss tail, next to the text
    ph(TRUE, 7, 8, 0, 2),      \* bss alone
    ph(TRUE, 5, 3, 2, 4),      \* overlaps text and data
    ph(TRUE, 4, 9, 2, 3),      \* up to the top of memory, over the loader
    ph(TRUE, 8, 1, 2, 1),      \* memsz < filesz
    ph(TRUE, 4, 6, 7, 7),      \* longer than a signed length can say
    ph(TRUE, 4, 0, 1, 1) }     \* at address 0

MCGarbage == { ph(FALSE, 3, 1, 1, 1), ph(TRUE, 1, 6, 2, 3) }

Tables ==
  {<< >>} \cup {<<p>> : p \in MCPhdrs} \cup {<<p, q>> : p, q \in MCPhdrs}
          \cup {<<p, q, r>> : p, q, r \in MCPhdrs}

MCImages ==
  [len: {9}, magic: {TRUE}, class: {1}, msb: {TRUE}, entry: {2},
   phoff: {2, 8, 11}, phdrs: Tables]
  \cup
  [len: {9}, magic: {TRUE}, class: {2}, msb: {TRUE}, entry: {2},
   phoff: {2}, phdrs: Tables]
  \cup
  [len: {9}, magic: BOOLEAN, class: 0 .. 2, msb: BOOLEAN, entry: {2},
   phoff: {2, 11}, phdrs: {<< >>, <<ph(TRUE, 4, 2, 2, 2)>>}]

MCLoaderCells == {10}
=============================================================================
