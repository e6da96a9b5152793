----------------------------- MODULE HostTools -----------------------------
(***************************************************************************)
(* The two image tools of elf2mzip/ side by side, and what the files they  *)
(* write must be.                                                          *)
(***************************************************************************)
EXTENDS Elf2Img, Elf2Mzip

Next == Elf2ImgNext \/ Elf2MzipNext

Spec == Init /\ [][Next]_vars

-----------------------------------------------------------------------------
(* The files a linker makes: segments within the file and below the top of *)
(* memory, none larger in the file than in memory, none over another.      *)
Segments == {input.phdrs[k] : k \in Loadable}

Linked ==
  /\ \A p \in Segments : /\ p.offset + p.filesz <= input.len
                         /\ p.filesz <= p.memsz
                         /\ p.paddr + p.memsz < Word
  /\ \A j, k \in Loadable :
       LET p == input.phdrs[j]  q == input.phdrs[k]
       IN  j = k \/ p.paddr + p.memsz <= q.paddr \/ q.paddr + q.memsz <= p.paddr

Lowest  == CHOOSE a \in U32 : /\ \E p \in Segments : p.paddr = a
                              /\ \A p \in Segments : a <= p.paddr
Highest == CHOOSE a \in U32 : /\ \E p \in Segments : p.paddr + p.memsz = a
                              /\ \A p \in Segments : p.paddr + p.memsz <= a

Written == out.kind \in {"raw", "mzip"} /\ failed = "none" /\ Linked

(* What is written is the memory image of the ELF file from its lowest     *)
(* address on: each byte of a segment in its place and 0 between them.     *)
(* elf2img writes all of it, elf2mzip the bytes its segment has.           *)
ImageLaidOut ==
  Written =>
    /\ \A a \in DOMAIN out.body :
         LET here == {p \in Segments : p.paddr <= Lowest + a /\ Lowest + a < p.paddr + p.filesz}
         IN  out.body[a] = IF here = {} THEN ZERO
                           ELSE LET p == CHOOSE p \in here : TRUE
                                IN  p.offset + (Lowest + a - p.paddr)
    /\ argv[1] = "elf2img" => DOMAIN out.body = 0 .. Highest - Lowest - 1

(* The header's values describe that image and the code segment behind it, *)
(* and the written header is in the byte order of the target, all but the  *)
(* hdr_loader_addr of elf2img, which mzip_swap leaves out.                 *)
HeaderDescribes ==
  /\ Written /\ out.kind = "mzip" =>
       /\ out.hdr["entrypt"].v = input.entry
       /\ out.hdr["loader_addr"].v = Lowest
       /\ out.hdr["memory_image_size"].v = Highest - Lowest
       /\ out.hdr["code_unpacked_size"].v = Cardinality(DOMAIN out.body)
       /\ out.hdr["code_packed_size"].v = code.size
  /\ out.kind = "mzip" =>
       \A f \in Field :
         \/ out.hdr[f].v = 0
         \/ out.hdr[f].swapped = input.msb
         \/ f = "loader_addr" /\ argv[1] = "elf2img"

(* Both CRCs are those of the bytes that were written: nothing they cover  *)
(* changes after they are computed, and the one of the header covers the   *)
(* stored one of the code.                                                 *)
CrcsValid ==
  out.kind = "mzip" =>
    /\ out.crcs.code = [fields |-> [f \in TailFields |-> out.hdr[f]], bytes |-> out.body]
    /\ out.crcs.header = [fields |-> [f \in HeadFields |-> out.hdr[f]]]

(* The exit code 0 means that a file has been written (or that there was   *)
(* no memory for the description), a raw one unless -m asks for MZIP; when *)
(* elf2img returns -1 it has left the old output alone.  It writes over    *)
(* the output file, for a command line that names all three files; one of  *)
(* two arguments passes the check of argc and loses the first, its input.  *)
ExitHonest ==
  /\ pc = "exit0" => \/ out.kind = IF argv[1] = "elf2mzip" \/ mzip THEN "mzip" ELSE "raw"
                     \/ failed = "buffer"
  /\ pc = "exit-1" /\ argv[1] = "elf2img" => out.kind = "old"
  /\ argv[1] = "elf2img" /\ out.kind # "old" =>
       file_out = "out" \/ argc = 3

(* For a linked file, as long as no library call fails, the tools leave    *)
(* what C defines in three places only.  elf2mzip given no output takes    *)
(* the NULL behind argv for its name, and elf2img given less than two      *)
(* arguments reads in front of argv, both with the old output still there; *)
(* elf2img -m prints a description without a NUL behind its end, when the  *)
(* output has been cut to nothing and not written.  Laying out the         *)
(* segments, packing them and writing is safe.                             *)
StaysDefined ==
  pc = "undefined" /\ failed = "none" =>
    \/ ~Linked
    \/ argv[1] = "elf2mzip" /\ Len(argv) = 2 /\ out.kind = "old"
    \/ argv[1] = "elf2img" /\ argc < 3 /\ out.kind = "old"
    \/ argv[1] = "elf2img" /\ mzip /\ ~input.descNul /\ out.kind = "empty"
=============================================================================
