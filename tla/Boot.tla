-------------------------------- MODULE Boot --------------------------------
(***************************************************************************)
(* start_bootloader (main.c): the check for a flash, and then the prompt:  *)
(* the line that c_gets collects key by key (module Console), its split    *)
(* into a kernel name and a command line, the open, the choice of a        *)
(* loader, and the way back to the prompt.  buf and kernel are locals that *)
(* keep what earlier prompts left in them.                                 *)
(*                                                                         *)
(* The loaders are abstract here (Elf32Loader and LzmaLoader detail them): *)
(* they return, or the kernel runs.                                        *)
(***************************************************************************)
EXTENDS Console

CONSTANTS
  Lines,          \* the lines that users have in mind
  KernelLen,      \* the last index of kernel[], 48
  Files,          \* the names on the flash
  Class32,        \* those that are ELF_CLASS_32 files
  ConsoleWord, LzmaWord  \* the needles "console" and "lzma"

ASSUME BootAssumption ==
  /\ KernelLen \in Nat
  /\ \A l \in Lines : Len(l) < n /\ \A k \in 1 .. Len(l) : l[k] \in Chars \cup {"DEL"}
  /\ Class32 \subseteq Files
  /\ ConsoleWord \in Seq(Chars) /\ Len(ConsoleWord) > 0

VARIABLES
  kernel, cmd_line,
  typed,   \* history: the line as the user sees it, keys taken back removed
  pc       \* "start", "prompt", "parse", "open", "lzma", "elf32", "elf64", "kernel",
           \* "aborted" without a flash, "corrupt" when kernel[] has been overrun

bootVars == <<kernel, cmd_line, typed, pc>>
vars == <<getsVars, bootVars>>

Init ==
  /\ GetsInit
  /\ kernel = [[k \in 0 .. KernelLen |-> Junk] EXCEPT ![KernelLen] = NUL]
  /\ cmd_line = << >>
  /\ typed = << >>
  /\ pc = "start"

(* Without a valid flash start_bootloader returns to the start code.       *)
NoFlash ==
  /\ pc = "start" /\ pc' = "aborted"
  /\ UNCHANGED <<getsVars, kernel, cmd_line, typed>>

FlashFound ==
  /\ pc = "start" /\ pc' = "prompt"
  /\ UNCHANGED <<getsVars, kernel, cmd_line, typed>>

-----------------------------------------------------------------------------
(* A key at the prompt.  What is typed stays, for the bound, the beginning *)
(* of one of Lines; in the buffer's last cell any key may come.            *)
Beginnings == UNION {{SubSeq(l, 1, k) : k \in 0 .. Len(l)} : l \in Lines}

LineHandedOver == pc' = IF gets' = "done" THEN "parse" ELSE pc

TypeChar ==
  /\ pc = "prompt" /\ PressChar
  /\ typed' = IF Full(i + 1) THEN typed ELSE Append(typed, b'[i])
  /\ i < n - 1 => typed' \in Beginnings
  /\ LineHandedOver
  /\ UNCHANGED <<kernel, cmd_line>>

TypeErase ==
  /\ pc = "prompt" /\ PressErase
  /\ typed' = IF platform = "c7200" THEN typed ELSE SubSeq(typed, 1, Len(typed) - 1)
  /\ LineHandedOver
  /\ UNCHANGED <<kernel, cmd_line>>

TypeEnter ==
  /\ pc = "prompt" /\ typed \in Lines /\ PressEnter
  /\ LineHandedOver
  /\ UNCHANGED <<kernel, cmd_line, typed>>

-----------------------------------------------------------------------------
ConsoleArg == ConsoleWord \o <<"=">>

(* sprintf(cmd_line, "%s console=ttyS0,%d", cmd_line, baud) formats onto   *)
(* its own argument: the length is taken first, so the text stays.         *)
(* The mutant drops it.                                                    *)
WithConsoleOnly(args) == IF strstr(args, ConsoleWord) THEN args ELSE ConsoleArg

WithConsole(args) ==
  IF strstr(args, ConsoleWord) THEN args ELSE args \o <<Space>> \o ConsoleArg

(* A space: the words behind it are the command line.  The name is copied  *)
(* without a terminator, and kernel[kernel_name_len + 1] is set instead of *)
(* kernel[kernel_name_len].  The mutant forgets the terminator.            *)
NameSplitOpen(k, line, len) == strncpy(k, line, len)

NameSplit(k, line, len) == [strncpy(k, line, len) EXCEPT ![len + 1] = NUL]

ParseWithArgs ==
  /\ pc = "parse"
  /\ LET len == strchr(buf, Space)
     IN  /\ len # -1
         /\ cmd_line' = WithConsole(SubSeq(Str(buf), len + 2, strlen(buf)))
         /\ IF len + 1 > KernelLen
            THEN kernel' = kernel /\ pc' = "corrupt"
            ELSE kernel' = NameSplit(kernel, buf, len) /\ pc' = "open"
  /\ UNCHANGED <<getsVars, typed>>

(* A name alone.                                                           *)
ParseBare ==
  /\ pc = "parse"
  /\ strchr(buf, Space) = -1
  /\ kernel' = strncpy(kernel, buf, KernelLen)
  /\ cmd_line' = ConsoleArg
  /\ pc' = "open"
  /\ UNCHANGED <<getsVars, typed>>

(* "Unable to find": the prompt again.                                     *)
OpenMissing ==
  /\ pc = "open" /\ Str(kernel) \notin Files
  /\ pc' = "prompt" /\ Prompt /\ typed' = << >>
  /\ UNCHANGED <<kernel, cmd_line>>

(* An open file: the loader is chosen by the name, then by the class byte. *)
OpenFile ==
  /\ pc = "open" /\ Str(kernel) \in Files
  /\ pc' = IF strstr(Str(kernel), LzmaWord) THEN "lzma"
           ELSE IF Str(kernel) \in Class32 THEN "elf32" ELSE "elf64"
  /\ UNCHANGED <<getsVars, kernel, cmd_line, typed>>

(* "Fatal error while loading kernel": the prompt again.                   *)
LoaderReturns ==
  /\ pc \in {"lzma", "elf32", "elf64"}
  /\ pc' = "prompt" /\ Prompt /\ typed' = << >>
  /\ UNCHANGED <<kernel, cmd_line>>

(* load_elf64_file has no jump.                                            *)
LoaderStartsKernel ==
  /\ pc \in {"lzma", "elf32"}
  /\ pc' = "kernel"
  /\ UNCHANGED <<getsVars, kernel, cmd_line, typed>>

Next ==
  \/ NoFlash \/ FlashFound
  \/ TypeChar \/ TypeErase \/ TypeEnter
  \/ ParseWithArgs
  \/ ParseBare
  \/ OpenMissing
  \/ OpenFile
  \/ LoaderReturns
  \/ LoaderStartsKernel

Spec == Init /\ [][Next]_vars

-----------------------------------------------------------------------------
(* What was typed, read without the code: the first word and the rest.     *)
Spaces == {k \in 1 .. Len(typed) : typed[k] = Space}
Word1  == SubSeq(typed, 1, IF Spaces = {} THEN Len(typed)
                           ELSE (CHOOSE k \in Spaces : \A j \in Spaces : k <= j) - 1)
Rest   == SubSeq(typed, Len(Word1) + 2, Len(typed))

Parsed == pc \in {"open", "lzma", "elf32", "elf64", "kernel"}

(* A name entered alone is the name that is opened, cut to 48 characters,  *)
(* whatever longer names and garbage earlier prompts left in kernel[].     *)
BareNameExact ==
  Parsed /\ Spaces = {} =>
    Str(kernel) = SubSeq(typed, 1, IF Len(typed) < KernelLen THEN Len(typed) ELSE KernelLen)

(* A name entered with arguments is opened with at most one stray          *)
(* character behind it: the terminator, set one place late, bounds the     *)
(* damage of the characters left in kernel[].                              *)
NameAtMostOneStray ==
  Parsed /\ Spaces # {} =>
    /\ Len(Str(kernel)) \in {Len(Word1), Len(Word1) + 1}
    /\ SubSeq(Str(kernel), 1, Len(Word1)) = Word1

(* The kernel gets the arguments as typed, followed by a console setting   *)
(* unless they have (all but the last letter of) the word "console".       *)
ArgumentsKept ==
  Parsed =>
    LET almost == SubSeq(ConsoleWord, 1, Len(ConsoleWord) - 1)
    IN  /\ Spaces = {} => cmd_line = ConsoleArg
        /\ Spaces # {} => cmd_line \in {Rest, Rest \o <<Space>> \o ConsoleArg}
        /\ Spaces # {} /\ ~Contains(Rest, almost) => cmd_line # Rest

(* main.c: "extract the kernel file name now".                             *)
KernelNameExtracted == Parsed /\ Spaces # {} => Str(kernel) = Word1
=============================================================================
