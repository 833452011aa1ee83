-------------------------------- MODULE Loader --------------------------------
(***************************************************************************)
(* Programs on their way into memory: build.c packs the files of user/bin  *)
(* into the kernel's image (src/link_app.S), loader.c finds one by name,   *)
(* checks its header and loads its segments. Byte o of file n is the pair  *)
(* <<n, o>>, so that a byte in the wrong place is told apart. os_main      *)
(* loads the first program once the kernel's address space (KernelSpace)   *)
(* is set up. A process's frames and tables are in KernelMem; here its     *)
(* address space maps page numbers.                                        *)
(***************************************************************************)
EXTENDS KernelSpace, Sequences, SequencesExt

CONSTANTS
  Align,         \* .align 3 in front of every file
  Names,         \* file names, as numbers in the order of strcmp
  Files          \* what a file may be: [len, elf, phdr], phdr a sequence of headers

ASSUME LoaderAssumption == Align \in Nat \ {0} /\ Names \subseteq Nat

VARIABLES
  file,          \* the directory: file[n] is the file with that name
  _num_app,      \* the table: the count, the start of every file, the end of the last
  _app_names,
  data,          \* the .data section behind it
  pc, app,       \* what the kernel does, and the program it is loading
  start,         \* metadata.start
  i, j,          \* locals of load_segment
  ustack, base_size,
  pages          \* pages[v]: the page at page number v, for the pages that are mapped

image == <<file, _num_app, _app_names, data>>
proc == <<ustack, base_size, pages>>
loader == <<image, pc, app, start, i, j, proc>>
vars == <<kernel, loader>>

PF_X == 1
PF_W == 2
PF_R == 4
PT_LOAD == 1
Pad == <<-1, 0>>

PGROUNDUP(sz) == ((sz + PAGE_SIZE - 1) \div PAGE_SIZE) * PAGE_SIZE
AlignUp(n) == ((n + Align - 1) \div Align) * Align
Bytes(n) == [o \in 1..file[n].len |-> <<n, o - 1>>]

NoPages == [v \in {} |-> 0]

-----------------------------------------------------------------------------
\* insert_app_data of build.c, and the assembler.  Readdir gives the names in
\* any order; qsort puts them into this one.
insert_app_data ==
  LET order == SetToSortSeq(DOMAIN file, <)
      place(acc, n) == acc \o [o \in 1..(AlignUp(Len(acc)) - Len(acc)) |-> Pad] \o Bytes(n)
      prefix(m) == FoldLeft(place, <<>>, SubSeq(order, 1, m))
  IN  /\ _app_names = order
      /\ data = prefix(Len(order))
      /\ _num_app = <<Len(order)>>
           \o [m \in 1..Len(order) |-> AlignUp(Len(prefix(m - 1)))]
           \o <<Len(prefix(Len(order)))>>

Init ==
  /\ KernelInit
  /\ \E some \in SUBSET Names \ {{}} : file \in [some -> Files]
  /\ insert_app_data
  /\ pc = "boot" /\ app = -1 /\ start = 0 /\ i = 1 /\ j = 0
  /\ ustack = 0 /\ base_size = 0 /\ pages = NoPages

-----------------------------------------------------------------------------
\* C indexes from 0.
get_app_data(app_id) == _num_app[app_id + 1]

Header(m) == file[app].phdr[m]
Memory(a) == IF a + 1 \in DOMAIN data THEN data[a + 1] ELSE Pad

\* elf_check reads the header at start, whosever it is.
elf_check(s) == s + 1 \in DOMAIN data /\ file[data[s + 1][1]].elf

Begin(n, s) ==
  /\ app' = n /\ start' = s
  /\ pc' = IF elf_check(s) THEN "segments" ELSE "panic"
  /\ i' = 1 /\ j' = 0
  /\ ustack' = 0 /\ base_size' = 0 /\ pages' = NoPages
  /\ UNCHANGED image

\* os_main: load_app(0), after kvminit
load_app ==
  /\ pc = "boot" /\ satp # 0
  /\ Begin(_app_names[1], get_app_data(1))

\* exec of a name that is there; of another the kernel panics (UserApps).
get_app_data_by_name(path) ==
  /\ pc = "loaded"
  /\ \E m \in {n \in DOMAIN _app_names : _app_names[n] = path} : Begin(path, get_app_data(m))

map_size(phdr) == PGROUNDUP(phdr.memsz)

\* load_segment: a header that is done, or that is not PT_LOAD
NextHeader ==
  /\ pc = "segments" /\ i <= Len(file[app].phdr)
  /\ Header(i).type # PT_LOAD \/ j >= map_size(Header(i))
  /\ ustack' = IF Header(i).type = PT_LOAD THEN Header(i).vaddr + Header(i).memsz ELSE ustack
  /\ i' = i + 1 /\ j' = 0
  /\ UNCHANGED <<image, pc, app, start, base_size, pages>>

\* mutant: every page of a segment is copied from its first
CopyFirstPage(from) == [b \in 0..(PAGE_SIZE - 1) |-> Memory(start + Header(i).offset + b)]

copy_page(from) == [b \in 0..(PAGE_SIZE - 1) |-> Memory(start + from + b)]

\* One page of a segment: a whole page is copied, whatever p_filesz says.
LoadPage ==
  /\ pc = "segments" /\ i <= Len(file[app].phdr)
  /\ Header(i).type = PT_LOAD /\ j < map_size(Header(i))
  /\ \E v \in {(Header(i).vaddr + j) \div PAGE_SIZE} :
       /\ pages' = [w \in DOMAIN pages \cup {v} |->
                      IF w = v
                      THEN [bytes |-> copy_page(Header(i).offset + j),
                            flags |-> Header(i).flags]
                      ELSE pages[w]]
       /\ pc' = IF v \in DOMAIN pages THEN "panic" ELSE pc
  /\ j' = j + PAGE_SIZE
  /\ UNCHANGED <<image, app, start, i, ustack, base_size>>

\* mutant: the stack is put right behind the segments
StackBehind(end) == PAGE_SIZE + PGROUNDUP(end)

StackAt(end) == 2 * PAGE_SIZE + PGROUNDUP(end)

MapStack ==
  /\ pc = "segments" /\ i > Len(file[app].phdr)
  /\ ustack' = StackAt(ustack)
  /\ base_size' = ustack'
  /\ \E v \in {(ustack' - PAGE_SIZE) \div PAGE_SIZE} :
       /\ pages' = [w \in DOMAIN pages \cup {v} |->
                      IF w = v THEN [bytes |-> [b \in 0..(PAGE_SIZE - 1) |-> Pad],
                                     flags |-> PF_R + PF_W]
                      ELSE pages[w]]
       /\ pc' = IF v \in DOMAIN pages THEN "panic" ELSE "loaded"
  /\ UNCHANGED <<image, app, start, i, j>>

\* The steps of os_main, then those of each exec.
Next ==
  \/ kvm_step /\ UNCHANGED loader
  \/ /\ load_app \/ (\E n \in DOMAIN file : get_app_data_by_name(n))
        \/ NextHeader \/ LoadPage \/ MapStack
     /\ UNCHANGED kernel

Spec == Init /\ [][Next]_vars

-----------------------------------------------------------------------------
LoadHeaders == {h \in Range(file[app].phdr) : h.type = PT_LOAD}

\* What a reference loader does: byte b of segment h of program n has a page
\* with the segment's rights, and if it is in the file it is byte p_offset + b
\* of file n, wherever build.c has put the file in the kernel's image.
LoadsTheFile ==
  pc = "loaded" =>
    \A h \in LoadHeaders : \A b \in 0..(h.memsz - 1) :
      LET a == h.vaddr + b
      IN  /\ a \div PAGE_SIZE \in DOMAIN pages
          /\ pages[a \div PAGE_SIZE].flags = h.flags
          /\ b < h.filesz =>
               pages[a \div PAGE_SIZE].bytes[a % PAGE_SIZE] = <<app, h.offset + b>>

\* "the two pages behind the program, one to separate and one for the stack":
\* the stack is the last page below ustack and base_size, which fork copies and
\* exit frees, and the page under it is not mapped.
StackSeparated ==
  pc = "loaded" =>
    LET top == ustack \div PAGE_SIZE
    IN  /\ top - 1 \in DOMAIN pages /\ top - 2 \notin DOMAIN pages
        /\ \A v \in DOMAIN pages : v < base_size \div PAGE_SIZE

=============================================================================
