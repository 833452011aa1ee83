------------------------------- MODULE MCLoader -------------------------------
(***************************************************************************)
(* Files like those of os/user/bin, with pages of two bytes: text from the *)
(* second page of the file on, a header that is not loaded, and a .bss     *)
(* that begins on a page of its own (os/user/user.ld) and may be absent    *)
(* from the file.                                                          *)
(***************************************************************************)
EXTENDS Loader

Text(size) ==
  [type |-> PT_LOAD, offset |-> 2, vaddr |-> 4, filesz |-> size, memsz |-> size, flags |-> PF_R + PF_X]

Note == [type |-> 4, offset |-> 0, vaddr |-> 0, filesz |-> 1, memsz |-> 1, flags |-> PF_R]

Data(va, filesz, memsz) ==
  [type |-> PT_LOAD, offset |-> 0, vaddr |-> va, filesz |-> filesz, memsz |-> memsz, flags |-> PF_R + PF_W]

MCFiles ==
  {[len |-> 2 + t, elf |-> TRUE, phdr |-> <<Text(t), Note, Data(4 + PGROUNDUP(t), d, m)>>] :
     t \in 1..4, d \in 0..2, m \in 2..3}
  \cup {[len |-> 3, elf |-> TRUE, phdr |-> <<Text(1)>>],
        [len |-> 1, elf |-> FALSE, phdr |-> <<>>]}

=============================================================================
