---------------------------- MODULE MCRemoteFence ----------------------------
(***************************************************************************)
(* An instance of RemoteFence: pages of two units in an address space of   *)
(* four pages, fifos of one entry.                                         *)
(***************************************************************************)
EXTENDS RemoteFence, TLC

SfenceAsid(a, s, n) == [fn |-> "sfence_vma_asid", asid |-> a, start |-> s, size |-> n]

Sfence(s, n) == [fn |-> "sfence_vma", asid |-> 0, start |-> s, size |-> n]

FenceI == [None EXCEPT !.fn = "fence_i"]

\* Harts 0 and 1 fence each other.  Hart 2 flushes two pages everywhere: its
\* entry is merged with that of hart 0, or skipped, in the fifo of hart 1, and
\* finds the fifo of hart 0 full.
CrossCalls ==
  (0 :> {<<SfenceAsid(1, 2, 2), {1}>>})
  @@ (1 :> {<<FenceI, {0}>>, <<Sfence(2, 6), {0}>>})
  @@ (2 :> {<<SfenceAsid(1, 2, 4), {0, 1, 2}>>})

\* Four harts: the entries of 2 and 3 fill the fifos of 0 and 1, which wait for
\* space in each other's (see README.md).
FullCalls ==
  (0 :> {<<FenceI, {1}>>})
  @@ (1 :> {<<FenceI, {0}>>})
  @@ (2 :> {<<Sfence(2, 2), {0}>>})
  @@ (3 :> {<<Sfence(2, 2), {1}>>})

=============================================================================
