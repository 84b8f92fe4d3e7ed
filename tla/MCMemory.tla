------------------------------ MODULE MCMemory ------------------------------
(* A small machine for TLC: programs with one segment, with two, and with  *)
(* a header that kexec() refuses.                                          *)
EXTENDS Memory

Seg(vaddr, memsz, filesz, w) == [vaddr |-> vaddr, memsz |-> memsz, filesz |-> filesz, w |-> w]

MCPrograms == { <<Seg(0, 2, 2, FALSE)>>,
                <<Seg(0, 1, 1, FALSE), Seg(1, 1, 0, TRUE)>>,
                <<Seg(0, 2, 2, FALSE), Seg(1, 0, 1, TRUE)>> }

MCDeltas == {-3, 1, 3}
=============================================================================
