------------------------------- MODULE ExcDasmMC ------------------------------
(* Small instances of ExcDasm for TLC. *)
EXTENDS ExcDasm

CONSTANTS f, g, h   (* names of functions *)

Fun(name, start, end) == [name |-> name, code_start |-> start, code_end |-> end]
ProgramOf(functions)      == [vma_offset |-> 0, functions |-> functions]
LibAt(base, functions) == [vma_offset |-> base, functions |-> functions]

(* Two functions, then a library with a function at its own address 0, and  *)
(* one without symbols; a library loaded over the program.                  *)
Program == ProgramOf(<<Fun(f, 2, 4), Fun(g, 4, 6)>>)
Shared0 == LibAt(8, <<Fun(h, 0, 2), Fun(NULL, 2, 4)>>)
Over    == LibAt(2, <<Fun(NULL, 0, 1), Fun(g, 1, 4)>>)
SomeLibraries == {<<Program>>, <<Program, Shared0>>, <<Program, Over>>,
                  <<Over, Shared0>>}

(* Exceptions with a pc, and dead locks, that have none. *)
Pcs == {0, 2, 3, 5, 8, 10}
SomeChains == UNION {[1..n -> Pcs] : n \in 1..3}
=============================================================================
