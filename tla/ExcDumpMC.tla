------------------------------- MODULE ExcDumpMC ------------------------------
(* Instances of ExcDump for TLC. *)
EXTENDS ExcDump

Sym(value, section, rank) ==
    [value |-> value, section |-> section, rank |-> rank, useless |-> FALSE, valid |-> TRUE]
Code(vma, size) == [vma |-> vma, size |-> size, code |-> TRUE]
Data(vma, size) == [vma |-> vma, size |-> size, code |-> FALSE]
Obj(s, static, dynamic, synthetic) ==
    [sections |-> s, syms |-> static, dynsyms |-> dynamic, synthsyms |-> synthetic]

(* Symbols in two sections, two at one address, at or outside of the ends   *)
(* of their section (as the linker makes them), of no section, not valid,   *)
(* useless.                                                                 *)
Universe == {Sym(0, 1, 1), Sym(0, 1, 2), Sym(6, 1, 1), Sym(1, 1, 1), Sym(1, 1, 2), Sym(3, 1, 3), Sym(4, 1, 1),
             Sym(1, 2, 1), Sym(4, 2, 2), Sym(5, 2, 1), Sym(3, 0, 1),
             [Sym(2, 1, 1) EXCEPT !.valid = FALSE], [Sym(2, 2, 1) EXCEPT !.useless = TRUE]}
(* Linked: one section after the other; relocatable: all at 0. *)
Linked      == <<Code(1, 3), Data(9, 1), Code(4, 3)>>
Relocatable == <<Code(0, 4), Code(0, 6)>>

Alone == {<<<<Obj(s, S, {}, {})>>>> :
             s \in {Linked, Relocatable}, S \in UNION {kSubset(k, Universe) : k \in 0..4}}

(* Objects with several tables, or with none, one after the other. *)
Full     == Obj(Linked, {Sym(1, 1, 1)}, {Sym(2, 1, 1)}, {Sym(3, 1, 1)})
Stripped == Obj(Linked, {}, {Sym(2, 1, 5)}, {})
Bare     == Obj(Linked, {}, {}, {})
Small    == {Full, Stripped, Bare}
Together == {<<<<o>>, <<p>>>> : o, p \in Small} \cup {<<<<o, p>>>> : o, p \in Small}

SomeLoads == Alone \cup Together
=============================================================================
