------------------------------ MODULE ExcDasmCmdMC ----------------------------
(* Instances of ExcDasmCmd for TLC. *)
EXTENDS ExcDasmCmd

(* "f" is part of "ff"; "2" and "5" are addresses, "f" as an address is 0.  *)
SomeStrings == {"f", "2", "5"}
Parts  == {<<"f", "f">>, <<"ff", "f">>}
Number == [s \in SomeStrings |-> CASE s = "2" -> 2 [] s = "5" -> 5 [] OTHER -> 0]

Sym(name, value, section, rank) ==
    [name |-> name, value |-> value, section |-> section, rank |-> rank,
     useless |-> FALSE, valid |-> TRUE]
Code(vma, size) == [vma |-> vma, size |-> size, code |-> TRUE]
Obj(s, static) == [sections |-> s, syms |-> static, dynsyms |-> {}, synthsyms |-> {}]

Linked      == <<Code(1, 3), [Code(0, 9) EXCEPT !.code = FALSE], Code(4, 3)>>
Relocatable == <<Code(0, 3), Code(0, 6)>>
Universe == {Sym("f", 1, 1, 1), Sym("ff", 3, 1, 1), Sym("g", 2, 1, 1), Sym("f", 5, 3, 1), Sym("g", 4, 3, 2),
             Sym("ff", 2, 2, 1)}
Objects == {Obj(Linked, S) : S \in SUBSET Universe} \cup {Obj(Relocatable, S) : S \in SUBSET Universe}
First  == Obj(Linked, {Sym("f", 1, 1, 1), Sym("ff", 3, 1, 1), Sym("g", 5, 3, 1)})
Second == Obj(Relocatable, {Sym("f", 1, 2, 1)})
SomeLoads == {<<<<o>>>> : o \in Objects} \cup {<<<<First, Second>>>>, <<<<Second>>, <<First>>>>}
=============================================================================
