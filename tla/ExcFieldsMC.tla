------------------------------ MODULE ExcFieldsMC -----------------------------
(* Instances of ExcFields for TLC. *)
EXTENDS ExcFields

Line(keys, parts) == [keys |-> keys, parts |-> parts]
Sec(keys, lines) ==
    [keys |-> keys, lines |-> lines, of |-> NULL, sp |-> NULL, base |-> NULL, bottom |-> NULL,
     text |-> "text", more |-> TRUE, count |-> 0]
Stack(key, of, sp, base, bottom, t) ==
    [Sec({key}, <<>>) EXCEPT !.of = of, !.sp = sp, !.base = base, !.bottom = bottom, !.text = t]
Lines(key, count) == [Sec({key}, <<>>) EXCEPT !.count = count]

(* First sections: lines about the same field, a line with two keys. *)
Head1 == Sec({}, <<Line({"User: Rack:"}, {"pos1"}), Line({"registers: pc["}, {}),
                   Line({"Save context of task", "SIGNAL:"}, {"task.tid", "task.name", "signal.signum"}),
                   Line({"stackbase: "}, {"signal.stack.base"}), Line({"Error Address:"}, {}),
                   Line({"ErrorAddr ="}, {})>>)
Head2 == Sec({"Task Stack start"}, <<Line({"Find dead lock in thread "}, {"task.name"}),
                   Line({"task id   :"}, {}), Line({"Job Name  :"}, {}), Line({"Job ID    :"}, {}),
                   Line({}, {})>>)

(* Sections of one record. *)
Tables == {Sec({"Information of Task Start"}, <<Line({"The task is a"}, {}), Line({"Task Name   :"}, {}),
                                                Line({"Thread id   :"}, {})>>),
           Sec({"Information of job start"}, <<Line({"Job name       :"}, {}), Line({"Job SvrId      :"}, {})>>),
           Sec({"Board Position start", "Code Segment Start"}, <<Line({"Rack:", "User: Rack:"}, {"pos3"})>>),
           Sec({"Current Exception Context Start"}, <<Line({"pc   ="}, {"signal.funcname"})>>),
           Sec({"Job Stack Info Start", "Job Stack start"}, <<>>)}
Stacks == {Stack("Task Stack start", NULL, 5, 4, 9, "text"), Stack("Task Stack start", NULL, 0, 4, 9, "blank"),
           Stack("Task Stack start", NULL, 5, NULL, 9, "text"), Stack("Job Stack start", NULL, 6, 3, 8, "text"),
           Stack(" stack from ", "task", NULL, 2, 7, "text"), Stack(" stack from ", "job", NULL, 2, 7, "blank"),
           Stack(" stack from ", "job", NULL, 2, NULL, "none"), Stack(" stack from ", NULL, NULL, 2, 7, "text")}
Registers == {[Sec({"Exception Registers Start"}, <<>>) EXCEPT !.sp = 1], Sec({"Exception Registers Start"}, <<>>),
              [Sec({"Exception Registers Start"}, <<>>) EXCEPT !.sp = 1, !.more = FALSE]}
Arrays == {Lines("ProcSelf SoInfo Start", 1), Lines("ProcSelf SoInfo Start", 3),
           Lines("Function Calling Trace Start", 0), Lines("Function Calling Trace Start", 2),
           Lines("Track function call list...", 1)}
Sections == Tables \cup Stacks \cup Registers \cup Arrays

Exc(type, head, rest) == [errtype |-> type, phases |-> <<head>> \o rest]
(* All records of up to two sections after the first, with registers, a     *)
(* third one; records one after the other.                                  *)
Upto2 == {<<>>} \cup {<<a>> : a \in Sections} \cup {<<a, b>> : a, b \in Sections}
One == {<<Exc("exc", Head1, s)>> : s \in Upto2} \cup {<<Exc("deadlock", Head2, s)>> : s \in Upto2}
WithRegisters == {<<Exc("exc", Head2, <<a, b, c>>)>> : a, c \in Stacks \cup Tables, b \in Registers}
Two == {<<Exc("exc", Head1, <<a>>), Exc("deadloop", Head2, <<b>>)>> : a, b \in Sections}

SomeTexts == One \cup WithRegisters \cup Two
=============================================================================
