------------------------------ MODULE MCStartup ------------------------------
(* Two nodes, an old and a new Pod on the first.  Cards with two chips,    *)
(* with vNPUs of one type, of two, and of none that is known; default      *)
(* templates and files of every outcome.                                   *)
EXTENDS Startup, TLC

CONSTANTS n1, n2, p1, p2, p3

MCNodeOf == (p1 :> n1) @@ (p2 :> n1) @@ (p3 :> n2)

MCImage == (p1 :> "old") @@ (p2 :> "new") @@ (p3 :> "new")

MCTypes == {"vir01", "vir02"}

MCSafe == ("A" :> "a") @@ ("B" :> "b")

Line(kind) == [kind |-> kind]
Row(name, aicore, memory) == [kind |-> "row", template |-> Template(name, aicore, memory)]

Rows == <<Line("header"), Line("text"), Line("rule"), Row("vir01", 4, 8), Row("vir02", 8, 8)>>

OneRow == <<Line("header"), Line("text"), Line("rule"), Row("vir01", 2, 8), Row("vir01", 4, 8)>>

NoRows == <<Line("header"), Line("rule"), Row("vir01", 4, 8)>>

Headless == <<Line("text")>>

Whole(card, chip) == [chip |-> <<card, chip>>, vdevs |-> <<>>]
Split(card, chip, vdevs) == [chip |-> <<card, chip>>, vdevs |-> vdevs]

Machines(chip, lines, devices) == [chip |-> chip, lines |-> lines, devices |-> devices]

Plain(lines) == Machines("A", lines, <<Whole(0, 0)>>)

TwoChips(lines) == Machines("A", lines, <<Whole(0, 0), Split(0, 1, <<"vir02">>)>>)

OneChip(lines) == Machines("B", lines, <<Split(0, 0, <<"vir01", "vir02">>), Split(0, 0, <<"odd">>)>>)

TooMany == Machines("B", None, <<Split(0, 0, <<"vir01", "vir01", "odd">>)>>)

MCFleets ==
  { (n1 :> Plain(Rows)) @@ (n2 :> Plain(OneRow)),
    (n1 :> TwoChips(NoRows)) @@ (n2 :> OneChip(Headless)),
    (n1 :> Plain(None)) @@ (n2 :> TooMany) }

MCOldClasses ==
  LET w == FullCardClass(<<"A">>)
  IN w.name :> [spec |-> [w.spec EXCEPT !.template = "vir01"], version |-> 1]
=============================================================================
