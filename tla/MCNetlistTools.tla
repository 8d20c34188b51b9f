--------------------------- MODULE MCNetlistTools ---------------------------
(***************************************************************************)
(* The instance of the path tools: five components with two pins each, the *)
(* first with one, on four nets that the host gives by their nodes, or by  *)
(* the names of the pins only, in the same or in other letters.  Where the  *)
(* host counts the third net as power too, a search can reach more nets    *)
(* than it takes.                                                          *)
(***************************************************************************)
EXTENDS NetlistTools

Name(word, case) == [word |-> word, case |-> case]
NetNamed == [n \in 0..4 |-> Name(IF n = 0 THEN "" ELSE <<"usb_5v", "vbat", "en", "3v3">>[n], "lower")]
ComponentKinds == <<{"controller", "key", "block"}, {"transfer"}, {"transfer", "peripheral"}, {"transfer", "block"}, {"key", "peripheral"}>>
SheetOf(on, types, mapped, case, power) ==
  [comps |-> ComponentKinds,
   pins |-> [p \in 1..9 |-> [comp |-> <<1, 2, 2, 3, 3, 4, 4, 5, 5>>[p], type |-> types[p],
                             net |-> [NetNamed[on[p]] EXCEPT !.case = case]]],
   nets |-> [n \in 1..4 |-> [name |-> NetNamed[n], role |-> <<"5V", "BAT", "signal", "3V3">>[n], power |-> n \in power,
                             nodes |-> IF mapped THEN SelectSeq([p \in 1..9 |-> p], LAMBDA p : on[p] = n) ELSE <<10>>]]]
Passive == [p \in 1..9 |-> "passive"]
PinTypes == {Passive,
             <<"output", "power_in", "power_out", "power_in", "power_out", "power_in", "input", "none", "tri_state">>,
             <<"none", "tri_state", "none", "power_out", "power_in", "none", "output", "power_in", "input">>}
\* The types of the pins count only where nets are given by their nodes.
Given == (PinTypes \X {<<TRUE, "lower", {2, 4}>>})
         \cup {<<Passive, <<FALSE, "lower", {2, 4}>>>>, <<Passive, <<FALSE, "upper", {2, 4}>>>>,
               <<Passive, <<TRUE, "lower", {2, 3, 4}>>>>}
Sheets == {SheetOf(<<1, 1, b, 1, c, x[1], x[2], t[1], t[2]>>, g[1], g[2][1], g[2][2], g[2][3]) :
             b, c \in {0, 2, 3}, x \in {2, 3} \X {0, 1, 4}, t \in {2, 4} \X {0, 3, 4}, g \in Given}
\* A sheet with nothing but two nets.
NoSheet == [comps |-> <<>>, pins |-> <<>>,
            nets |-> [n \in 1..2 |-> [name |-> NetNamed[n], role |-> <<"5V", "3V3">>[n], power |-> TRUE, nodes |-> <<>>]]]
AllContexts == Sheets \cup {NoSheet}
=============================================================================
