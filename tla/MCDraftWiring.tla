---------------------------- MODULE MCDraftWiring ----------------------------
EXTENDS DraftWiring, TLC

Ground == [id |-> "n1", name |-> "GND", words |-> {}, power |-> TRUE]
Usb == [id |-> "n2", name |-> "USB_5V", words |-> {}, power |-> TRUE]
Five == [id |-> "n3", name |-> "5V", words |-> {}, power |-> TRUE]
Clock == [id |-> "n4", name |-> "I2S_WS", words |-> {}, power |-> FALSE]
Key == [id |-> "n5", name |-> "KEY", words |-> {"key"}, power |-> FALSE]

SpecNames == [GND |-> "GND", USB_5V |-> "5V", I2S_WS |-> "I2S_LRCK", I2S_LRCK |-> "I2S_LRCK", KEY |-> "KEY"]
  @@ ("1" :> "1") @@ ("2" :> "2") @@ ("5V" :> "5V") @@ ("3V3" :> "3V3") @@ ("EN" :> "EN") @@ ("MCU_EN" :> "MCU_EN")
RepairNames == [SpecNames EXCEPT !["I2S_WS"] = "I2S_WS"]
Jacks == <<"J1", "J2", "J3", "J4", "J5">>

Part(ref, role, kinds, stands, value, words) ==
  [NoPart EXCEPT !.id = "board " \o role, !.ref = ref, !.role = role, !.stands = stands, !.value = value, !.words = words]
    @@ [kinds |-> kinds]
RuleTable == <<
  [word |-> "esp32-s3", nets |-> <<"3V3", "EN">>, parts |-> <<
     Part("C1", "mcu_decoupling_small", {"decoupling"}, {"decoupling"}, "0.1uF", {}),
     Part("C3", "mcu_bulk_cap", {}, {"decoupling"}, "10uF", {}),
     Part("R1", "en_pullup", {"pull"}, {"pull"}, "10k", {}),
     Part("S1", "reset_button", {}, {}, "", {"key"})>>],
  [word |-> "key", nets |-> <<>>, parts |-> <<Part("R8", "button_pullup", {"pull"}, {"pull"}, "10k", {"key"})>>]>>
BoardPart(ref, role, value, net) == [NoPart EXCEPT !.id = "board " \o role, !.ref = ref, !.role = role, !.value = value, !.net = net]
BoardTable == <<
  [model |-> "esp32-s3", parts |-> <<
     BoardPart("C_AUTO_BULK", "mcu_bulk_decoupling", "10uF", "3V3"),
     BoardPart("C_AUTO_LOCAL", "mcu_local_decoupling", "0.1uF", "3V3"),
     BoardPart("R_AUTO_EN", "mcu_en_pullup", "10k", "MCU_EN"),
     BoardPart("C_AUTO_EN", "mcu_en_rc", "1uF", "MCU_EN")>>],
  [model |-> "rp2040", parts |-> <<
     BoardPart("SW_AUTO", "reset_button", "", "MCU_EN"),
     BoardPart("R_AUTO", "reset_pullup", "10k", "3V3")>>]>>
Anchors == <<"esp32-s3", "rp2040">>
Roles == {"", "mcu_decoupling_small", "mcu_bulk_cap", "en_pullup", "reset_button", "button_pullup", "mcu_bulk_decoupling",
          "mcu_local_decoupling", "mcu_en_pullup", "mcu_en_rc", "reset_pullup"}
RoleNames == [r \in Roles |->
  CASE r = "mcu_decoupling_small" -> "mcu_local_decoupling" [] r = "mcu_bulk_decoupling" -> "mcu_bulk_cap"
    [] r = "en_pullup" -> "mcu_en_pullup" [] OTHER -> r]

Comp(id, ref, words, stands) == [NoPart EXCEPT !.id = id, !.ref = ref, !.words = words, !.stands = stands]
\* "D+" is rewritten in the name of a property.
PropertyNames == [n \in {"1", "2"} |-> n] @@ ("D+" :> "D_")
Pin(id, comp, label, source) == [id |-> id, comp |-> comp, name |-> label, labels |-> {label}, source |-> source]
Conn(net, pins) == [net |-> net, pins |-> pins]
End(ref, label) == [ref |-> ref, label |-> label]
Req(from, to, net) == [from |-> from, to |-> to, net |-> net]

\* A list may name pins that no component has: x1, x2 and x3.
Strange == <<"x1", "x2", "x3", "a1">>
Lists == {<<>>, <<"a1">>, <<"b1">>, <<"a1", "a2">>, <<"b1", "a1">>, <<"b1", "b1">>}
Wirings == {[comps |-> <<Comp("a", refs[1], {}, {}), Comp("b", refs[2], {}, {})>>,
             pins |-> <<Pin("a1", "a", "1", FALSE), Pin("a2", "a", IF refs[2] = "U1" THEN "D+" ELSE "2", FALSE), Pin("b1", "b", "1", refs[1] = "J1")>>,
             nets |-> on[1], required |-> required,
             conns |-> <<Conn(on[2][1], x), Conn(on[2][2], y), Conn(on[2][3], z)>>] :
              refs \in {<<"U1", "R1">>, <<"U1", "U1">>, <<"J1", "R1">>},
              on \in {<<<<Ground, Five, Clock>>, <<"GND", "5V", "USB_5V">>>>, <<<<Ground, Usb, Five>>, <<"I2S_WS", "5V", "USB_5V">>>>,
                      <<<<Usb, Clock>>, <<"5V", "I2S_WS", "I2S_LRCK">>>>, <<<<Ground, Usb, Clock>>, <<"I2S_LRCK", "I2S_WS", "5V">>>>},
              required \in {<<>>, <<Req(End("U1", "1"), End("R1", "1"), "5V")>>,
                            <<Req(End("U1", "2"), End("J1", "1"), "5V"), Req(End("R1", "1"), End("J1", "GND"), "GND")>>,
                            <<Req(End("U1", "2"), End("J1", "1"), "GND"), Req(End("R1", "1"), End("J1", "1"), "5V")>>,
                            <<Req(End("R1", "1"), End("U1", "2"), "I2S_WS"), Req(End("U1", "2"), End("R1", "1"), "USB_5V")>>},
              x, y \in Lists, z \in Lists \cup {Strange}}
Supported == {[comps |-> <<Comp("a", "U1", {main}, {}), Comp("b", other[1], {}, other[2])>>,
               pins |-> <<Pin("a1", "a", "1", FALSE), Pin("b1", "b", "1", FALSE)>>,
               nets |-> nets, required |-> <<>>, conns |-> <<Conn("3V3", <<"a1", "b1">>)>>] :
                main \in {"esp32-s3", "rp2040", "key"},
                other \in {<<"R1", {}>>, <<"R1", {"pull"}>>, <<"C1", {"decoupling"}>>, <<"C7", {"decoupling"}>>, <<"S1", {}>>, <<"U2", {}>>},
                nets \in {<<Ground, [Five EXCEPT !.name = "3V3"]>>, <<Key>>}}
\* Power nets that are named like the number of a header's pin.
Numbered == {[comps |-> <<Comp("a", "U1", {}, {})>>, pins |-> <<Pin("a1", "a", "1", FALSE)>>,
              nets |-> <<Ground, [Five EXCEPT !.name = n]>>, required |-> <<>>, conns |-> <<Conn(n, <<"a1">>)>>] : n \in {"1", "2"}}
\* Two pins of one name, on two nets.
Alike == [comps |-> <<Comp("a", "U1", {}, {})>>, pins |-> <<Pin("a1", "a", "1", FALSE), Pin("a2", "a", "1", FALSE)>>,
          nets |-> <<Ground, Clock>>, required |-> <<>>, conns |-> <<Conn("GND", <<"a1">>), Conn("I2S_WS", <<"a2">>)>>]
NoDesign == [comps |-> <<>>, pins |-> <<>>, nets |-> <<>>, required |-> <<>>, conns |-> <<>>]
AllDesigns == Wirings \cup Supported \cup Numbered \cup {Alike, NoDesign}
=============================================================================
