---- MODULE MCXkbdLayout ----
EXTENDS XkbdLayout

Open(t) == [kind |-> "open", tag |-> t]
Close(t) == [kind |-> "close", tag |-> t]
Num(n, v) == [kind |-> "set", name |-> n, value |-> v, px |-> 0, ks |-> ""]
Text(n, chars, px) == [kind |-> "set", name |-> n, value |-> chars, px |-> px, ks |-> ""]
Ks(n, k) == [kind |-> "set", name |-> n, value |-> 0, px |-> 0, ks |-> k]
Blanks == [kind |-> "blank", tag |-> ""]
Bad == [kind |-> "bad", tag |-> ""]

KeyOf(settings) == <<Open("key")>> \o settings \o <<Close("key")>>
Section(t, lines) == <<Open(t)>> \o lines \o <<Close(t)>>

Global == Section("global", <<Num("repeat_delay", 2), Num("repeat_time", 1), Num("font", 1)>>)
Letter == KeyOf(<<Text("default", 1, 1), Ks("default_ks", "letter"), Text("shift", 1, 2), Ks("shift_ks", "capital"),
                  Text("mod", 1, 1), Ks("mod_ks", "sign")>>)
Sign == KeyOf(<<Text("default", 1, 1), Ks("default_ks", "digit"), Text("shift", 1, 1), Ks("shift_ks", "sign")>>)
Shift == KeyOf(<<Text("default", 3, 2), Ks("default_ks", "shift")>>)
Mod == KeyOf(<<Ks("default_ks", "mod"), Text("img", 1, 2)>>)
Caps == KeyOf(<<Text("default", 3, 2), Ks("default_ks", "Caps_Lock"), Num("key_span_width", 2)>>)
SwitchTo(n) == KeyOf(<<Text("default", 1, 1), Num("switch", n)>>)

\* Two layouts of one and two rows; a keyboard of modifiers without <layout>.
TwoLayouts ==
  Global \o Section("layout", Section("row", Letter \o SwitchTo(1)))
         \o Section("layout", Section("row", SwitchTo(0) \o Sign) \o Section("row", SwitchTo(2)))
Modifiers == Global \o Section("row", Shift \o Letter \o Sign) \o Section("row", Caps \o Mod \o Shift)

MCFiles == {<<<<>>, 5>>, <<Global, 5>>, <<TwoLayouts, 0>>, <<Modifiers, 0>>}
MCLines == {Open("global"), Open("layout"), Open("row"), Open("key"), Open("window"),
            Close("global"), Close("row"), Close("key"), Close("layout"),
            Text("default", 1, 1), Num("font", 1), Num("font", 0), Num("slide_margin", 1),
            Num("obey_capslock", 2), Num("col", 0), Blanks, Bad}
MCWindows == {<<0, 0>>, <<7, 7>>, <<9, 4>>}
MCRoundedDown == {<<2, 4, 10>>, <<3, 6, 6>>}
====
