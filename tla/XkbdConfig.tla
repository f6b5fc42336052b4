----------------------------- MODULE XkbdConfig -----------------------------
(***************************************************************************)
(* kb_new of kb.c: the configuration file is read line by line with one    *)
(* flat context, keys and rows are appended to the lists of box.c, the     *)
(* settings go through the setters of button.c, and two passes compute the *)
(* smallest sizes of keys, rows and layouts.                               *)
(*                                                                         *)
(* A line is what the reader makes of it.  Undefined behaviour of the C    *)
(* code (a NULL or uninitialised pointer, a division 0 / 0) is the status  *)
(* "undefined".                                                            *)
(***************************************************************************)
EXTENDS Integers, SequencesExt, FiniteSetsExt

CONSTANTS
  Files,          \* bound: how files begin, and how many lines may follow
  Lines,          \* the lines that may follow
  WindowSizes,    \* sizes main may give the window; 0 means "the smallest"
  CharHeight      \* ascent + descent of the font

\* What stands between two tags: a keyword, a number (the value, and the width
\* of a text), and a keysym.
Numeric(line) == line.kind = "set" => line.value \in Int /\ line.px \in Int
FileLines == UNION {Range(file[1]) : file \in Files}

ASSUME SizesAssumption ==
  /\ \A line \in Lines \cup FileLines : Numeric(line)
  /\ \A file \in Files : file[1] \in Seq(FileLines)
  /\ \A size \in WindowSizes : size = <<size[1], size[2]>> /\ size[1] \in Nat /\ size[2] \in Nat
  /\ CharHeight \in Nat

VARIABLES
  window,         \* the size of the window
  status,         \* "reading", "sized", "running", "exited", "undefined"
  rest,           \* the lines not read yet of how the file begins
  extra,          \* how many more lines may follow
  context,        \* the local context of kb_new
  open,           \* the tags a nested reading would have open
  font,           \* font_info: "none", "fixed" by default, or "chosen" (font_loaded)
  options,        \* the numbers of the global section
  layouts,        \* kb->kbd_layouts, each a sequence of rows of keys
  tmp_box,        \* the row keys are added to, or none
  tmp_but         \* the key settings go to, or none

parser == <<rest, extra, context, open, font, tmp_box, tmp_but>>
config == <<parser, options, layouts>>

None == <<>>
MAX_LAYOUTS == 3
Untidy == <<"untidy">>

\* A row is << layout, row >>, a key << layout, row, key >>.
RowsOf(l) == {layouts[l].rows[r] : r \in DOMAIN layouts[l].rows}
Keys(row) == layouts[row[1]].rows[row[2]].keys
Key(key) == Keys(key)[key[3]]
ChangeKey(b) == [layouts EXCEPT ![tmp_but[1]].rows[tmp_but[2]].keys[tmp_but[3]] = b]
LastRow == <<Len(layouts), Len(layouts[Len(layouts)].rows)>>
LastKey == Append(LastRow, Len(Keys(LastRow)))

box_new == [rows |-> <<>>, w |-> window[1], h |-> window[2], minw |-> 0, minh |-> 0]

NoSymbol == "NoSymbol"
Texts == {"default", "shift", "mod"}
Keysyms == {"default_ks", "shift_ks", "mod_ks"}
Slides == {"slide_up_ks", "slide_down_ks", "slide_left_ks", "slide_right_ks"}
Colours == {"col", "border_col", "down_col", "txt_col", "bg", "fg"}

button_new ==
  [txt |-> [t \in Texts |-> [chars |-> 0, px |-> 0]],
   ks |-> [k \in Keysyms \cup Slides |-> NoSymbol],
   c_width |-> 0, c_height |-> 0, is_width_spec |-> FALSE, key_span_width |-> 0,
   modifier |-> "none", obey |-> FALSE, layout_switch |-> -1, pixmap |-> FALSE,
   scancode |-> 0]

Init ==
  /\ window \in WindowSizes
  /\ status = "reading"
  /\ \E file \in Files : rest = file[1] /\ extra = file[2]
  /\ context = "none"
  /\ open = <<>>
  /\ font \in {"none", "chosen"}    \* with or without -font
  /\ options = [theme |-> "rounded", slide_margin |-> 0, repeat_delay |-> 10, repeat_time |-> 5]
  /\ layouts = <<>>
  /\ tmp_box = None
  /\ tmp_but = None

-----------------------------------------------------------------------------
(* The setters of button.c.  A setting has a name, a number (for a text the *)
(* number of its characters and its width), and a keysym.                   *)

ModifierOf(ks) ==
  IF ks = "Caps_Lock" THEN "caps"
  ELSE IF ks \in {"shift", "ctrl", "alt", "meta", "mod"} THEN ks
  ELSE "none"

\* "!Mod" is no keysym; a letter obeys Caps Lock unless a later line says no.
button_set_txt_ks(b, ks) ==
  [b EXCEPT !.modifier = IF ModifierOf(ks) = "none" THEN @ ELSE ModifierOf(ks),
            !.ks["default_ks"] = IF ks \in {"mod", "unknown"} THEN NoSymbol ELSE ks,
            !.obey = @ \/ ks = "letter"]

button_set_pixmap(b, s) ==
  [b EXCEPT !.pixmap = TRUE, !.c_width = s.px, !.c_height = s.value]

Known(ks) == IF ks = "unknown" THEN NoSymbol ELSE ks

KeySetting(b, s) ==
  CASE s.name \in Texts -> [b EXCEPT !.txt[s.name] = [chars |-> s.value, px |-> s.px]]
    [] s.name = "default_ks" -> button_set_txt_ks(b, s.ks)
    [] s.name \in {"shift_ks", "mod_ks"} -> [b EXCEPT !.ks[s.name] = Known(s.ks)]
    [] s.name \in Slides /\ s.ks # "unknown" -> [b EXCEPT !.ks[s.name] = s.ks]
    [] s.name = "switch" -> [b EXCEPT !.layout_switch = s.value]
    [] s.name = "img" -> button_set_pixmap(b, s)
    [] s.name = "scancode" -> [b EXCEPT !.scancode = s.value]
    [] s.name = "width" -> [b EXCEPT !.is_width_spec = TRUE, !.c_width = s.value]
    [] s.name = "key_span_width" -> [b EXCEPT !.is_width_spec = TRUE, !.key_span_width = s.value]
    [] s.name = "height" -> [b EXCEPT !.c_height = s.value]
    [] s.name = "obey_capslock" -> [b EXCEPT !.obey = (s.value = 1)]
    [] OTHER -> b

\* Number 0 stands for a colour, image or font that does not exist.
Fatal(s) ==
  \/ s.name \in Colours \cup {"img"} /\ s.value = 0
  \/ s.name = "obey_capslock" /\ s.value \notin {0, 1}

\* button_calc_c_width and button_calc_c_height, at the end of a key.
button_calc(b) ==
  [b EXCEPT !.c_width = IF b.pixmap \/ @ # 0 THEN @ ELSE Max({b.txt[t].px : t \in Texts}),
            !.c_height = IF b.pixmap \/ @ # 0 THEN @ ELSE CharHeight]

\* What button_calc reads of the font, before any was loaded.
ReadsNoFont(b) ==
  /\ font = "none"
  /\ ~b.pixmap
  /\ b.c_height = 0 \/ (b.c_width = 0 /\ \E t \in Texts : b.txt[t].chars > 0)

-----------------------------------------------------------------------------
(* The lines of the file.                                                   *)

Children(tag) ==
  CASE tag = "top" -> {"global", "layout", "row"}
    [] tag = "layout" -> {"row"}
    [] tag = "row" -> {"key"}
    [] OTHER -> {}

Innermost == IF open = <<>> THEN "top" ELSE open[Len(open)]

Nest(tag) == IF tag \in Children(Innermost) THEN Append(open, tag) ELSE Untidy

\* The lines that may come next.
NextLines == IF rest = <<>> THEN Lines ELSE {Head(rest)}

Read(line) ==
  /\ status = "reading"
  /\ UNCHANGED window
  /\ IF rest # <<>>
       THEN line = Head(rest) /\ rest' = Tail(rest) /\ UNCHANGED extra
       ELSE line \in Lines /\ extra > 0 /\ extra' = extra - 1 /\ UNCHANGED rest

End(how) ==
  /\ status' = how
  /\ UNCHANGED <<context, open, font, options, layouts, tmp_box, tmp_but>>

OpenGlobal ==
  /\ Read([kind |-> "open", tag |-> "global"])
  /\ context' = "kbddef"
  /\ open' = Nest("global")
  /\ UNCHANGED <<status, font, options, layouts, tmp_box, tmp_but>>

\* The context stays what it was.
OpenLayout ==
  /\ Read([kind |-> "open", tag |-> "layout"])
  /\ IF Len(layouts) = MAX_LAYOUTS
       THEN End("undefined")
       ELSE /\ layouts' = Append(layouts, box_new)
            /\ open' = Nest("layout")
            /\ UNCHANGED <<status, context, font, options, tmp_box, tmp_but>>

AddRow(ls) ==
  [ls EXCEPT ![Len(ls)].rows = Append(@, [keys |-> <<>>, minw |-> 0, minh |-> 0])]

\* Mutant: keys go on being added to the row that has some.
OpenRow_Same ==
  /\ Read([kind |-> "open", tag |-> "row"])
  /\ layouts' = AddRow(IF layouts = <<>> THEN <<box_new>> ELSE layouts)
  /\ tmp_box' = IF tmp_box = None THEN <<1, 1>> ELSE tmp_box
  /\ context' = "rowdef"
  /\ open' = Nest("row")
  /\ UNCHANGED <<status, font, options, tmp_but>>

\* A row before any layout makes the first one.
OpenRow ==
  /\ Read([kind |-> "open", tag |-> "row"])
  /\ layouts' = AddRow(IF layouts = <<>> THEN <<box_new>> ELSE layouts)
  /\ tmp_box' = <<Len(layouts'), Len(layouts'[Len(layouts')].rows)>>
  /\ context' = "rowdef"
  /\ open' = Nest("row")
  /\ UNCHANGED <<status, font, options, tmp_but>>

AddKey(row) ==
  [layouts EXCEPT ![row[1]].rows[row[2]].keys = Append(@, button_new)]

\* box_add_button of the row opened last, whether or not it was closed, and
\* in whatever layout it is.
OpenKey ==
  /\ Read([kind |-> "open", tag |-> "key"])
  /\ IF tmp_box = None
       THEN End("undefined")
       ELSE /\ layouts' = AddKey(tmp_box)
            /\ tmp_but' = Append(tmp_box, Len(Keys(tmp_box)) + 1)
            /\ context' = "keydef"
            /\ open' = Nest("key")
            /\ UNCHANGED <<status, font, options, tmp_box>>

\* Any closing tag ends the context; its name is not looked at.
CloseTag(tag) ==
  /\ Read([kind |-> "close", tag |-> tag])
  /\ IF context = "keydef" /\ ReadsNoFont(Key(tmp_but))
       THEN End("undefined")
       ELSE /\ layouts' = IF context # "keydef" THEN layouts
                          ELSE ChangeKey(button_calc(Key(tmp_but)))
            /\ font' = IF context = "kbddef" /\ font # "chosen" THEN "fixed" ELSE font
            /\ context' = "none"
            /\ open' = IF Innermost = tag THEN Front(open) ELSE Untidy
            /\ UNCHANGED <<status, options, tmp_box, tmp_but>>

\* _kb_load_font tries the fonts of the list in order, until one exists.
NoFont(s) == s.name = "font" /\ font # "chosen" /\ s.value = 0

GlobalSetting(s) ==
  IF NoFont(s) \/ (s.name \in Colours /\ s.value = 0)
    THEN End("exited")
    ELSE /\ font' = IF s.name = "font" THEN "chosen" ELSE font
         /\ options' = IF s.name \in DOMAIN options THEN [options EXCEPT ![s.name] = s.value] ELSE options
         /\ UNCHANGED <<status, context, open, layouts, tmp_box, tmp_but>>

\* A setting outside the global section and the keys is ignored.
Setting(s) ==
  /\ Read(s)
  /\ s.kind = "set"
  /\ CASE context = "kbddef" -> GlobalSetting(s)
       [] context = "keydef" /\ Fatal(s) -> End("exited")
       [] context = "keydef" /\ ~Fatal(s) ->
            /\ layouts' = ChangeKey(KeySetting(Key(tmp_but), s))
            /\ UNCHANGED <<status, context, open, font, options, tmp_box, tmp_but>>
       [] OTHER -> UNCHANGED <<status, context, open, font, options, layouts, tmp_box, tmp_but>>

\* A blank line, a comment or an unknown tag changes nothing; a line that is
\* neither a tag nor two words ends the program.
OtherLine(line) ==
  /\ line.kind \in {"blank", "bad"}
  /\ Read(line)
  /\ End(IF line.kind = "bad" THEN "exited" ELSE status)

-----------------------------------------------------------------------------
(* The end of the file: the two passes.                                     *)

KeysOf(l) == UNION {{row.keys[k] : k \in DOMAIN row.keys} : row \in RowsOf(l)}

SingleChar(b) ==
  /\ ~b.is_width_spec
  /\ ~b.pixmap
  /\ \A t \in Texts : b.txt[t].chars < 2

\* Pass 1 looks at the first layout only.
max_single_char_width == Max({0} \cup {b.c_width : b \in {c \in KeysOf(1) : SingleChar(c)}})
max_single_char_height == 2 + Max({0} \cup {b.c_height : b \in {c \in KeysOf(1) : ~c.is_width_spec}})

SizedKey(b) ==
  [b EXCEPT !.c_height = max_single_char_height,
            !.c_width = IF b.key_span_width # 0 THEN b.key_span_width * max_single_char_width
                        ELSE IF SingleChar(b) THEN max_single_char_width
                        ELSE @]

\* What the first n numbers of a list add up to.
Total(s, n) ==
  LET sum[i \in {0} \cup DOMAIN s] == IF i = 0 THEN 0 ELSE sum[i - 1] + s[i]
  IN sum[n]

SizedRow(row) ==
  LET keys == [k \in DOMAIN row.keys |-> SizedKey(row.keys[k])] IN
    [keys |-> keys,
     minw |-> Total([k \in DOMAIN keys |-> keys[k].c_width], Len(row.keys)),
     minh |-> IF keys = <<>> THEN 0 ELSE max_single_char_height]

\* max_width is not reset between the layouts.
Sized(l) ==
  LET rows(j) == [r \in DOMAIN layouts[j].rows |-> SizedRow(layouts[j].rows[r])]
      height(j) == Total([r \in DOMAIN rows(j) |-> rows(j)[r].minh], Len(layouts[j].rows))
      width(j) == Max({0} \cup {rows(j)[r].minw : r \in DOMAIN rows(j)})
  IN [layouts[l] EXCEPT
        !.rows = rows(l),
        !.minh = height(l),
        !.minw = Max({width(j) : j \in 1..l})]

\* Mutant: the first layout keeps its own height.
TwoPasses_OwnHeight == [l \in DOMAIN layouts |-> Sized(l)]

\* The first layout is as high as the highest.
TwoPasses ==
  LET sized == [l \in DOMAIN layouts |-> Sized(l)] IN
    [sized EXCEPT ![1].minh = Max({sized[l].minh : l \in DOMAIN sized})]

\* Without any layout, kbd_layouts[0] is whatever malloc returned.
EndOfFile ==
  /\ status = "reading"
  /\ rest = <<>>
  /\ status' = IF layouts = <<>> THEN "undefined" ELSE "sized"
  /\ layouts' = IF layouts = <<>> THEN layouts ELSE TwoPasses
  /\ extra' = 0
  /\ context' = "none"
  /\ open' = <<>>
  /\ tmp_box' = None
  /\ tmp_but' = None
  /\ UNCHANGED <<window, rest, font, options>>

ReadLine ==
  \/ OpenGlobal \/ OpenLayout \/ OpenRow \/ OpenKey
  \/ \E tag \in {"global", "layout", "row", "key"} : CloseTag(tag)
  \/ \E line \in NextLines : Setting(line) \/ OtherLine(line)
  \/ EndOfFile

-----------------------------------------------------------------------------
(* Properties. *)

\* In a file that is properly nested, the flat context of the reader is the
\* innermost open tag: settings reach the section or the key they stand in,
\* and keys the row they stand in, which is the last of the last layout.
ContextIsInnermost ==
  status = "reading" /\ open # Untidy =>
    /\ context = "kbddef" <=> Innermost = "global"
    /\ context = "keydef" <=> Innermost = "key"
    /\ Innermost \in {"row", "key"} => tmp_box = LastRow
    /\ Innermost = "key" => tmp_but = LastKey
=============================================================================
