-------------------------- MODULE XkbdLayoutProofs --------------------------
(***************************************************************************)
(* Proofs about XkbdConfig and XkbdLayout, for any file, any window and    *)
(* any font: where the settings of a file go, when a held key repeats,     *)
(* what is drawn, and where the keys are.                                  *)
(***************************************************************************)
EXTENDS XkbdLayout, SequenceTheorems, FiniteSetTheorems, WellFoundedInduction, TLAPS

-----------------------------------------------------------------------------
(* The lists of layouts, rows and keys while a file is read. *)

\* Rows and layouts whose keys are in S; their sizes are computed at the end.
Row(S) == [keys : Seq(S), minw : {0}, minh : {0}]
Layout(S) ==
  [rows : Seq(Row(S)), w : {window[1]}, h : {window[2]}, minw : {0}, minh : {0}]

LEMMA MoreKeys ==
  ASSUME NEW S, NEW T, S \subseteq T
  PROVE  /\ Seq(Row(S)) \subseteq Seq(Row(T))
         /\ Seq(Layout(S)) \subseteq Seq(Layout(T))
<1>1. Seq(S) \subseteq Seq(T)
  OBVIOUS
<1>2. Row(S) \subseteq Row(T)
  BY <1>1 DEF Row
<1>3. Seq(Row(S)) \subseteq Seq(Row(T))
  BY <1>2
<1>4. Layout(S) \subseteq Layout(T)
  BY <1>3 DEF Layout
<1>5. Seq(Layout(S)) \subseteq Seq(Layout(T))
  BY <1>4
<1> QED
  BY <1>3, <1>5

\* An assignment to a place that does not exist changes nothing.
LEMMA Replaced ==
  ASSUME NEW S, NEW s \in Seq(S), NEW i, NEW x, i \in 1..Len(s) => x \in S
  PROVE  /\ [s EXCEPT ![i] = x] \in Seq(S)
         /\ Len([s EXCEPT ![i] = x]) = Len(s)
         /\ \A j \in 1..Len(s) : j # i => [s EXCEPT ![i] = x][j] = s[j]
         /\ i \in 1..Len(s) => [s EXCEPT ![i] = x][i] = x
<1> DEFINE t == [s EXCEPT ![i] = x]
<1>1. Len(s) \in Nat /\ DOMAIN s = 1..Len(s) /\ \A j \in 1..Len(s) : s[j] \in S
  BY LenProperties, ElementOfSeq
<1>2. DOMAIN t = 1..Len(s)
  BY <1>1
<1>3. \A j \in 1..Len(s) : t[j] \in S
  BY <1>1
<1>4. t = [j \in 1..Len(s) |-> t[j]]
  BY <1>1
<1>5. t \in [1..Len(s) -> S]
  <2> HIDE DEF t
  <2> QED
    BY <1>3, <1>4
<1>6. t \in Seq(S)
  BY <1>1, <1>5, SeqDef
<1>7. Len(t) = Len(s)
  <2> HIDE DEF t
  <2> QED
    BY <1>1, <1>2, <1>6, LenProperties
<1> QED
  BY <1>1, <1>6, <1>7

\* box_add_button and the setters of button.c change the keys of one row, and
\* add no row and no layout.
RowChanged(ls, l, r, keys) == [ls EXCEPT ![l].rows[r].keys = keys]

LEMMA RowChange ==
  ASSUME NEW S, NEW ls \in Seq(Layout(S)), NEW l, NEW r, NEW keys,
         l \in 1..Len(ls) /\ r \in 1..Len(ls[l].rows) => keys \in Seq(S)
  PROVE  /\ RowChanged(ls, l, r, keys) \in Seq(Layout(S))
         /\ Len(RowChanged(ls, l, r, keys)) = Len(ls)
         /\ \A j \in 1..Len(ls) :
              Len(RowChanged(ls, l, r, keys)[j].rows) = Len(ls[j].rows)
         /\ l \in 1..Len(ls) /\ r \in 1..Len(ls[l].rows) =>
              RowChanged(ls, l, r, keys)[l].rows[r].keys = keys
<1> DEFINE row == [ls[l].rows[r] EXCEPT !.keys = keys]
           rows == [ls[l].rows EXCEPT ![r] = row]
           layout == [ls[l] EXCEPT !.rows = rows]
           new == [ls EXCEPT ![l] = layout]
<1>1. RowChanged(ls, l, r, keys) = new
  BY DEF RowChanged
<1>2. l \in 1..Len(ls) => ls[l] \in Layout(S)
  BY ElementOfSeq
<1>3. l \in 1..Len(ls) => ls[l].rows \in Seq(Row(S))
  BY <1>2 DEF Layout
<1>4. l \in 1..Len(ls) /\ r \in 1..Len(ls[l].rows) => row \in Row(S) /\ row.keys = keys
  <2> SUFFICES ASSUME l \in 1..Len(ls), r \in 1..Len(ls[l].rows)
               PROVE  row \in Row(S) /\ row.keys = keys
    OBVIOUS
  <2>1. ls[l].rows[r] \in Row(S)
    BY <1>3, ElementOfSeq
  <2> QED
    BY <2>1 DEF Row
<1>5. l \in 1..Len(ls) =>
        /\ rows \in Seq(Row(S)) /\ Len(rows) = Len(ls[l].rows)
        /\ r \in 1..Len(ls[l].rows) => rows[r] = row
  <2> HIDE DEF row
  <2> QED
    BY <1>3, <1>4, Replaced
<1>6. l \in 1..Len(ls) => layout \in Layout(S) /\ layout.rows = rows
  <2> HIDE DEF rows
  <2> QED
    BY <1>2, <1>5 DEF Layout
<1>7. /\ new \in Seq(Layout(S)) /\ Len(new) = Len(ls)
      /\ \A j \in 1..Len(ls) : j # l => new[j] = ls[j]
      /\ l \in 1..Len(ls) => new[l] = layout
  <2> HIDE DEF layout
  <2> QED
    BY <1>6, Replaced
<1> HIDE DEF new, layout, rows, row
<1>8. \A j \in 1..Len(ls) : Len(new[j].rows) = Len(ls[j].rows)
  BY <1>5, <1>6, <1>7
<1>9. l \in 1..Len(ls) /\ r \in 1..Len(ls[l].rows) => new[l].rows[r].keys = keys
  BY <1>4, <1>5, <1>6, <1>7
<1> QED
  BY <1>1, <1>7, <1>8, <1>9

\* box_add_row: the last of the layouts gets a row without keys.
LEMMA RowAdded ==
  ASSUME NEW S, NEW ls \in Seq(Layout(S)), ls # <<>>
  PROVE  /\ AddRow(ls) \in Seq(Layout(S))
         /\ AddRow(ls) # <<>>
         /\ AddRow(ls)[Len(AddRow(ls))].rows # <<>>
<1> DEFINE n == Len(ls)
           row == [keys |-> <<>>, minw |-> 0, minh |-> 0]
           rows == Append(ls[n].rows, row)
           layout == [ls[n] EXCEPT !.rows = rows]
           new == [ls EXCEPT ![n] = layout]
<1>1. AddRow(ls) = new
  BY DEF AddRow
<1>2. n \in 1..n
  BY LenProperties, EmptySeq
<1>3. ls[n] \in Layout(S)
  BY <1>2, ElementOfSeq
<1>4. ls[n].rows \in Seq(Row(S))
  BY <1>3 DEF Layout
<1>5. row \in Row(S)
  <2>1. <<>> \in Seq(S)
    OBVIOUS
  <2> QED
    BY <2>1 DEF Row
<1>6. rows \in Seq(Row(S)) /\ rows # <<>>
  <2> HIDE DEF row
  <2> QED
    BY <1>4, <1>5, AppendProperties
<1>7. layout \in Layout(S) /\ layout.rows = rows
  <2> HIDE DEF rows
  <2> QED
    BY <1>3, <1>6 DEF Layout
<1>8. new \in Seq(Layout(S)) /\ Len(new) = n /\ new[n] = layout
  <2> HIDE DEF layout
  <2> QED
    BY <1>2, <1>7, Replaced
<1>9. new # <<>>
  <2> HIDE DEF new
  <2> QED
    BY <1>2, <1>8, EmptySeq
<1> QED
  BY <1>1, <1>6, <1>7, <1>8, <1>9

\* A new layout is as large as the window and has no rows.
LEMMA LayoutAdded ==
  ASSUME NEW S, NEW ls \in Seq(Layout(S))
  PROVE  /\ Append(ls, box_new) \in Seq(Layout(S))
         /\ <<box_new>> \in Seq(Layout(S))
<1>1. box_new \in Layout(S)
  <2>1. <<>> \in Seq(Row(S))
    OBVIOUS
  <2> QED
    BY <2>1 DEF box_new, Layout
<1> HIDE DEF box_new
<1> QED
  BY <1>1, AppendProperties

-----------------------------------------------------------------------------
(* The open tags. *)

Tags == {"global", "layout", "row", "key"}

\* Each open tag stands in one that may hold it.
Nested ==
  /\ open \in Seq(Tags)
  /\ \A i \in 1..Len(open) : open[i] \in Children(IF i = 1 THEN "top" ELSE open[i - 1])

LEMMA ChildrenOf ==
  /\ Children("top") = {"global", "layout", "row"}
  /\ Children("global") = {}
  /\ Children("layout") = {"row"}
  /\ Children("row") = {"key"}
  /\ Children("key") = {}
  /\ Children("untidy") = {}
  /\ \A tag : Children(tag) # {} => tag \in {"top", "layout", "row"}
BY DEF Children

LEMMA UntidyStays ==
  ASSUME open = Untidy
  PROVE  Innermost = "untidy" /\ \A tag : Nest(tag) = Untidy
<1>1. Innermost = "untidy"
  BY DEF Innermost, Untidy
<1> QED
  BY <1>1, ChildrenOf DEF Nest

\* An opening tag that is kept is the innermost one.
LEMMA TagOpened ==
  ASSUME open # Untidy => Nested, NEW tag \in Tags,
         open' = Nest(tag), open' # Untidy
  PROVE  Nested' /\ Innermost' = tag /\ tag \in Children(Innermost) /\ open # Untidy
<1>1. open # Untidy /\ Nested
  BY UntidyStays
<1>2. tag \in Children(Innermost) /\ open' = Append(open, tag)
  BY DEF Nest
<1>3. open \in Seq(Tags) /\ tag \in Tags
  <2>1. open \in Seq(Tags)
    BY <1>1 DEF Nested
  <2> QED
    BY <2>1
<1>4. /\ open' \in Seq(Tags) /\ Len(open') = Len(open) + 1 /\ open'[Len(open) + 1] = tag
      /\ \A i \in 1..Len(open) : open'[i] = open[i]
      /\ Len(open) \in Nat /\ (open = <<>> <=> Len(open) = 0)
  BY <1>2, <1>3, AppendProperties, LenProperties, EmptySeq
<1>5. open' # <<>>
  BY <1>4, EmptySeq
<1>6. Innermost' = tag
  BY <1>4, <1>5 DEF Innermost
<1>7. ASSUME NEW i \in 1..Len(open')
      PROVE  open'[i] \in Children(IF i = 1 THEN "top" ELSE open'[i - 1])
  <2>1. CASE i \in 1..Len(open)
    <3>1. open[i] \in Children(IF i = 1 THEN "top" ELSE open[i - 1])
      BY <1>1, <2>1 DEF Nested
    <3>2. i # 1 => open'[i - 1] = open[i - 1]
      BY <1>4, <2>1
    <3> QED
      BY <1>4, <2>1, <3>1, <3>2
  <2>2. CASE i = Len(open) + 1
    <3>1. Innermost = IF i = 1 THEN "top" ELSE open'[i - 1]
      BY <1>4, <2>2 DEF Innermost
    <3> QED
      BY <1>2, <1>4, <2>2, <3>1
  <2> QED
    BY <1>4, <2>1, <2>2
<1> QED
  BY <1>1, <1>2, <1>4, <1>6, <1>7 DEF Nested

\* A closing tag that fits leaves the tag around it, which may hold it.
LEMMA TagClosed ==
  ASSUME open # Untidy => Nested, NEW tag \in Tags,
         open' = (IF Innermost = tag THEN Front(open) ELSE Untidy), open' # Untidy
  PROVE  /\ open # Untidy /\ Nested' /\ Innermost = tag
         /\ tag \in Children(Innermost')
<1>1. open # Untidy /\ Nested /\ Innermost = tag /\ open' = Front(open)
  <2>1. tag # "untidy"
    BY DEF Tags
  <2> QED
    BY <2>1, UntidyStays
<1>2. open \in Seq(Tags) /\ open # <<>> /\ tag = open[Len(open)]
  <2>1. tag # "top" /\ open \in Seq(Tags)
    BY <1>1 DEF Tags, Nested
  <2> QED
    BY <1>1, <2>1 DEF Innermost
<1>3. Len(open) \in Nat \ {0}
  BY <1>2, LenProperties, EmptySeq
<1>4. open' = SubSeq(open, 1, Len(open) - 1)
  BY <1>1 DEF Front
<1>5. /\ open' \in Seq(Tags) /\ Len(open') = Len(open) - 1
      /\ \A i \in 1..Len(open') : open'[i] = open[i]
  BY <1>2, <1>3, <1>4, SubSeqProperties
<1> DEFINE n == Len(open)
           m == Len(open')
<1>10. n \in Nat /\ m \in Nat /\ n = m + 1 /\ (m = 0 <=> open' = <<>>)
  BY <1>3, <1>5, LenProperties, EmptySeq
<1>6. \A i \in 1..Len(open) : open[i] \in Children(IF i = 1 THEN "top" ELSE open[i - 1])
  BY <1>1 DEF Nested
<1>7. Nested'
  <2>1. \A i \in 1..Len(open') :
          open'[i] \in Children(IF i = 1 THEN "top" ELSE open'[i - 1])
    BY <1>3, <1>5, <1>6
  <2> QED
    BY <1>5, <2>1 DEF Nested
<1>8. Innermost' = IF Len(open) = 1 THEN "top" ELSE open[Len(open) - 1]
  <2>1. open' = <<>> <=> n = 1
    <3> HIDE DEF n, m
    <3> QED
      BY <1>10
  <2>2. n # 1 => m \in 1..m /\ m = n - 1
    <3> HIDE DEF n, m
    <3> QED
      BY <1>10
  <2>3. n # 1 => open'[m] = open[n - 1]
    BY <1>5, <2>2
  <2> QED
    BY <2>1, <2>3 DEF Innermost
<1>9. open[Len(open)] \in Children(IF Len(open) = 1 THEN "top" ELSE open[Len(open) - 1])
  <2>1. n \in 1..Len(open)
    BY <1>3
  <2> HIDE DEF n
  <2>2. open[n] \in Children(IF n = 1 THEN "top" ELSE open[n - 1])
    BY <1>6, <2>1
  <2> QED
    BY <2>2 DEF n
<1> QED
  BY <1>1, <1>2, <1>7, <1>8, <1>9

-----------------------------------------------------------------------------
(* Where the settings of a file go. *)

\* The row keys are added to is the last of the last layout.
InLastRow ==
  /\ layouts # <<>>
  /\ layouts[Len(layouts)].rows # <<>>
  /\ tmp_box = LastRow

InPlace ==
  /\ Nested
  /\ context = "kbddef" <=> Innermost = "global"
  /\ context = "keydef" <=> Innermost = "key"
  /\ Innermost \in {"row", "key"} => InLastRow
  /\ Innermost = "key" => tmp_but = LastKey

ReadInv ==
  status = "reading" =>
    /\ \E S : layouts \in Seq(Layout(S))
    /\ open # Untidy => InPlace

LEMMA ShapeKept ==
  ASSUME NEW ls, NEW S, ls \in Seq(Layout(S)), UNCHANGED window, layouts' = ls
  PROVE  \E T : layouts' \in Seq(Layout(T)')
<1>1. Layout(S)' = Layout(S)
  BY DEF Layout
<1> QED
  BY <1>1

LEMMA Third ==
  ASSUME NEW a, NEW b, NEW c
  PROVE  Append(<<a, b>>, c) = <<a, b, c>>
<1> SUFFICES ASSUME NEW T, T = {a, b, c}, NEW s, s = <<a, b>>, NEW t, t = <<a, b, c>>
             PROVE  Append(s, c) = t
  OBVIOUS
<1>1. s \in Seq(T) /\ Len(s) = 2 /\ s[1] = a /\ s[2] = b
  OBVIOUS
<1>2. t \in Seq(T) /\ Len(t) = 3 /\ t[1] = a /\ t[2] = b /\ t[3] = c
  OBVIOUS
<1>3. c \in T
  OBVIOUS
<1>4. /\ Append(s, c) \in Seq(T) /\ Len(Append(s, c)) = 3
      /\ Append(s, c)[1] = a /\ Append(s, c)[2] = b /\ Append(s, c)[3] = c
  <2>1. /\ Append(s, c) \in Seq(T) /\ Len(Append(s, c)) = Len(s) + 1
        /\ \A i \in 1..Len(s) : Append(s, c)[i] = s[i]
        /\ Append(s, c)[Len(s) + 1] = c
    BY <1>1, <1>3, AppendProperties
  <2>2. 1 \in 1..Len(s) /\ 2 \in 1..Len(s) /\ Len(s) + 1 = 3
    BY <1>1
  <2> QED
    BY <1>1, <2>1, <2>2
<1>5. Append(s, c) = t
  <2>1. \A i \in 1..3 : Append(s, c)[i] = t[i]
    BY <1>2, <1>4
  <2>2. Len(Append(s, c)) = Len(t) /\ \A i \in 1..Len(Append(s, c)) : Append(s, c)[i] = t[i]
    BY <1>2, <1>4, <2>1
  <2> QED
    BY <1>2, <1>4, <2>2, SeqEqual
<1> QED
  BY <1>5

\* A change of the keys of one row leaves the last row the last.
LEMMA LastRowKept ==
  ASSUME NEW S, layouts \in Seq(Layout(S)), InLastRow, UNCHANGED tmp_box,
         NEW l, NEW r, NEW keys, layouts' = RowChanged(layouts, l, r, keys),
         l \in 1..Len(layouts) /\ r \in 1..Len(layouts[l].rows) => keys \in Seq(S)
  PROVE  /\ InLastRow'
         /\ LastRow' = LastRow
         /\ LastRow = <<l, r>> => LastKey' = <<l, r, Len(keys)>>
<1>1. /\ layouts' \in Seq(Layout(S)) /\ Len(layouts') = Len(layouts)
      /\ \A j \in 1..Len(layouts) : Len(layouts'[j].rows) = Len(layouts[j].rows)
      /\ l \in 1..Len(layouts) /\ r \in 1..Len(layouts[l].rows) =>
           layouts'[l].rows[r].keys = keys
  BY RowChange
<1> DEFINE n == Len(layouts)
<1>2. n \in 1..n
  BY LenProperties, EmptySeq DEF InLastRow
<1>3. layouts[n].rows \in Seq(Row(S)) /\ layouts'[n].rows \in Seq(Row(S))
  <2>1. layouts[n] \in Layout(S) /\ layouts'[n] \in Layout(S)
    BY <1>1, <1>2, ElementOfSeq
  <2> QED
    BY <2>1 DEF Layout
<1>4. Len(layouts[n].rows) \in 1..Len(layouts[n].rows)
  BY <1>3, LenProperties, EmptySeq DEF InLastRow
<1>5. Len(layouts'[n].rows) = Len(layouts[n].rows)
  BY <1>1, <1>2
<1>6. layouts' # <<>> /\ layouts'[n].rows # <<>>
  <2>1. Len(layouts') # 0 /\ Len(layouts'[n].rows) # 0
    BY <1>1, <1>2, <1>4, <1>5
  <2> QED
    BY <2>1, EmptySeq
<1>7. LastRow' = LastRow
  BY <1>1, <1>5 DEF LastRow
<1>8. InLastRow'
  BY <1>1, <1>6, <1>7 DEF InLastRow
<1>9. ASSUME LastRow = <<l, r>>
      PROVE  LastKey' = <<l, r, Len(keys)>>
  <2>1. l = n /\ r = Len(layouts[n].rows)
    BY <1>9 DEF LastRow
  <2>2. layouts'[l].rows[r].keys = keys
    BY <1>1, <1>2, <1>4, <2>1
  <2>3. Keys(LastRow)' = keys
    BY <1>7, <1>9, <2>2 DEF Keys
  <2>4. LastKey' = Append(<<l, r>>, Len(keys))
    BY <1>7, <1>9, <2>3 DEF LastKey
  <2> QED
    BY <2>4, Third
<1> QED
  BY <1>7, <1>8, <1>9

\* The settings of a key go to the key they stand in.
LEMMA KeyChanged ==
  ASSUME NEW S, layouts \in Seq(Layout(S)), NEW b, layouts' = ChangeKey(b),
         UNCHANGED <<window, tmp_box, tmp_but>>
  PROVE  /\ \E T : layouts' \in Seq(Layout(T)')
         /\ InLastRow => InLastRow'
         /\ InLastRow /\ tmp_but = LastKey => tmp_but' = LastKey'
<1> DEFINE l == tmp_but[1]
           r == tmp_but[2]
           old == layouts[l].rows[r].keys
           keys == [old EXCEPT ![tmp_but[3]] = b]
           T == S \cup {b}
<1>1. layouts' = RowChanged(layouts, l, r, keys)
  BY DEF ChangeKey, RowChanged
<1>2. layouts \in Seq(Layout(T))
  BY MoreKeys
<1>3. l \in 1..Len(layouts) /\ r \in 1..Len(layouts[l].rows) => old \in Seq(T)
  <2> SUFFICES ASSUME l \in 1..Len(layouts), r \in 1..Len(layouts[l].rows)
               PROVE  old \in Seq(T)
    OBVIOUS
  <2>1. layouts[l] \in Layout(T)
    BY <1>2, ElementOfSeq
  <2>2. layouts[l].rows \in Seq(Row(T))
    BY <2>1 DEF Layout
  <2>3. layouts[l].rows[r] \in Row(T)
    BY <2>2, ElementOfSeq
  <2> QED
    BY <2>3 DEF Row
<1>4. l \in 1..Len(layouts) /\ r \in 1..Len(layouts[l].rows) =>
        keys \in Seq(T) /\ Len(keys) = Len(old)
  <2>1. b \in T
    OBVIOUS
  <2> HIDE DEF old, T
  <2> QED
    BY <1>3, <2>1, Replaced
<1> HIDE DEF T
<1>5. layouts' \in Seq(Layout(T))
  <2> HIDE DEF keys
  <2> QED
    BY <1>1, <1>2, <1>4, RowChange
<1>6. \E U : layouts' \in Seq(Layout(U)')
  BY <1>5, ShapeKept
<1>7. InLastRow => InLastRow'
  <2> HIDE DEF keys
  <2> QED
    BY <1>1, <1>2, <1>4, LastRowKept
<1>8. ASSUME InLastRow, tmp_but = LastKey
      PROVE  tmp_but' = LastKey'
  <2> DEFINE n == Len(layouts)
             m == Len(layouts[n].rows)
  <2>1. LastRow = <<n, m>>
    BY DEF LastRow
  <2>2. LastKey = <<n, m, Len(Keys(LastRow))>>
    BY <2>1, Third DEF LastKey
  <2>3. l = n /\ r = m /\ LastRow = <<l, r>>
    BY <1>8, <2>1, <2>2
  <2>4. n \in 1..n
    BY <1>8, LenProperties, EmptySeq DEF InLastRow
  <2>5. m \in 1..m
    <3>1. layouts[n] \in Layout(T)
      BY <1>2, <2>4, ElementOfSeq
    <3>2. layouts[n].rows \in Seq(Row(T))
      BY <3>1 DEF Layout
    <3> QED
      BY <1>8, <3>2, LenProperties, EmptySeq DEF InLastRow
  <2>6. Keys(LastRow) = old
    BY <2>3 DEF Keys
  <2>7. Len(keys) = Len(old)
    BY <1>4, <2>3, <2>4, <2>5
  <2>8. LastKey' = <<l, r, Len(keys)>>
    <3> HIDE DEF keys, l, r
    <3> QED
      BY <1>1, <1>2, <1>4, <1>8, <2>3, LastRowKept
  <2> QED
    BY <1>8, <2>2, <2>3, <2>6, <2>7, <2>8
<1> QED
  BY <1>6, <1>7, <1>8

LEMMA ReadingIs ==
  ASSUME NEW line, Read(line)
  PROVE  status = "reading" /\ window' = window
BY DEF Read

\* A step after which the file is read no more has nothing to keep.
LEMMA ReadingEnds ==
  ASSUME status' # "reading"
  PROVE  ReadInv'
BY DEF ReadInv

LEMMA ReadNothing ==
  ASSUME ReadInv, status = "reading",
         UNCHANGED <<window, context, open, layouts, tmp_box, tmp_but>>
  PROVE  ReadInv'
<1>1. \E S : layouts' \in Seq(Layout(S)')
  BY ShapeKept DEF ReadInv
<1>2. open' # Untidy => InPlace'
  BY DEF ReadInv, InPlace, InLastRow, Nested, Innermost, LastRow, LastKey, Keys
<1> QED
  BY <1>1, <1>2 DEF ReadInv

LEMMA GlobalOpened ==
  ASSUME ReadInv, OpenGlobal
  PROVE  ReadInv'
<1>1. status = "reading" /\ UNCHANGED <<window, layouts, tmp_box, tmp_but>>
      /\ context' = "kbddef" /\ open' = Nest("global")
  BY ReadingIs DEF OpenGlobal
<1>2. \E S : layouts' \in Seq(Layout(S)')
  BY <1>1, ShapeKept DEF ReadInv
<1>3. ASSUME open' # Untidy
      PROVE  InPlace'
  <2>1. Nested' /\ Innermost' = "global"
    BY <1>1, <1>3, TagOpened DEF ReadInv, InPlace, Tags
  <2> QED
    BY <1>1, <2>1 DEF InPlace
<1> QED
  BY <1>2, <1>3 DEF ReadInv

LEMMA LayoutOpened ==
  ASSUME ReadInv, OpenLayout
  PROVE  ReadInv'
<1>1. CASE Len(layouts) = MAX_LAYOUTS
  BY <1>1, ReadingEnds DEF OpenLayout, End
<1>2. CASE Len(layouts) # MAX_LAYOUTS
  <2>1. /\ status = "reading" /\ UNCHANGED <<window, context, tmp_box, tmp_but>>
        /\ layouts' = Append(layouts, box_new) /\ open' = Nest("layout")
    BY <1>2, ReadingIs DEF OpenLayout
  <2>2. \E S : layouts' \in Seq(Layout(S)')
    BY <2>1, LayoutAdded, ShapeKept DEF ReadInv
  <2>3. ASSUME open' # Untidy
        PROVE  InPlace'
    <3>1. /\ Nested' /\ Innermost' = "layout" /\ "layout" \in Children(Innermost)
          /\ open # Untidy
      BY <2>1, <2>3, TagOpened DEF ReadInv, InPlace, Tags
    <3>2. Innermost \notin {"global", "key"}
      BY <3>1, ChildrenOf
    <3>3. context \notin {"kbddef", "keydef"}
      BY <2>1, <3>1, <3>2 DEF ReadInv, InPlace
    <3> QED
      BY <2>1, <3>1, <3>3 DEF InPlace
  <2> QED
    BY <2>2, <2>3 DEF ReadInv
<1> QED
  BY <1>1, <1>2

LEMMA RowOpened ==
  ASSUME ReadInv, OpenRow
  PROVE  ReadInv'
<1> DEFINE ls == IF layouts = <<>> THEN <<box_new>> ELSE layouts
<1>1. /\ status = "reading" /\ window' = window
      /\ layouts' = AddRow(ls)
      /\ tmp_box' = LastRow'
      /\ context' = "rowdef"
      /\ open' = Nest("row")
  BY ReadingIs DEF OpenRow, LastRow
<1>2. PICK S : layouts \in Seq(Layout(S))
  BY <1>1 DEF ReadInv
<1>3. ls \in Seq(Layout(S)) /\ ls # <<>>
  <2>1. <<box_new>> # <<>>
    BY EmptySeq
  <2> QED
    BY <1>2, <2>1, LayoutAdded
<1> HIDE DEF ls
<1>4. /\ layouts' \in Seq(Layout(S)) /\ layouts' # <<>>
      /\ layouts'[Len(layouts')].rows # <<>>
  BY <1>1, <1>3, RowAdded
<1>5. \E T : layouts' \in Seq(Layout(T)')
  BY <1>1, <1>4, ShapeKept
<1>6. InLastRow'
  BY <1>1, <1>4 DEF InLastRow
<1>7. ASSUME open' # Untidy
      PROVE  InPlace'
  <2>1. Nested' /\ Innermost' = "row"
    BY <1>1, <1>7, TagOpened DEF ReadInv, InPlace, Tags
  <2> QED
    BY <1>1, <1>6, <2>1 DEF InPlace
<1> QED
  BY <1>5, <1>7 DEF ReadInv

LEMMA KeyOpened ==
  ASSUME ReadInv, OpenKey
  PROVE  ReadInv'
<1>1. CASE tmp_box = None
  BY <1>1, ReadingEnds DEF OpenKey, End
<1>2. CASE tmp_box # None
  <2>1. /\ status = "reading" /\ UNCHANGED <<window, tmp_box>>
        /\ layouts' = AddKey(tmp_box)
        /\ tmp_but' = Append(tmp_box, Len(Keys(tmp_box)) + 1)
        /\ context' = "keydef"
        /\ open' = Nest("key")
    BY <1>2, ReadingIs DEF OpenKey
  <2>2. PICK S0 : layouts \in Seq(Layout(S0))
    BY <2>1 DEF ReadInv
  <2>3. PICK S : layouts \in Seq(Layout(S)) /\ button_new \in S
    <3>1. layouts \in Seq(Layout(S0 \cup {button_new}))
      BY <2>2, MoreKeys
    <3> QED
      BY <3>1
  <2> DEFINE l == tmp_box[1]
             r == tmp_box[2]
             old == layouts[l].rows[r].keys
             keys == Append(old, button_new)
  <2>4. layouts' = RowChanged(layouts, l, r, keys)
    BY <2>1 DEF AddKey, RowChanged
  <2>5. l \in 1..Len(layouts) /\ r \in 1..Len(layouts[l].rows) => old \in Seq(S)
    <3> SUFFICES ASSUME l \in 1..Len(layouts), r \in 1..Len(layouts[l].rows)
                 PROVE  old \in Seq(S)
      OBVIOUS
    <3>1. layouts[l] \in Layout(S)
      BY <2>3, ElementOfSeq
    <3>2. layouts[l].rows \in Seq(Row(S))
      BY <3>1 DEF Layout
    <3>3. layouts[l].rows[r] \in Row(S)
      BY <3>2, ElementOfSeq
    <3> QED
      BY <3>3 DEF Row
  <2>6. l \in 1..Len(layouts) /\ r \in 1..Len(layouts[l].rows) =>
          keys \in Seq(S) /\ Len(keys) = Len(old) + 1
    <3> HIDE DEF old
    <3> QED
      BY <2>3, <2>5, AppendProperties
  <2>7. layouts' \in Seq(Layout(S))
    <3> HIDE DEF keys
    <3> QED
      BY <2>3, <2>4, <2>6, RowChange
  <2>8. \E T : layouts' \in Seq(Layout(T)')
    BY <2>1, <2>7, ShapeKept
  <2>9. ASSUME open' # Untidy
        PROVE  InPlace'
    <3>1. /\ Nested' /\ Innermost' = "key" /\ "key" \in Children(Innermost)
          /\ open # Untidy
      BY <2>1, <2>9, TagOpened DEF ReadInv, InPlace, Tags
    <3>2. Innermost = "row"
      BY <3>1, ChildrenOf DEF Children
    <3>3. InLastRow
      BY <2>1, <3>1, <3>2 DEF ReadInv, InPlace
    <3> DEFINE n == Len(layouts)
               m == Len(layouts[n].rows)
    <3>4. LastRow = <<n, m>> /\ tmp_box = LastRow
      BY <3>3 DEF LastRow, InLastRow
    <3>5. l = n /\ r = m
      BY <3>4
    <3>6. n \in 1..n
      BY <2>3, <3>3, LenProperties, EmptySeq DEF InLastRow
    <3>7. m \in 1..m
      <4>1. layouts[n] \in Layout(S)
        BY <2>3, <3>6, ElementOfSeq
      <4>2. layouts[n].rows \in Seq(Row(S))
        BY <4>1 DEF Layout
      <4> QED
        BY <3>3, <4>2, LenProperties, EmptySeq DEF InLastRow
    <3>8. Len(keys) = Len(Keys(tmp_box)) + 1
      BY <2>6, <3>5, <3>6, <3>7 DEF Keys
    <3>9. tmp_but' = <<l, r, Len(keys)>>
      BY <2>1, <3>4, <3>5, <3>8, Third
    <3>10. LastRow = <<l, r>>
      BY <3>4, <3>5
    <3>11. InLastRow' /\ LastKey' = <<l, r, Len(keys)>>
      <4> HIDE DEF keys, l, r
      <4> QED
        BY <2>1, <2>3, <2>4, <2>6, <3>3, <3>10, LastRowKept
    <3> QED
      BY <2>1, <3>1, <3>9, <3>11 DEF InPlace
  <2> QED
    BY <2>8, <2>9 DEF ReadInv
<1> QED
  BY <1>1, <1>2

LEMMA TagClosedStep ==
  ASSUME ReadInv, NEW tag \in Tags, CloseTag(tag)
  PROVE  ReadInv'
<1>1. CASE context = "keydef" /\ ReadsNoFont(Key(tmp_but))
  BY <1>1, ReadingEnds DEF CloseTag, End
<1>2. CASE ~(context = "keydef" /\ ReadsNoFont(Key(tmp_but)))
  <2>1. /\ status = "reading" /\ UNCHANGED <<window, tmp_box, tmp_but>>
        /\ layouts' = IF context # "keydef" THEN layouts
                      ELSE ChangeKey(button_calc(Key(tmp_but)))
        /\ context' = "none"
        /\ open' = IF Innermost = tag THEN Front(open) ELSE Untidy
    BY <1>2, ReadingIs DEF CloseTag
  <2>2. PICK S : layouts \in Seq(Layout(S))
    BY <2>1 DEF ReadInv
  <2>3. (\E T : layouts' \in Seq(Layout(T)')) /\ (InLastRow => InLastRow')
    <3>1. CASE context # "keydef"
      <4>1. layouts' = layouts
        BY <2>1, <3>1
      <4>2. \E T : layouts' \in Seq(Layout(T)')
        BY <2>1, <2>2, <4>1, ShapeKept
      <4> QED
        BY <2>1, <4>1, <4>2 DEF InLastRow, LastRow
    <3>2. CASE context = "keydef"
      <4>1. layouts' = ChangeKey(button_calc(Key(tmp_but)))
        BY <2>1, <3>2
      <4> QED
        BY <2>1, <2>2, <4>1, KeyChanged
    <3> QED
      BY <3>1, <3>2
  <2>4. ASSUME open' # Untidy
        PROVE  InPlace'
    <3>1. open # Untidy /\ Nested' /\ Innermost = tag /\ tag \in Children(Innermost')
      BY <2>1, <2>4, TagClosed DEF ReadInv, InPlace
    <3>2. Innermost' \notin {"global", "key"}
      BY <3>1, ChildrenOf
    <3>3. Innermost' = "row" => Innermost = "key"
      BY <3>1, ChildrenOf
    <3>4. Innermost = "key" => InLastRow
      BY <2>1, <3>1 DEF ReadInv, InPlace
    <3>5. Innermost' = "row" => InLastRow'
      BY <2>3, <3>3, <3>4
    <3> QED
      BY <2>1, <3>1, <3>2, <3>5 DEF InPlace
  <2> QED
    BY <2>3, <2>4 DEF ReadInv
<1> QED
  BY <1>1, <1>2

LEMMA SettingStep ==
  ASSUME ReadInv, NEW s, Setting(s)
  PROVE  ReadInv'
<1>1. status = "reading" /\ window' = window
  BY ReadingIs DEF Setting
<1>2. CASE status' # "reading"
  BY <1>2, ReadingEnds
<1>3. CASE UNCHANGED <<context, open, layouts, tmp_box, tmp_but>>
  BY <1>1, <1>3, ReadNothing
<1>4. CASE /\ layouts' = ChangeKey(KeySetting(Key(tmp_but), s))
           /\ UNCHANGED <<context, open, tmp_box, tmp_but>>
  <2>1. PICK S : layouts \in Seq(Layout(S))
    BY <1>1 DEF ReadInv
  <2>2. /\ \E T : layouts' \in Seq(Layout(T)')
        /\ InLastRow => InLastRow'
        /\ InLastRow /\ tmp_but = LastKey => tmp_but' = LastKey'
    BY <1>1, <1>4, <2>1, KeyChanged
  <2>3. Innermost' = Innermost /\ (Nested => Nested')
    BY <1>4 DEF Innermost, Nested
  <2>4. ASSUME open' # Untidy
        PROVE  InPlace'
    <3>1. InPlace
      BY <1>1, <1>4, <2>4 DEF ReadInv
    <3> QED
      BY <1>4, <2>2, <2>3, <3>1 DEF InPlace
  <2> QED
    BY <2>2, <2>4 DEF ReadInv
<1>5. \/ status' # "reading"
      \/ UNCHANGED <<context, open, layouts, tmp_box, tmp_but>>
      \/ /\ layouts' = ChangeKey(KeySetting(Key(tmp_but), s))
         /\ UNCHANGED <<context, open, tmp_box, tmp_but>>
  <2>1. CASE context = "kbddef"
    BY <2>1 DEF Setting, GlobalSetting, End
  <2>2. CASE context = "keydef" /\ Fatal(s)
    BY <2>2 DEF Setting, End
  <2>3. CASE context = "keydef" /\ ~Fatal(s)
    BY <2>3 DEF Setting
  <2>4. CASE context \notin {"kbddef", "keydef"}
    BY <2>4 DEF Setting
  <2> QED
    BY <2>1, <2>2, <2>3, <2>4
<1> QED
  BY <1>2, <1>3, <1>4, <1>5

LEMMA OtherLineStep ==
  ASSUME ReadInv, NEW line, OtherLine(line)
  PROVE  ReadInv'
BY ReadingIs, ReadNothing DEF OtherLine, End

\* No line of a file breaks it, and once the file is read it is read no more.
LEMMA ReadInvStep ==
  ASSUME ReadInv, [Next]_vars
  PROVE  ReadInv'
<1>1. CASE ReadLine
  <2>1. CASE EndOfFile
    BY <2>1, ReadingEnds DEF EndOfFile
  <2>2. ASSUME NEW tag \in {"global", "layout", "row", "key"}, CloseTag(tag)
        PROVE  ReadInv'
    BY <2>2, TagClosedStep DEF Tags
  <2>3. ASSUME NEW line \in NextLines, Setting(line) \/ OtherLine(line)
        PROVE  ReadInv'
    BY <2>3, SettingStep, OtherLineStep
  <2> QED
    BY <1>1, <2>1, <2>2, <2>3, GlobalOpened, LayoutOpened, RowOpened, KeyOpened
       DEF ReadLine
<1>2. CASE Realize
  BY <1>2, ReadingEnds DEF Realize, Stop
<1>3. CASE Expose \/ Poll \/ PollHeld
  BY <1>3, ReadingEnds DEF Expose, Poll, PollHeld
<1>4. CASE ButtonRelease
  BY <1>4, ReadingEnds DEF ButtonRelease, kb_switch_layout
<1>5. ASSUME NEW size \in WindowSizes, Configure(size)
      PROVE  ReadInv'
  BY <1>5, ReadingEnds DEF Configure
<1>6. ASSUME status = "running", NEW p \in Clicked, ButtonPress(p)
      PROVE  ReadInv'
  BY <1>6, ReadingEnds DEF ButtonPress
<1>7. CASE UNCHANGED vars
  <2>1. UNCHANGED <<window, status, context, open, layouts, tmp_box, tmp_but>>
    BY <1>7 DEF vars, config, parser
  <2> QED
    BY <2>1, ReadNothing, ReadingEnds DEF ReadInv
<1> QED
  BY <1>1, <1>2, <1>3, <1>4, <1>5, <1>6, <1>7 DEF Next

LEMMA ReadInvInit ==
  LayoutInit => ReadInv
<1> SUFFICES ASSUME LayoutInit PROVE ReadInv
  OBVIOUS
<1>1. layouts = <<>> /\ open = <<>> /\ context = "none"
  BY DEF LayoutInit, Init
<1>2. layouts \in Seq(Layout({})) /\ open \in Seq(Tags) /\ Len(open) = 0
  <2>1. \A T : <<>> \in Seq(T) /\ Len(<<>>) = 0
    OBVIOUS
  <2> QED
    BY <1>1, <2>1
<1>3. Innermost = "top" /\ Nested
  BY <1>1, <1>2 DEF Innermost, Nested
<1>4. InPlace
  BY <1>1, <1>3 DEF InPlace
<1> QED
  BY <1>2, <1>4 DEF ReadInv

\* In every properly nested file, settings reach the section or the key they
\* stand in and keys the row they stand in, although kb_new keeps one flat
\* context and closes it with whatever tag comes (kb.c 226 to 493).
THEOREM SettingsReachTheirPlace ==
  Spec => []ContextIsInnermost
<1>1. LayoutInit => ReadInv
  BY ReadInvInit
<1>2. ReadInv /\ [Next]_vars => ReadInv'
  BY ReadInvStep
<1>3. ReadInv => ContextIsInnermost
  BY DEF ReadInv, InPlace, InLastRow, ContextIsInnermost
<1> QED
  BY <1>1, <1>2, <1>3, PTL DEF Spec

-----------------------------------------------------------------------------
(* When a held key repeats. *)

\* Before the window is there, the first layout is shown and no key is held.
Early ==
  status \in {"reading", "sized"} => vbox = 1 /\ active = None

TimerType ==
  /\ press \in [polls : Nat, alone : BOOLEAN, fired : BOOLEAN]
  /\ timer \in Nat
  /\ delay \in BOOLEAN

\* For a press that follows a round without a key, the timer counts its rounds
\* until it has reached the delay.
Timed ==
  /\ press.fired => active # None
  /\ press.alone /\ active = None => timer = 0 /\ ~delay
  /\ press.alone /\ active # None /\ ~delay => timer = press.polls /\ ~press.fired
  /\ press.alone /\ active # None /\ delay =>
       options.repeat_delay \in Nat /\ press.polls >= options.repeat_delay

TimerInv == Early /\ TimerType /\ Timed

LEMMA TimerFrame ==
  ASSUME TimerInv,
         UNCHANGED <<vbox, active, timer, delay, press>>,
         status' \in {"reading", "sized"} => status \in {"reading", "sized"},
         options' = options \/ active = None
  PROVE  TimerInv'
<1>1. Early'
  BY DEF TimerInv, Early
<1>2. TimerType'
  BY DEF TimerInv, TimerType
<1>3. Timed'
  BY DEF TimerInv, Timed
<1> QED
  BY <1>1, <1>2, <1>3 DEF TimerInv

LEMMA ReadLineStays ==
  ASSUME ReadLine
  PROVE  status = "reading"
<1>1. \A line : Read(line) => status = "reading"
  BY DEF Read
<1> QED
  BY <1>1 DEF ReadLine, OpenGlobal, OpenLayout, OpenRow, OpenKey, CloseTag, Setting,
              OtherLine, EndOfFile

LEMMA TimerInvStep ==
  ASSUME TimerInv, [Next]_vars
  PROVE  TimerInv'
<1>1. CASE ReadLine /\ UNCHANGED gui
  <2>1. active = None /\ status = "reading"
    BY <1>1, ReadLineStays DEF TimerInv, Early
  <2> QED
    BY <1>1, <2>1, TimerFrame DEF gui
<1>2. CASE Realize
  <2>1. status = "sized" /\ status' \in {"exited", "undefined", "running"}
        /\ UNCHANGED <<options, active, timer, delay, press>> /\ vbox' = vbox
    BY <1>2 DEF Realize, Stop, gui
  <2> QED
    BY <2>1, TimerFrame
<1>3. ASSUME NEW size \in WindowSizes, Configure(size)
      PROVE  TimerInv'
  BY <1>3, TimerFrame DEF Configure
<1>4. CASE Expose
  BY <1>4, TimerFrame DEF Expose, config
<1>5. ASSUME status = "running", NEW p \in Clicked, ButtonPress(p)
      PROVE  TimerInv'
  <2>1. /\ UNCHANGED <<status, options, timer, delay>> /\ active' = p
        /\ press' = [polls |-> 0, alone |-> press.alone /\ active = None, fired |-> FALSE]
    BY <1>5 DEF ButtonPress, config
  <2>2. Early'
    BY <1>5, <2>1 DEF Early
  <2>3. TimerType'
    <3>1. (press.alone /\ active = None) \in BOOLEAN
      OBVIOUS
    <3> QED
      BY <2>1, <3>1 DEF TimerInv, TimerType
  <2>4. /\ press'.polls = 0 /\ ~press'.fired
        /\ press'.alone => press.alone /\ active = None
    BY <2>1
  <2>5. Timed'
    BY <2>1, <2>4 DEF TimerInv, Timed
  <2> QED
    BY <2>2, <2>3, <2>5 DEF TimerInv
<1>6. CASE ButtonRelease
  <2>1. /\ status' \in {"running", "undefined"} /\ active' = None
        /\ UNCHANGED <<timer, delay>>
        /\ press' = [press EXCEPT !.alone = FALSE, !.fired = FALSE]
    BY <1>6 DEF ButtonRelease, kb_switch_layout
  <2>2. TimerType' /\ ~press'.alone /\ ~press'.fired
    BY <2>1 DEF TimerInv, TimerType
  <2>3. Early' /\ Timed'
    BY <2>1, <2>2 DEF Early, Timed
  <2> QED
    BY <2>2, <2>3 DEF TimerInv
<1>7. CASE Poll
  <2>1. /\ status = "running" /\ status' = status /\ active = None /\ active' = None
        /\ timer' = 0 /\ delay' = FALSE
        /\ press' = [press EXCEPT !.alone = TRUE]
    BY <1>7 DEF Poll
  <2>2. TimerType' /\ press'.fired = press.fired
    BY <2>1 DEF TimerInv, TimerType
  <2>3. Early' /\ Timed'
    BY <2>1, <2>2 DEF TimerInv, Early, Timed
  <2> QED
    BY <2>2, <2>3 DEF TimerInv
<1>8. CASE PollHeld
  <2>1. /\ status = "running" /\ UNCHANGED <<status, active, options>> /\ active # None
        /\ timer' = (IF Fires THEN 0 ELSE timer + 1)
        /\ delay' = (delay \/ Fires)
        /\ press' = [press EXCEPT !.polls = @ + 1, !.fired = Fires]
    BY <1>8 DEF PollHeld, config
  <2>2. Fires \in BOOLEAN
    BY DEF Fires
  <2>3. /\ press'.polls = press.polls + 1 /\ press'.alone = press.alone
        /\ press'.fired = Fires /\ press.polls \in Nat /\ timer \in Nat
    BY <2>1 DEF TimerInv, TimerType
  <2>4. TimerType'
    <3>1. press' \in [polls : Nat, alone : BOOLEAN, fired : BOOLEAN]
      <4>1. press \in [polls : Nat, alone : BOOLEAN, fired : BOOLEAN]
        BY DEF TimerInv, TimerType
      <4>2. press.polls + 1 \in Nat
        BY <2>3
      <4> QED
        BY <2>1, <2>2, <4>1, <4>2
    <3>2. timer' \in Nat
      BY <2>1, <2>3
    <3>3. delay' \in BOOLEAN
      BY <2>1
    <3> QED
      BY <3>1, <3>2, <3>3 DEF TimerType
  <2>5. press'.alone /\ ~delay' => timer' = press'.polls /\ ~press'.fired
    BY <2>1, <2>2, <2>3 DEF TimerInv, Timed
  <2>6. ASSUME press'.alone, delay'
        PROVE  options'.repeat_delay \in Nat /\ press'.polls >= options'.repeat_delay
    <3>1. CASE delay
      BY <2>1, <2>3, <2>6, <3>1 DEF TimerInv, Timed
    <3>2. CASE ~delay
      <4>1. Fires /\ timer = press.polls
        BY <2>1, <2>3, <2>6, <3>2 DEF TimerInv, Timed
      <4>2. timer + 1 = options.repeat_delay
        BY <3>2, <4>1 DEF Fires
      <4> QED
        BY <2>1, <2>3, <4>1, <4>2
    <3> QED
      BY <3>1, <3>2
  <2>7. Early' /\ Timed'
    BY <2>1, <2>5, <2>6 DEF Early, Timed
  <2> QED
    BY <2>4, <2>7 DEF TimerInv
<1>9. CASE UNCHANGED vars
  BY <1>9, TimerFrame DEF vars, config, gui
<1> QED
  BY <1>1, <1>2, <1>3, <1>4, <1>5, <1>6, <1>7, <1>8, <1>9 DEF Next

LEMMA TimerInvInit ==
  LayoutInit => TimerInv
<1> SUFFICES ASSUME LayoutInit PROVE TimerInv
  OBVIOUS
<1>1. Early /\ TimerType
  BY DEF LayoutInit, Early, TimerType
<1>2. /\ ~press.fired /\ active = None /\ timer = 0 /\ ~delay
  BY DEF LayoutInit
<1> QED
  BY <1>1, <1>2 DEF TimerInv, Timed

\* No key repeats before it was held for repeat_delay rounds of the event loop,
\* if a round without a key came before it (kb.c 861 to 880): for every file,
\* the one that sets the delay and the time between repeats included.
THEOREM DelayIsKept ==
  Spec => []RepeatsAfterDelay
<1>1. LayoutInit => TimerInv
  BY TimerInvInit
<1>2. TimerInv /\ [Next]_vars => TimerInv'
  BY TimerInvStep
<1>3. TimerInv => RepeatsAfterDelay
  BY DEF TimerInv, TimerType, Timed, RepeatsAfterDelay
<1> QED
  BY <1>1, <1>2, <1>3, PTL DEF Spec

-----------------------------------------------------------------------------
(* What is drawn of the keys. *)

\* The keys whose drawing is left behind, and those that share a modifier with
\* one of them.
Unsure == overtaken \cup ({active} \ {None})

Excused(p) ==
  \/ p \in Unsure
  \/ \E q \in Unsure : IsModifier(At(p)) /\ At(q).modifier = At(p).modifier

ShownRight(p) ==
  drawn[p] = Face(At(p), Mode(At(p), state, locked), state)

Drawing ==
  status = "running" =>
    /\ DOMAIN drawn = Places(vbox)
    /\ \A p \in Places(vbox) : Excused(p) \/ ShownRight(p)

\* Layouts keep their rows once the file is read.
Shape ==
  status \in {"sized", "running"} =>
    /\ layouts = [l \in DOMAIN layouts |-> layouts[l]]
    /\ \A l \in DOMAIN layouts : "rows" \in DOMAIN layouts[l]

LockedFaces == locked \subseteq Faces

DrawnInv == ReadInv /\ TimerInv /\ Shape /\ LockedFaces /\ Drawing

\* Sizes are assigned to a layout; its rows and its keys are not touched.
LEMMA RowsKept ==
  ASSUME layouts = [l \in DOMAIN layouts |-> layouts[l]],
         \A l \in DOMAIN layouts : "rows" \in DOMAIN layouts[l],
         NEW n, NEW x,
         n \in DOMAIN layouts => "rows" \in DOMAIN x /\ x.rows = layouts[n].rows,
         NEW ls, ls = [layouts EXCEPT ![n] = x]
  PROVE  /\ ls = [l \in DOMAIN ls |-> ls[l]]
         /\ \A l \in DOMAIN ls : "rows" \in DOMAIN ls[l]
         /\ ls[n].rows = layouts[n].rows
<1>1. CASE n \in DOMAIN layouts
  BY <1>1
<1>2. CASE n \notin DOMAIN layouts
  <2>1. ls = layouts
    BY <1>2
  <2> QED
    BY <2>1
<1> QED
  BY <1>1, <1>2

LEMMA PlacesKept ==
  ASSUME layouts'[vbox'].rows = layouts[vbox'].rows
  PROVE  /\ Places(vbox)' = Places(vbox')
         /\ \A p : At(p)' = layouts[vbox'].rows[p[1]].keys[p[2]]
BY DEF Places, At, Kb

\* A keyboard that is drawn anew is drawn right.
LEMMA DrawnAnew ==
  ASSUME layouts'[vbox'].rows = layouts[vbox'].rows,
         Repainted(vbox', state', locked')
  PROVE  Drawing'
<1>1. drawn' = kb_render(vbox', state', locked')
  BY DEF Repainted
<1>2. DOMAIN drawn' = Places(vbox)'
  BY <1>1, PlacesKept DEF kb_render
<1>3. ASSUME NEW p \in Places(vbox)'
      PROVE  ShownRight(p)'
  <2> DEFINE b == layouts[vbox'].rows[p[1]].keys[p[2]]
  <2>1. At(p)' = b /\ p \in Places(vbox')
    BY PlacesKept
  <2>2. drawn'[p] = Face(b, Mode(b, state', locked'), state')
    BY <1>1, <2>1 DEF kb_render
  <2> QED
    BY <2>1, <2>2 DEF ShownRight
<1> QED
  BY <1>2, <1>3 DEF Drawing

\* A held key changes what is locked of its own modifier only, and every key
\* with that modifier is excused while it is held.
LEMMA LockingExcused ==
  ASSUME NEW q, NEW p, IsModifier(At(q)) => At(p).modifier # At(q).modifier,
         locked' = NewLocked(At(q))
  PROVE  Mode(At(p), state, locked') = Mode(At(p), state, locked)
BY DEF Mode, NewLocked

LEMMA LockedFacesKept ==
  ASSUME LockedFaces, NEW b
  PROVE  NewLocked(b) \subseteq Faces
BY DEF LockedFaces, NewLocked, IsModifier

LEMMA PressKeepsDrawing ==
  ASSUME DrawnInv, status = "running", NEW p \in Clicked, ButtonPress(p)
  PROVE  Drawing'
<1>1. /\ UNCHANGED <<layouts, vbox, state>> /\ active' = p
      /\ drawn' = (IF p = None THEN drawn ELSE Redrawn(p, "pressed"))
      /\ locked' = (IF p = None THEN locked ELSE NewLocked(At(p)))
      /\ overtaken' = (IF active = None THEN overtaken ELSE overtaken \cup {active})
  BY DEF ButtonPress, config
<1>2. DOMAIN drawn = Places(vbox)
      /\ \A q \in Places(vbox) : Excused(q) \/ ShownRight(q)
  BY DEF DrawnInv, Drawing
<1>3. Unsure \subseteq Unsure' /\ (p # None => p \in Unsure')
  BY <1>1 DEF Unsure
<1>4. /\ Places(vbox)' = Places(vbox) /\ \A q : At(q)' = At(q)
      /\ \A q : IsModifier(At(q))' = IsModifier(At(q))
  BY <1>1 DEF Places, At, Kb, IsModifier
<1>5. DOMAIN drawn' = Places(vbox)'
  BY <1>1, <1>2, <1>4 DEF Redrawn
<1>6. ASSUME NEW q \in Places(vbox)', ~Excused(q)'
      PROVE  ShownRight(q)'
  <2>1. ~Excused(q)
    BY <1>3, <1>4, <1>6 DEF Excused
  <2>2. ShownRight(q)
    BY <1>2, <1>4, <2>1
  <2>3. CASE p = None
    BY <1>1, <1>4, <2>2, <2>3 DEF ShownRight
  <2>4. CASE p # None
    <3>1. q # p /\ (IsModifier(At(p)) => At(q).modifier # At(p).modifier)
      BY <1>3, <1>4, <1>6, <2>4 DEF Excused, IsModifier
    <3>2. drawn'[q] = drawn[q]
      BY <1>1, <1>2, <1>4, <2>4, <3>1 DEF Redrawn
    <3>3. Mode(At(q), state, locked') = Mode(At(q), state, locked)
      BY <1>1, <2>4, <3>1, LockingExcused
    <3> QED
      BY <1>1, <1>4, <2>2, <3>2, <3>3 DEF ShownRight
  <2> QED
    BY <2>3, <2>4
<1> QED
  BY <1>5, <1>6 DEF Drawing

LEMMA PollKeepsDrawing ==
  ASSUME DrawnInv, PollHeld
  PROVE  Drawing'
<1>1. /\ UNCHANGED <<status, layouts, vbox, state, drawn, active, overtaken>>
      /\ active # None /\ status = "running"
      /\ locked' = IF Fires THEN NewLocked(At(active)) ELSE locked
  BY DEF PollHeld, config
<1>2. DOMAIN drawn = Places(vbox)
      /\ \A q \in Places(vbox) : Excused(q) \/ ShownRight(q)
  BY <1>1 DEF DrawnInv, Drawing
<1>3. Unsure' = Unsure /\ active \in Unsure
  BY <1>1 DEF Unsure
<1>4. /\ Places(vbox)' = Places(vbox) /\ \A q : At(q)' = At(q)
      /\ \A q : Excused(q)' = Excused(q)
  BY <1>1, <1>3 DEF Places, At, Kb, IsModifier, Excused
<1>5. ASSUME NEW q \in Places(vbox)', ~Excused(q)
      PROVE  ShownRight(q)'
  <2>1. ShownRight(q)
    BY <1>2, <1>4, <1>5
  <2>2. CASE Fires
    <3>1. IsModifier(At(active)) => At(q).modifier # At(active).modifier
      BY <1>3, <1>5 DEF Excused, IsModifier
    <3>2. Mode(At(q), state, locked') = Mode(At(q), state, locked)
      BY <1>1, <2>2, <3>1, LockingExcused
    <3> QED
      BY <1>1, <1>4, <2>1, <3>2 DEF ShownRight
  <2>3. CASE ~Fires
    BY <1>1, <1>4, <2>1, <2>3 DEF ShownRight
  <2> QED
    BY <2>2, <2>3
<1> QED
  BY <1>1, <1>2, <1>4, <1>5 DEF Drawing

\* A key that is drawn alone when it is released is no modifier, and is drawn
\* as it should be.
LEMMA ReleaseAlone ==
  ASSUME LockedFaces, NEW b, ~Repaints(b)
  PROVE  /\ NewState(b) = state /\ NewLocked(b) = locked
         /\ ~IsModifier(b)
         /\ Mode(b, state, locked) = "released"
<1>1. NewState(b) = state /\ b.modifier \notin state
  BY DEF Repaints
<1>2. ~IsModifier(b)
  BY <1>1 DEF NewState, Toggled, IsModifier
<1>3. b.modifier \notin locked
  BY <1>2 DEF LockedFaces, IsModifier
<1> QED
  BY <1>1, <1>2, <1>3 DEF NewLocked, Mode

LEMMA ReleaseKeepsDrawing ==
  ASSUME DrawnInv, ButtonRelease
  PROVE  Drawing' /\ Shape'
<1> DEFINE b == At(active)
<1>1. /\ status = "running" /\ active # None /\ active' = None
      /\ state' = NewState(b) /\ locked' = NewLocked(b)
  BY DEF ButtonRelease
<1>2. /\ layouts = [l \in DOMAIN layouts |-> layouts[l]]
      /\ \A l \in DOMAIN layouts : "rows" \in DOMAIN layouts[l]
  BY <1>1 DEF DrawnInv, Shape
<1>3. CASE b.layout_switch > -1
  <2> DEFINE n == b.layout_switch + 1
  <2>1. kb_switch_layout(n, state', locked')
    BY <1>3 DEF ButtonRelease
  <2>2. CASE status' = "undefined"
    BY <2>2 DEF Drawing, Shape
  <2>3. CASE status' # "undefined"
    <3> DEFINE x == [layouts[n] EXCEPT !.w = Kb.w, !.h = Kb.h,
                                       !.minw = Kb.minw, !.minh = Kb.minh]
    <3>1. /\ vbox' = n /\ Repainted(n, state', locked')
          /\ layouts' = [layouts EXCEPT ![n] = x]
      BY <2>1, <2>3 DEF kb_switch_layout
    <3>2. n \in DOMAIN layouts => "rows" \in DOMAIN x /\ x.rows = layouts[n].rows
      BY <1>2
    <3> HIDE DEF x
    <3>3. /\ layouts' = [l \in DOMAIN layouts' |-> layouts'[l]]
          /\ \A l \in DOMAIN layouts' : "rows" \in DOMAIN layouts'[l]
          /\ layouts'[n].rows = layouts[n].rows
      <4> HIDE DEF n
      <4> QED
        BY <1>2, <3>1, <3>2, RowsKept
    <3>4. Drawing'
      BY <3>1, <3>3, DrawnAnew
    <3> QED
      BY <3>3, <3>4 DEF Shape
  <2> QED
    BY <2>2, <2>3
<1>4. CASE ~(b.layout_switch > -1)
  <2>1. /\ UNCHANGED <<status, layouts, vbox>>
        /\ \/ Repaints(b) /\ Repainted(vbox, state', locked')
           \/ /\ ~Repaints(b)
              /\ drawn' = Redrawn(active, "released")
              /\ overtaken' = overtaken \ {active}
    BY <1>4 DEF ButtonRelease
  <2>2. Shape'
    BY <1>2, <2>1 DEF Shape
  <2>3. CASE Repaints(b) /\ Repainted(vbox, state', locked')
    <3>1. Repainted(vbox', state', locked') /\ layouts'[vbox'].rows = layouts[vbox'].rows
      BY <2>1, <2>3
    <3> QED
      BY <2>2, <3>1, DrawnAnew
  <2>4. CASE /\ ~Repaints(b)
             /\ drawn' = Redrawn(active, "released")
             /\ overtaken' = overtaken \ {active}
    <3>1. /\ state' = state /\ locked' = locked /\ ~IsModifier(b)
          /\ Mode(b, state, locked) = "released"
      BY <1>1, <2>4, ReleaseAlone DEF DrawnInv
    <3>2. DOMAIN drawn = Places(vbox)
          /\ \A q \in Places(vbox) : Excused(q) \/ ShownRight(q)
      BY <1>1 DEF DrawnInv, Drawing
    <3>3. Unsure \subseteq Unsure' \cup {active}
      BY <1>1, <2>4 DEF Unsure
    <3>4. /\ Places(vbox)' = Places(vbox) /\ \A q : At(q)' = At(q)
          /\ \A q : IsModifier(At(q))' = IsModifier(At(q))
      BY <2>1 DEF Places, At, Kb, IsModifier
    <3>5. DOMAIN drawn' = Places(vbox)'
      BY <2>4, <3>2, <3>4 DEF Redrawn
    <3>6. ASSUME NEW q \in Places(vbox)', ~Excused(q)'
          PROVE  ShownRight(q)'
      <4>1. CASE q = active
        <5>1. drawn'[q] = Face(b, "released", state)
          BY <2>4, <3>2, <3>4, <3>6, <4>1 DEF Redrawn
        <5>2. At(q)' = b
          BY <3>4, <4>1
        <5> QED
          BY <3>1, <5>1, <5>2 DEF ShownRight
      <4>2. CASE q # active
        <5>1. ~Excused(q)
          BY <3>1, <3>3, <3>4, <3>6, <4>2 DEF Excused, IsModifier
        <5>2. ShownRight(q)
          BY <3>2, <3>4, <3>6, <5>1
        <5>3. drawn'[q] = drawn[q]
          BY <2>4, <3>2, <3>4, <3>6, <4>2 DEF Redrawn
        <5> QED
          BY <3>1, <3>4, <5>2, <5>3 DEF ShownRight
      <4> QED
        BY <4>1, <4>2
    <3> QED
      BY <2>2, <3>5, <3>6 DEF Drawing
  <2> QED
    BY <2>1, <2>3, <2>4
<1> QED
  BY <1>3, <1>4

LEMMA ConfigureKeepsDrawing ==
  ASSUME DrawnInv, NEW size, Configure(size)
  PROVE  Drawing' /\ Shape'
<1> DEFINE x == [layouts[vbox] EXCEPT !.w = size[1], !.h = size[2]]
<1>1. /\ status = "running" /\ UNCHANGED <<status, vbox, state, locked>>
      /\ Repainted(vbox, state, locked)
      /\ layouts' = [layouts EXCEPT ![vbox] = x]
  BY DEF Configure
<1>2. /\ layouts = [l \in DOMAIN layouts |-> layouts[l]]
      /\ \A l \in DOMAIN layouts : "rows" \in DOMAIN layouts[l]
  BY <1>1 DEF DrawnInv, Shape
<1>3. vbox \in DOMAIN layouts => "rows" \in DOMAIN x /\ x.rows = layouts[vbox].rows
  BY <1>2
<1> HIDE DEF x
<1>4. /\ layouts' = [l \in DOMAIN layouts' |-> layouts'[l]]
      /\ \A l \in DOMAIN layouts' : "rows" \in DOMAIN layouts'[l]
      /\ layouts'[vbox].rows = layouts[vbox].rows
  BY <1>1, <1>2, <1>3, RowsKept
<1>5. Repainted(vbox', state', locked') /\ layouts'[vbox'].rows = layouts[vbox'].rows
  BY <1>1, <1>4
<1> QED
  BY <1>4, <1>5, DrawnAnew DEF Shape

\* xkbd_realize draws nothing: every key is excused until the window is exposed.
LEMMA RealizeKeepsDrawing ==
  ASSUME DrawnInv, Realize
  PROVE  Drawing' /\ Shape'
<1> DEFINE x == [layouts[1] EXCEPT !.w = IF @ = 0 THEN layouts[1].minw ELSE @,
                                   !.h = IF @ = 0 THEN layouts[1].minh ELSE @]
<1>1. CASE status' # "running"
  <2>1. status' # "sized"
    BY <1>1 DEF Realize, Stop
  <2> QED
    BY <1>1, <2>1 DEF Drawing, Shape
<1>2. CASE status' = "running"
  <2>1. /\ status = "sized" /\ vbox' = vbox
        /\ layouts' = [layouts EXCEPT ![1] = x]
        /\ drawn' = Blank /\ overtaken' = Places(1)
    BY <1>2 DEF Realize, Stop
  <2>2. /\ layouts = [l \in DOMAIN layouts |-> layouts[l]]
        /\ \A l \in DOMAIN layouts : "rows" \in DOMAIN layouts[l]
        /\ vbox = 1
    BY <2>1 DEF DrawnInv, Shape, TimerInv, Early
  <2>3. 1 \in DOMAIN layouts => "rows" \in DOMAIN x /\ x.rows = layouts[1].rows
    BY <2>2
  <2> HIDE DEF x
  <2>4. /\ layouts' = [l \in DOMAIN layouts' |-> layouts'[l]]
        /\ \A l \in DOMAIN layouts' : "rows" \in DOMAIN layouts'[l]
        /\ layouts'[1].rows = layouts[1].rows
    BY <2>1, <2>2, <2>3, RowsKept
  <2>5. Places(vbox)' = Places(1) /\ Places(vbox) = Places(1)
    BY <2>1, <2>2, <2>4, PlacesKept
  <2>6. DOMAIN drawn' = Places(vbox)'
    BY <2>1, <2>5 DEF Blank
  <2>7. \A p \in Places(vbox)' : Excused(p)'
    BY <2>1, <2>5 DEF Excused, Unsure
  <2> QED
    BY <2>4, <2>6, <2>7 DEF Drawing, Shape
<1> QED
  BY <1>1, <1>2

\* The two passes compute sizes, too.
LEMMA PassesKeepShape ==
  ASSUME NEW S, layouts \in Seq(Layout(S)), layouts' = TwoPasses
  PROVE  /\ layouts' = [l \in DOMAIN layouts' |-> layouts'[l]]
         /\ \A l \in DOMAIN layouts' : "rows" \in DOMAIN layouts'[l]
<1>1. \A l \in DOMAIN layouts : "rows" \in DOMAIN layouts[l]
  <2>1. DOMAIN layouts = 1..Len(layouts)
    BY LenProperties
  <2>2. \A l \in DOMAIN layouts : layouts[l] \in Layout(S)
    BY <2>1, ElementOfSeq
  <2> QED
    BY <2>2 DEF Layout
<1>2. \A l \in DOMAIN layouts : "rows" \in DOMAIN Sized(l)
  BY <1>1 DEF Sized
<1> DEFINE sized == [l \in DOMAIN layouts |-> Sized(l)]
           h == Max({sized[l].minh : l \in DOMAIN sized})
<1>3. layouts' = [sized EXCEPT ![1].minh = h]
  BY DEF TwoPasses
<1>4. \A l \in DOMAIN sized : "rows" \in DOMAIN sized[l]
  BY <1>2
<1>5. sized = [l \in DOMAIN sized |-> sized[l]]
  OBVIOUS
<1> HIDE DEF sized, h
<1> QED
  BY <1>3, <1>4, <1>5

LEMMA ShapeUnchanged ==
  ASSUME Shape, UNCHANGED layouts,
         status' \in {"sized", "running"} => status \in {"sized", "running"}
  PROVE  Shape'
BY DEF Shape

LEMMA LockedFacesStep ==
  ASSUME LockedFaces, [Next]_vars
  PROVE  LockedFaces'
<1>1. CASE locked' = locked
  BY <1>1 DEF LockedFaces
<1>2. ASSUME NEW b, locked' = NewLocked(b)
      PROVE  LockedFaces'
  BY <1>2, LockedFacesKept DEF LockedFaces
<1>3. CASE (ReadLine /\ UNCHANGED gui) \/ UNCHANGED vars
  BY <1>1, <1>3 DEF gui, vars
<1>4. CASE Realize \/ Expose \/ Poll
  BY <1>1, <1>4 DEF Realize, Stop, Expose, Poll, gui
<1>5. CASE ButtonRelease
  BY <1>2, <1>5 DEF ButtonRelease
<1>6. CASE PollHeld
  BY <1>1, <1>2, <1>6 DEF PollHeld
<1>7. ASSUME NEW size \in WindowSizes, Configure(size)
      PROVE  LockedFaces'
  BY <1>1, <1>7 DEF Configure
<1>8. ASSUME NEW p \in Clicked, ButtonPress(p)
      PROVE  LockedFaces'
  BY <1>1, <1>2, <1>8 DEF ButtonPress
<1> QED
  BY <1>3, <1>4, <1>5, <1>6, <1>7, <1>8 DEF Next

\* Before the end of the file, no line ends the reading well.
LEMMA ReadingStops ==
  ASSUME ReadLine, ~EndOfFile
  PROVE  status' \notin {"sized", "running"}
<1>1. status = "reading"
  BY ReadLineStays
<1>2. CASE OpenGlobal \/ OpenLayout \/ OpenRow \/ OpenKey
  BY <1>1, <1>2 DEF OpenGlobal, OpenLayout, OpenRow, OpenKey, End
<1>3. ASSUME NEW tag \in {"global", "layout", "row", "key"}, CloseTag(tag)
      PROVE  status' \notin {"sized", "running"}
  BY <1>1, <1>3 DEF CloseTag, End
<1>4. ASSUME NEW line, OtherLine(line)
      PROVE  status' \notin {"sized", "running"}
  BY <1>1, <1>4 DEF OtherLine, End
<1>5. ASSUME NEW s, Setting(s)
      PROVE  status' \notin {"sized", "running"}
  <2>1. CASE context = "kbddef"
    BY <1>1, <1>5, <2>1 DEF Setting, GlobalSetting, End
  <2>2. CASE context = "keydef" /\ Fatal(s)
    BY <1>1, <1>5, <2>2 DEF Setting, End
  <2>3. CASE context = "keydef" /\ ~Fatal(s)
    BY <1>1, <1>5, <2>3 DEF Setting
  <2>4. CASE context \notin {"kbddef", "keydef"}
    BY <1>1, <1>5, <2>4 DEF Setting
  <2> QED
    BY <2>1, <2>2, <2>3, <2>4
<1> QED
  BY <1>2, <1>3, <1>4, <1>5 DEF ReadLine

LEMMA DrawingStep ==
  ASSUME DrawnInv, [Next]_vars
  PROVE  Drawing' /\ Shape'
<1>1. CASE ReadLine /\ UNCHANGED gui
  <2>1. status = "reading"
    BY <1>1, ReadLineStays
  <2>2. CASE EndOfFile
    <3>1. status' # "running"
      BY <2>2 DEF EndOfFile
    <3>2. PICK S : layouts \in Seq(Layout(S))
      BY <2>1 DEF DrawnInv, ReadInv
    <3>3. status' = "sized" => layouts' = TwoPasses
      BY <2>2 DEF EndOfFile
    <3>4. Shape'
      BY <3>1, <3>2, <3>3, PassesKeepShape DEF Shape
    <3> QED
      BY <3>1, <3>4 DEF Drawing
  <2>3. CASE ~EndOfFile
    <3>1. status' \notin {"sized", "running"}
      BY <1>1, <2>3, ReadingStops
    <3> QED
      BY <3>1 DEF Drawing, Shape
  <2> QED
    BY <2>2, <2>3
<1>2. CASE Realize
  BY <1>2, RealizeKeepsDrawing
<1>3. CASE ButtonRelease
  BY <1>3, ReleaseKeepsDrawing
<1>4. ASSUME NEW size \in WindowSizes, Configure(size)
      PROVE  Drawing' /\ Shape'
  BY <1>4, ConfigureKeepsDrawing
<1>5. CASE Expose
  <2>1. /\ UNCHANGED <<status, layouts, vbox, state, locked>>
        /\ Repainted(vbox, state, locked)
    BY <1>5 DEF Expose, config
  <2>2. Repainted(vbox', state', locked') /\ layouts'[vbox'].rows = layouts[vbox'].rows
    BY <2>1
  <2> QED
    BY <2>1, <2>2, DrawnAnew, ShapeUnchanged DEF DrawnInv
<1>6. ASSUME status = "running", NEW p \in Clicked, ButtonPress(p)
      PROVE  Drawing' /\ Shape'
  <2>1. UNCHANGED <<status, layouts>>
    BY <1>6 DEF ButtonPress, config
  <2> QED
    BY <1>6, <2>1, PressKeepsDrawing, ShapeUnchanged DEF DrawnInv
<1>7. CASE PollHeld
  <2>1. UNCHANGED <<status, layouts>>
    BY <1>7 DEF PollHeld, config
  <2> QED
    BY <1>7, <2>1, PollKeepsDrawing, ShapeUnchanged DEF DrawnInv
<1>8. CASE Poll \/ UNCHANGED vars
  <2>1. UNCHANGED <<status, layouts, vbox, drawn, active, state, locked, overtaken>>
    BY <1>8 DEF Poll, vars, config, gui
  <2>2. Drawing'
    <3>1. Places(vbox)' = Places(vbox) /\ \A q : At(q)' = At(q)
      BY <2>1 DEF Places, At, Kb
    <3>2. Unsure' = Unsure
      BY <2>1 DEF Unsure
    <3>3. \A q : Excused(q)' = Excused(q) /\ ShownRight(q)' = ShownRight(q)
      BY <2>1, <3>1, <3>2 DEF Excused, ShownRight, IsModifier
    <3> QED
      BY <2>1, <3>1, <3>3 DEF DrawnInv, Drawing
  <2> QED
    BY <2>1, <2>2, ShapeUnchanged DEF DrawnInv
<1> QED
  BY <1>1, <1>2, <1>3, <1>4, <1>5, <1>6, <1>7, <1>8 DEF Next

\* Once the window was exposed, every key is drawn for the state of the
\* keyboard, however layouts are switched, windows sized and keys pressed,
\* released and left to repeat: all but the one that is held, those whose
\* release was lost, and the modifiers these share (kb.c 785 to 880, button.c
\* 309 to 470, libXkbd.c).
THEOREM KeysAreDrawnRight ==
  Spec => []DrawnAgrees
<1>1. LayoutInit => DrawnInv
  <2> SUFFICES ASSUME LayoutInit PROVE DrawnInv
    OBVIOUS
  <2>1. status = "reading" /\ locked = {}
    BY DEF LayoutInit, Init
  <2>2. TimerInv
    BY TimerInvInit
  <2> QED
    BY <2>1, <2>2, ReadInvInit DEF DrawnInv, Shape, LockedFaces, Drawing
<1>2. DrawnInv /\ [Next]_vars => DrawnInv'
  BY ReadInvStep, TimerInvStep, LockedFacesStep, DrawingStep DEF DrawnInv
<1>3. DrawnInv => DrawnAgrees
  BY DEF DrawnInv, Drawing, DrawnAgrees, Excused, Unsure, ShownRight
<1> QED
  BY <1>1, <1>2, <1>3, PTL DEF Spec

-----------------------------------------------------------------------------
(* Least and greatest numbers, and sums.                                    *)

LEMMA LeastNumber ==
  ASSUME NEW S \in SUBSET Nat, S # {}
  PROVE  \E x \in S : \A y \in S : x <= y
<1>1. PICK x \in S : \A y \in S : ~ (<<y, x>> \in OpToRel(<, Nat))
  BY NatLessThanWellFounded, WFMin
<1>2. ASSUME NEW y \in S PROVE x <= y
  <2>1. x \in Nat /\ y \in Nat
    OBVIOUS
  <2>2. ~ (y < x)
    BY <1>1, <1>2, <2>1 DEF OpToRel
  <2> QED
    BY <2>1, <2>2
<1> QED
  BY <1>2

\* Finitely many numbers have a bound: of the sets without one, take one with
\* the fewest elements.
LEMMA FiniteIsBounded ==
  ASSUME NEW S \in SUBSET Int, IsFiniteSet(S)
  PROVE  \E m \in Int : \A y \in S : y <= m
<1> DEFINE Bound(T) == \E m \in Int : \A y \in T : y <= m
           Sizes == {n \in Nat : \E T \in SUBSET Int :
                       IsFiniteSet(T) /\ Cardinality(T) = n /\ ~Bound(T)}
<1>1. SUFFICES ASSUME Sizes # {} PROVE FALSE
  BY FS_CardinalityType
<1>2. PICK n \in Sizes : \A k \in Sizes : n <= k
  <2> HIDE DEF Sizes
  <2>1. Sizes \in SUBSET Nat
    BY DEF Sizes
  <2> QED
    BY <1>1, <2>1, LeastNumber
<1>3. PICK T \in SUBSET Int : IsFiniteSet(T) /\ Cardinality(T) = n /\ ~Bound(T)
  OBVIOUS
<1>4. PICK x : x \in T
  BY <1>3
<1> DEFINE U == T \ {x}
<1>5. IsFiniteSet(U) /\ Cardinality(U) = n - 1 /\ n - 1 \in Nat /\ U \in SUBSET Int
  <2>1. IsFiniteSet(U) /\ Cardinality(U) = n - 1
    BY <1>3, <1>4, FS_RemoveElement
  <2> QED
    BY <2>1, FS_CardinalityType
<1>6. Bound(U)
  <2>1. n - 1 \notin Sizes
    <3> HIDE DEF Sizes
    <3>1. n \in Nat /\ ~(n <= n - 1)
      BY DEF Sizes
    <3> QED
      BY <1>2, <3>1
  <2> QED
    BY <1>5, <2>1
<1>7. PICK m \in Int : \A y \in U : y <= m
  BY <1>6
<1>8. x \in Int /\ \A y \in T : y = x \/ y <= m
  BY <1>4, <1>7
<1>9. \A y \in T : y <= IF m < x THEN x ELSE m
  <2> HIDE DEF U
  <2> QED
    BY <1>7, <1>8
<1>10. (IF m < x THEN x ELSE m) \in Int
  BY <1>7, <1>8
<1>11. Bound(T)
  BY <1>9, <1>10
<1> QED
  BY <1>3, <1>11

LEMMA MaxIsIn ==
  ASSUME NEW S \in SUBSET Int, IsFiniteSet(S), S # {}
  PROVE  Max(S) \in S /\ \A y \in S : y <= Max(S)
<1>1. PICK m \in Int : \A y \in S : y <= m
  BY FiniteIsBounded
<1> DEFINE gaps == {m - y : y \in S}
<1>2. gaps \in SUBSET Nat /\ gaps # {}
  <2>1. \A y \in S : m - y \in Nat
    BY <1>1
  <2> QED
    BY <2>1
<1>3. PICK g \in gaps : \A k \in gaps : g <= k
  <2> HIDE DEF gaps
  <2> QED
    BY <1>2, LeastNumber
<1>4. PICK x \in S : g = m - x
  BY <1>3
<1>5. ASSUME NEW y \in S PROVE y <= x
  <2>1. m - x <= m - y
    BY <1>3, <1>4
  <2>2. x \in Int /\ y \in Int
    OBVIOUS
  <2> QED
    BY <1>1, <2>1, <2>2
<1>6. \E z \in S : \A y \in S : z >= y
  <2>1. \A y \in S : x >= y
    <3>1. \A y \in S : x \in Int /\ y \in Int
      OBVIOUS
    <3> QED
      BY <1>5, <3>1
  <2> QED
    BY <2>1
<1>7. Max(S) \in S /\ \A y \in S : Max(S) >= y
  BY <1>6 DEF Max
<1>8. \A y \in S : Max(S) \in Int /\ y \in Int
  BY <1>7
<1> QED
  BY <1>7, <1>8

LEMMA ImageIsFinite ==
  ASSUME NEW S, IsFiniteSet(S), NEW f, DOMAIN f = S
  PROVE  IsFiniteSet({f[x] : x \in S})
<1> DEFINE T == {f[x] : x \in S}
           g == [x \in S |-> f[x]]
<1>1. g \in [S -> T] /\ \A t \in T : \E x \in S : g[x] = t
  OBVIOUS
<1>2. g \in Surjection(S, T)
  <2> HIDE DEF g, T
  <2> QED
    BY <1>1 DEF Surjection
<1> HIDE DEF g, T
<1> QED
  BY <1>2, FS_Surjection DEF T

LEMMA UpToIsFinite ==
  ASSUME NEW n \in Nat
  PROVE  IsFiniteSet(1..n)
BY FS_Interval

LEMMA MaxWithZero ==
  ASSUME NEW M \in SUBSET Int, IsFiniteSet(M), NEW Z, Z = {0} \cup M
  PROVE  Max(Z) \in Nat
<1>1. IsFiniteSet(M \cup {0})
  BY FS_AddElement
<1>2. Z = M \cup {0} /\ Z \in SUBSET Int /\ Z # {} /\ 0 \in Z
  OBVIOUS
<1>3. Max(Z) \in Z /\ \A y \in Z : y <= Max(Z)
  BY <1>1, <1>2, MaxIsIn
<1>4. Max(Z) \in Int /\ 0 <= Max(Z)
  BY <1>2, <1>3
<1> QED
  BY <1>4

\* The partial sums of a list exist: of the lists that have none, take the
\* shortest.
LEMMA SumsExist ==
  ASSUME NEW n \in Nat, NEW s
  PROVE  \E sum : sum = [i \in 0..n |-> IF i = 0 THEN 0 ELSE sum[i - 1] + s[i]]
<1> DEFINE Sums(sum, k) == sum = [i \in 0..k |-> IF i = 0 THEN 0 ELSE sum[i - 1] + s[i]]
           Short == {k \in Nat : ~ \E sum : Sums(sum, k)}
<1>1. SUFFICES ASSUME Short # {} PROVE FALSE
  OBVIOUS
<1>2. PICK k \in Short : \A j \in Short : k <= j
  <2> HIDE DEF Short
  <2>1. Short \in SUBSET Nat
    BY DEF Short
  <2> QED
    BY <1>1, <2>1, LeastNumber
<1>3. k # 0
  <2> DEFINE none == [i \in 0..0 |-> 0]
  <2>1. Sums(none, 0)
    <3>1. \A i \in 0..0 : i = 0
      OBVIOUS
    <3> QED
      BY <3>1
  <2> HIDE DEF Sums
  <2> QED
    BY <2>1
<1>4. k \in Nat /\ k - 1 \in Nat
  BY <1>3
<1>5. PICK f : Sums(f, k - 1)
  <2>1. ~(k <= k - 1)
    BY <1>4
  <2>2. k - 1 \notin Short
    <3> HIDE DEF Short
    <3> QED
      BY <1>2, <2>1
  <2> HIDE DEF Sums
  <2> QED
    BY <1>4, <2>2
<1> DEFINE g == [i \in 0..k |-> IF i = k THEN f[k - 1] + s[k] ELSE f[i]]
<1>6. ASSUME NEW i \in 0..k
      PROVE  g[i] = IF i = 0 THEN 0 ELSE g[i - 1] + s[i]
  <2>1. CASE i = k
    <3>1. g[i - 1] = f[k - 1] /\ i # 0
      BY <1>3, <1>4, <2>1
    <3> QED
      BY <2>1, <3>1
  <2>2. CASE i # k
    <3>1. i \in 0..(k - 1) /\ g[i] = f[i]
      BY <1>4, <2>2
    <3>2. f[i] = IF i = 0 THEN 0 ELSE f[i - 1] + s[i]
      BY <1>5, <3>1
    <3>3. i # 0 => i - 1 \in 0..k /\ i - 1 # k
      BY <1>4, <2>2
    <3>4. i # 0 => g[i - 1] = f[i - 1]
      BY <3>3
    <3> QED
      BY <3>1, <3>2, <3>4
  <2> QED
    BY <2>1, <2>2
<1>7. Sums(g, k)
  <2>1. g = [i \in 0..k |-> g[i]]
    OBVIOUS
  <2> HIDE DEF g
  <2> QED
    BY <1>6, <2>1
<1> HIDE DEF Sums, g
<1> QED
  BY <1>7

LEMMA TotalSums ==
  ASSUME NEW n \in Nat, NEW s, DOMAIN s = 1..n
  PROVE  /\ Total(s, 0) = 0
         /\ \A i \in 1..n : Total(s, i) = Total(s, i - 1) + s[i]
<1> DEFINE IsSum(f) == f = [i \in {0} \cup DOMAIN s |-> IF i = 0 THEN 0 ELSE f[i - 1] + s[i]]
           sum == CHOOSE f : IsSum(f)
<1>1. {0} \cup DOMAIN s = 0..n
  OBVIOUS
<1>2. \E f : IsSum(f)
  <2>1. PICK f : f = [i \in 0..n |-> IF i = 0 THEN 0 ELSE f[i - 1] + s[i]]
    BY SumsExist
  <2>2. IsSum(f)
    BY <1>1, <2>1
  <2> HIDE DEF IsSum
  <2> QED
    BY <2>2
<1>3. IsSum(sum)
  <2> HIDE DEF IsSum
  <2> QED
    BY <1>2
<1>4. \A i : Total(s, i) = sum[i]
  BY DEF Total
<1> HIDE DEF sum
<1>5. \A i \in 0..n : sum[i] = IF i = 0 THEN 0 ELSE sum[i - 1] + s[i]
  BY <1>1, <1>3
<1>6. 0 \in 0..n /\ \A i \in 1..n : i \in 0..n /\ i # 0
  OBVIOUS
<1> QED
  BY <1>4, <1>5, <1>6

\* What holds of 0 and goes from each number to the next holds up to n.
LEMMA UpTo ==
  ASSUME NEW n \in Nat, NEW S, 0 \in S, \A i \in 1..n : i - 1 \in S => i \in S
  PROVE  0..n \subseteq S
<1> DEFINE Out == (0..n) \ S
<1>1. SUFFICES ASSUME Out # {} PROVE FALSE
  OBVIOUS
<1>2. PICK k \in Out : \A j \in Out : k <= j
  <2>1. Out \in SUBSET Nat
    OBVIOUS
  <2> HIDE DEF Out
  <2> QED
    BY <1>1, <2>1, LeastNumber
<1>3. k \in 1..n /\ k - 1 \in 0..n /\ ~(k <= k - 1)
  OBVIOUS
<1>4. k - 1 \in S
  BY <1>2, <1>3
<1> QED
  BY <1>3, <1>4

LEMMA TotalIsInt ==
  ASSUME NEW n \in Nat, NEW s, DOMAIN s = 1..n, \A i \in 1..n : s[i] \in Int
  PROVE  \A i \in 0..n : Total(s, i) \in Int
<1> DEFINE S == {i \in 0..n : Total(s, i) \in Int}
<1>1. 0 \in S
  <2>1. Total(s, 0) \in Int
    BY TotalSums
  <2> QED
    BY <2>1
<1>2. ASSUME NEW i \in 1..n, i - 1 \in S PROVE i \in S
  <2>1. Total(s, i) = Total(s, i - 1) + s[i]
    BY TotalSums
  <2> QED
    BY <1>2, <2>1
<1>3. 0..n \subseteq S
  <2> HIDE DEF S
  <2> QED
    BY <1>1, <1>2, UpTo
<1> QED
  BY <1>3

\* Sums of numbers that are not negative grow.
LEMMA TotalGrows ==
  ASSUME NEW n \in Nat, NEW s, DOMAIN s = 1..n, \A i \in 1..n : s[i] \in Nat
  PROVE  \A i \in 0..n : Total(s, i) \in Nat /\ Total(s, i) <= Total(s, n)
<1>1. \A i \in 0..n : Total(s, i) \in Int
  BY TotalIsInt
<1> DEFINE P(i) == Total(s, i) \in Nat
           Q(i) == Total(s, n - i) <= Total(s, n)
           S == {i \in 0..n : P(i)}
           T == {i \in 0..n : Q(i)}
<1>2. 0..n \subseteq S
  <2>1. 0 \in S
    <3>1. Total(s, 0) = 0
      BY TotalSums
    <3> QED
      BY <3>1
  <2>2. ASSUME NEW i \in 1..n, i - 1 \in S PROVE i \in S
    <3>1. Total(s, i) = Total(s, i - 1) + s[i] /\ s[i] \in Nat
      BY TotalSums
    <3> QED
      BY <2>2, <3>1
  <2> HIDE DEF S
  <2> QED
    BY <2>1, <2>2, UpTo
<1>3. 0..n \subseteq T
  <2>1. 0 \in T
    <3>1. n - 0 = n /\ Total(s, n) \in Int
      BY <1>1
    <3> QED
      BY <3>1
  <2>2. ASSUME NEW i \in 1..n, i - 1 \in T PROVE i \in T
    <3> DEFINE k == n - (i - 1)
    <3>1. k \in 1..n /\ k - 1 = n - i /\ k - 1 \in 0..n
      OBVIOUS
    <3>2. Total(s, k) <= Total(s, n)
      BY <2>2
    <3> HIDE DEF k
    <3>3. Total(s, k) = Total(s, k - 1) + s[k] /\ s[k] \in Nat
      BY <3>1, TotalSums
    <3>4. Total(s, k - 1) \in Int /\ Total(s, k) \in Int /\ Total(s, n) \in Int
      BY <1>1, <3>1
    <3>5. Total(s, k - 1) <= Total(s, n)
      BY <3>2, <3>3, <3>4
    <3> QED
      BY <3>1, <3>5
  <2> HIDE DEF T
  <2> QED
    BY <2>1, <2>2, UpTo
<1>4. ASSUME NEW i \in 0..n PROVE Total(s, i) <= Total(s, n)
  <2>1. n - i \in 0..n /\ n - (n - i) = i
    OBVIOUS
  <2> QED
    BY <1>3, <2>1
<1> QED
  BY <1>2, <1>4

LEMMA Distributes ==
  ASSUME NEW x \in Int, NEW y \in Int, NEW z \in Int
  PROVE  (x + y) * z = x * z + y * z
OBVIOUS

\* Shares that are rounded down add up to no more than the whole.
LEMMA SharesFit ==
  ASSUME NEW n \in Nat, NEW a, DOMAIN a = 1..n, \A i \in 1..n : a[i] \in Nat,
         NEW b \in Nat \ {0}, Total(a, n) <= b, NEW c \in Nat,
         NEW s, DOMAIN s = 1..n,
         \A i \in 1..n : s[i] \in Int /\ s[i] * b <= a[i] * c
  PROVE  \A i \in 0..n : Total(s, i) \in Int /\ Total(s, i) <= c
<1>1. \A i \in 0..n : Total(s, i) \in Int
  BY TotalIsInt
<1>2. \A i \in 0..n : Total(a, i) \in Nat /\ Total(a, i) <= Total(a, n)
  BY TotalGrows
<1> DEFINE S == {i \in 0..n : Total(s, i) * b <= Total(a, i) * c}
<1>3. 0 \in S
  <2>1. Total(s, 0) = 0 /\ Total(a, 0) = 0
    BY TotalSums
  <2> QED
    BY <2>1
<1>4. ASSUME NEW i \in 1..n, i - 1 \in S PROVE i \in S
  <2> DEFINE x == Total(s, i - 1)
             y == Total(a, i - 1)
  <2>1. x * b <= y * c
    BY <1>4
  <2>2. x \in Int /\ y \in Nat /\ s[i] \in Int /\ a[i] \in Nat /\ s[i] * b <= a[i] * c
    BY <1>1, <1>2
  <2>3. Total(s, i) = x + s[i] /\ Total(a, i) = y + a[i]
    BY TotalSums
  <2> HIDE DEF x, y
  <2> DEFINE u == s[i]
             v == a[i]
  <2>4. u \in Int /\ v \in Int /\ b \in Int /\ c \in Int /\ y \in Int
    BY <2>2
  <2>5. (x + s[i]) * b = x * b + s[i] * b /\ (y + a[i]) * c = y * c + a[i] * c
    <3> HIDE DEF u, v
    <3>1. (x + u) * b = x * b + u * b
      BY <2>2, <2>4, Distributes
    <3>2. (y + v) * c = y * c + v * c
      BY <2>4, Distributes
    <3> QED
      BY <3>1, <3>2 DEF u, v
  <2>6. x * b \in Int /\ y * c \in Int /\ s[i] * b \in Int /\ a[i] * c \in Int
    BY <2>2
  <2>7. Total(s, i) * b <= Total(a, i) * c
    <3> DEFINE xb == x * b
               yc == y * c
               sb == s[i] * b
               ac == a[i] * c
    <3>1. xb <= yc /\ sb <= ac /\ xb \in Int /\ yc \in Int /\ sb \in Int /\ ac \in Int
      BY <2>1, <2>2, <2>6
    <3>2. Total(s, i) * b = xb + sb /\ Total(a, i) * c = yc + ac
      BY <2>3, <2>5
    <3> HIDE DEF xb, yc, sb, ac
    <3>3. xb + sb <= yc + ac
      BY <3>1
    <3> QED
      BY <3>2, <3>3
  <2> QED
    BY <2>7
<1>5. 0..n \subseteq S
  <2> HIDE DEF S
  <2> QED
    BY <1>3, <1>4, UpTo
<1>6. ASSUME NEW i \in 0..n PROVE Total(s, i) <= c
  <2> DEFINE x == Total(s, i)
             y == Total(a, i)
  <2>1. x * b <= y * c
    BY <1>5
  <2>2. x \in Int /\ y \in Nat /\ y <= b
    <3>1. Total(a, n) \in Nat
      BY <1>2
    <3> QED
      BY <1>1, <1>2, <3>1
  <2> HIDE DEF x, y
  <2>3. y * c <= b * c
    <3> DEFINE d == b - y
    <3>1. d \in Nat /\ b = y + d
      BY <2>2
    <3> HIDE DEF d
    <3>2. (y + d) * c = y * c + d * c /\ d * c \in Nat /\ y * c \in Int
      BY <2>2, <3>1, Distributes
    <3> QED
      BY <3>1, <3>2
  <2>4. x * b <= c * b
    BY <2>1, <2>2, <2>3
  <2>5. x <= c
    <3> SUFFICES ASSUME x >= c + 1 PROVE FALSE
      BY <2>2
    <3>1. x * b >= (c + 1) * b
      BY <2>2
    <3>2. (c + 1) * b = c * b + b
      OBVIOUS
    <3>3. x * b \in Int /\ c * b \in Int
      BY <2>2
    <3> QED
      BY <2>4, <3>1, <3>2, <3>3
  <2> QED
    BY <2>5 DEF x
<1> QED
  BY <1>1, <1>6

\* (int)((float)a / b * c) is no more than the share.
LEMMA ScaleRoundsDown ==
  ASSUME NEW a \in Int, NEW b \in Nat \ {0}, NEW c \in Int
  PROVE  Scale(a, b, c) \in Int /\ Scale(a, b, c) * b <= a * c
<1> DEFINE ac == a * c
           q == ac \div b
<1>1. ac \in Int
  OBVIOUS
<1> HIDE DEF ac
<1>2. q \in Int /\ q * b <= ac
  BY <1>1
<1>3. Scale(a, b, c) \in {q, q - 1}
  BY DEF Scale, ac
<1> HIDE DEF q
<1>4. q - 1 \in Int /\ (q - 1) * b = q * b - b
  BY <1>2
<1>5. (q - 1) * b <= ac
  <2>1. q * b \in Int
    BY <1>2
  <2> QED
    BY <1>1, <1>2, <1>4, <2>1
<1> QED
  BY <1>2, <1>3, <1>4, <1>5 DEF ac

-----------------------------------------------------------------------------
(* The numbers of a file.                                                   *)

\* Every key has sizes, and texts of a width, that are numbers.
Numbers(b) ==
  /\ {"txt", "c_width", "c_height", "key_span_width", "layout_switch"} \subseteq DOMAIN b
  /\ b.c_width \in Int /\ b.c_height \in Int /\ b.key_span_width \in Int
  /\ b.layout_switch \in Int
  /\ Texts \subseteq DOMAIN b.txt
  /\ \A t \in Texts : b.txt[t].px \in Int

NumbersRead ==
  status = "reading" =>
    /\ \E S : layouts \in Seq(Layout(S)) /\ \A b \in S : Numbers(b)
    /\ rest \in Seq(FileLines)
    /\ window = <<window[1], window[2]>> /\ window[1] \in Nat /\ window[2] \in Nat

LEMMA NumbersOfNewKey ==
  Numbers(button_new)
BY DEF Numbers, button_new, Texts

LEMMA NumbersOfSettings ==
  ASSUME NEW b, Numbers(b), NEW s, s.value \in Int, s.px \in Int
  PROVE  Numbers(KeySetting(b, s))
<1> USE DEF Numbers
<1>1. CASE s.name \in Texts
  <2> DEFINE x == [chars |-> s.value, px |-> s.px]
             c == [b EXCEPT !.txt[s.name] = x]
  <2>1. KeySetting(b, s) = c
    BY <1>1 DEF KeySetting, Texts, Slides
  <2>2. x.px \in Int
    OBVIOUS
  <2> HIDE DEF x
  <2>3. c.txt = [b.txt EXCEPT ![s.name] = x]
    OBVIOUS
  <2>4. \A t \in Texts : c.txt[t] = IF t = s.name THEN x ELSE b.txt[t]
    BY <2>3
  <2>5. DOMAIN c = DOMAIN b /\ DOMAIN c.txt = DOMAIN b.txt
        /\ c.c_width = b.c_width /\ c.c_height = b.c_height
        /\ c.key_span_width = b.key_span_width /\ c.layout_switch = b.layout_switch
    BY <2>3
  <2> HIDE DEF c
  <2> QED
    BY <2>1, <2>2, <2>4, <2>5
<1>2. CASE s.name \notin Texts
  <2>1. CASE s.name = "default_ks"
    BY <1>2, <2>1 DEF KeySetting, button_set_txt_ks
  <2>2. CASE s.name \in {"shift_ks", "mod_ks"}
    BY <1>2, <2>2 DEF KeySetting
  <2>3. CASE s.name \in Slides /\ s.ks # "unknown"
    BY <1>2, <2>3 DEF KeySetting, Slides
  <2>4. CASE s.name = "switch"
    BY <1>2, <2>4 DEF KeySetting, Slides
  <2>5. CASE s.name = "img"
    BY <1>2, <2>5 DEF KeySetting, button_set_pixmap, Slides
  <2>6. CASE s.name = "scancode"
    BY <1>2, <2>6 DEF KeySetting, Slides
  <2>7. CASE s.name = "width"
    BY <1>2, <2>7 DEF KeySetting, Slides
  <2>8. CASE s.name = "key_span_width"
    BY <1>2, <2>8 DEF KeySetting, Slides
  <2>9. CASE s.name = "height"
    BY <1>2, <2>9 DEF KeySetting, Slides
  <2>10. CASE s.name = "obey_capslock"
    BY <1>2, <2>10 DEF KeySetting, Slides
  <2>11. CASE s.name \notin {"default_ks", "shift_ks", "mod_ks", "switch", "img", "scancode",
                             "width", "key_span_width", "height", "obey_capslock"}
              /\ ~(s.name \in Slides /\ s.ks # "unknown")
    BY <1>2, <2>11 DEF KeySetting
  <2> QED
    BY <2>1, <2>2, <2>3, <2>4, <2>5, <2>6, <2>7, <2>8, <2>9, <2>10, <2>11
<1> QED
  BY <1>1, <1>2

LEMMA NumbersOfCalc ==
  ASSUME NEW b, Numbers(b)
  PROVE  Numbers(button_calc(b))
<1> DEFINE widths == {b.txt[t].px : t \in Texts}
           w == IF b.pixmap \/ b.c_width # 0 THEN b.c_width ELSE Max(widths)
           h == IF b.pixmap \/ b.c_height # 0 THEN b.c_height ELSE CharHeight
<1>1. Max(widths) \in Int
  <2>1. widths \in SUBSET Int /\ widths # {}
    BY DEF Numbers, Texts
  <2>2. IsFiniteSet(Texts)
    <3>1. IsFiniteSet({"default"})
      BY FS_Singleton
    <3>2. IsFiniteSet({"default"} \cup {"shift"})
      BY <3>1, FS_AddElement
    <3>3. IsFiniteSet(({"default"} \cup {"shift"}) \cup {"mod"})
      BY <3>2, FS_AddElement
    <3>4. Texts = ({"default"} \cup {"shift"}) \cup {"mod"}
      BY DEF Texts
    <3> QED
      BY <3>3, <3>4
  <2>3. IsFiniteSet(widths)
    <3> DEFINE px == [t \in Texts |-> b.txt[t].px]
    <3>1. widths = {px[t] : t \in Texts}
      OBVIOUS
    <3>2. DOMAIN px = Texts
      OBVIOUS
    <3> HIDE DEF px, widths
    <3> QED
      BY <2>2, <3>1, <3>2, ImageIsFinite
  <2> HIDE DEF widths
  <2> QED
    BY <2>1, <2>3, MaxIsIn
<1>2. w \in Int /\ h \in Int
  BY <1>1, SizesAssumption DEF Numbers
<1>3. button_calc(b) = [b EXCEPT !.c_width = w, !.c_height = h]
  BY DEF button_calc
<1> HIDE DEF w, h
<1> QED
  BY <1>2, <1>3 DEF Numbers

\* A change of the key that settings go to, if there is one.
LEMMA NumbersOfChange ==
  ASSUME NEW S, layouts \in Seq(Layout(S)), \A x \in S : Numbers(x),
         NEW b, Numbers(Key(tmp_but)) => Numbers(b)
  PROVE  \E T : ChangeKey(b) \in Seq(Layout(T)) /\ \A x \in T : Numbers(x)
<1> DEFINE l == tmp_but[1]
           r == tmp_but[2]
           k == tmp_but[3]
           old == layouts[l].rows[r].keys
           keys == [old EXCEPT ![k] = b]
           T == {x \in S \cup {b} : Numbers(x)}
<1>1. ChangeKey(b) = RowChanged(layouts, l, r, keys)
  BY DEF ChangeKey, RowChanged
<1>2. S \subseteq T /\ \A x \in T : Numbers(x)
  OBVIOUS
<1>3. layouts \in Seq(Layout(T))
  <2> HIDE DEF T
  <2> QED
    BY <1>2, MoreKeys
<1>4. l \in 1..Len(layouts) /\ r \in 1..Len(layouts[l].rows) => old \in Seq(S)
  <2> SUFFICES ASSUME l \in 1..Len(layouts), r \in 1..Len(layouts[l].rows)
               PROVE  old \in Seq(S)
    OBVIOUS
  <2>1. layouts[l] \in Layout(S)
    BY ElementOfSeq
  <2>2. layouts[l].rows \in Seq(Row(S))
    BY <2>1 DEF Layout
  <2>3. layouts[l].rows[r] \in Row(S)
    BY <2>2, ElementOfSeq
  <2> QED
    BY <2>3 DEF Row
<1>5. l \in 1..Len(layouts) /\ r \in 1..Len(layouts[l].rows) => keys \in Seq(T)
  <2> SUFFICES ASSUME l \in 1..Len(layouts), r \in 1..Len(layouts[l].rows)
               PROVE  keys \in Seq(T)
    OBVIOUS
  <2>1. old \in Seq(S)
    BY <1>4
  <2>2. k \in 1..Len(old) => b \in T
    <3> SUFFICES ASSUME k \in 1..Len(old) PROVE b \in T
      OBVIOUS
    <3>1. old[k] \in S
      BY <2>1, ElementOfSeq
    <3>2. Key(tmp_but) = old[k]
      BY DEF Key, Keys
    <3> QED
      BY <3>1, <3>2
  <2>3. old \in Seq(T)
    <3> HIDE DEF T, old
    <3> QED
      BY <1>2, <2>1
  <2> HIDE DEF T, old
  <2> QED
    BY <2>2, <2>3, Replaced
<1>6. ChangeKey(b) \in Seq(Layout(T))
  <2> HIDE DEF T, keys
  <2> QED
    BY <1>1, <1>3, <1>5, RowChange
<1> QED
  BY <1>2, <1>6

LEMMA LineRead ==
  ASSUME NumbersRead, NEW line, Read(line)
  PROVE  /\ Numeric(line)
         /\ rest' \in Seq(FileLines)
         /\ window' = <<window'[1], window'[2]>> /\ window'[1] \in Nat /\ window'[2] \in Nat
<1>1. rest \in Seq(FileLines) /\ window' = window /\ status = "reading"
  BY DEF Read, NumbersRead
<1>2. Numeric(line) /\ rest' \in Seq(FileLines)
  <2>1. CASE rest = <<>>
    BY <1>1, <2>1, SizesAssumption DEF Read
  <2>2. CASE rest # <<>>
    <3>1. line = Head(rest) /\ rest' = Tail(rest)
      BY <2>2 DEF Read
    <3>2. line \in FileLines /\ rest' \in Seq(FileLines)
      BY <1>1, <2>2, <3>1, HeadTailProperties
    <3> QED
      BY <3>2, SizesAssumption
  <2> QED
    BY <2>1, <2>2
<1> QED
  BY <1>1, <1>2 DEF NumbersRead

\* Any line keeps them, once the layouts it leaves are seen to have numbers.
LEMMA NumbersKept ==
  ASSUME NumbersRead, NEW line, Read(line),
         \E S : layouts' \in Seq(Layout(S)) /\ \A b \in S : Numbers(b)
  PROVE  NumbersRead'
<1>1. window' = window
  BY DEF Read
<1>2. \A S : Layout(S)' = Layout(S)
  BY <1>1 DEF Layout
<1>3. \E S : layouts' \in Seq(Layout(S)') /\ \A b \in S : Numbers(b)
  BY <1>2
<1>4. /\ rest' \in Seq(FileLines)
      /\ window' = <<window'[1], window'[2]>> /\ window'[1] \in Nat /\ window'[2] \in Nat
  BY LineRead
<1> QED
  BY <1>3, <1>4 DEF NumbersRead, Numbers

LEMMA NumbersOfSettingStep ==
  ASSUME NumbersRead, NEW s, Setting(s)
  PROVE  NumbersRead'
<1>1. Read(s) /\ s.kind = "set" /\ status = "reading"
  BY DEF Setting, Read
<1>2. s.value \in Int /\ s.px \in Int
  BY <1>1, LineRead DEF Numeric
<1>3. PICK S : layouts \in Seq(Layout(S)) /\ \A b \in S : Numbers(b)
  BY <1>1 DEF NumbersRead
<1>4. layouts' = layouts \/ layouts' = ChangeKey(KeySetting(Key(tmp_but), s))
  <2>1. CASE context = "kbddef"
    BY <2>1 DEF Setting, GlobalSetting, End
  <2>2. CASE context = "keydef" /\ Fatal(s)
    BY <2>2 DEF Setting, End
  <2>3. CASE context = "keydef" /\ ~Fatal(s)
    BY <2>3 DEF Setting
  <2>4. CASE context \notin {"kbddef", "keydef"}
    BY <2>4 DEF Setting
  <2> QED
    BY <2>1, <2>2, <2>3, <2>4
<1>5. \E T : layouts' \in Seq(Layout(T)) /\ \A x \in T : Numbers(x)
  <2>1. Numbers(Key(tmp_but)) => Numbers(KeySetting(Key(tmp_but), s))
    BY <1>2, NumbersOfSettings
  <2>2. \E T : ChangeKey(KeySetting(Key(tmp_but), s)) \in Seq(Layout(T)) /\ \A x \in T : Numbers(x)
    BY <1>3, <2>1, NumbersOfChange
  <2> QED
    BY <1>3, <1>4, <2>2
<1> QED
  BY <1>1, <1>5, NumbersKept

LEMMA NumbersOfCloseStep ==
  ASSUME NumbersRead, NEW tag, CloseTag(tag)
  PROVE  NumbersRead'
<1> DEFINE line == [kind |-> "close", tag |-> tag]
<1>1. Read(line) /\ status = "reading"
  BY DEF CloseTag, Read
<1>2. PICK S : layouts \in Seq(Layout(S)) /\ \A b \in S : Numbers(b)
  BY <1>1 DEF NumbersRead
<1>3. layouts' = layouts \/ layouts' = ChangeKey(button_calc(Key(tmp_but)))
  BY DEF CloseTag, End
<1>4. \E T : layouts' \in Seq(Layout(T)) /\ \A x \in T : Numbers(x)
  <2>1. Numbers(Key(tmp_but)) => Numbers(button_calc(Key(tmp_but)))
    BY NumbersOfCalc
  <2>2. \E T : ChangeKey(button_calc(Key(tmp_but))) \in Seq(Layout(T)) /\ \A x \in T : Numbers(x)
    BY <1>2, <2>1, NumbersOfChange
  <2> QED
    BY <1>2, <1>3, <2>2
<1> QED
  BY <1>1, <1>4, NumbersKept

LEMMA NumbersOfKeyStep ==
  ASSUME NumbersRead, OpenKey
  PROVE  NumbersRead'
<1> DEFINE line == [kind |-> "open", tag |-> "key"]
<1>1. Read(line) /\ status = "reading"
  BY DEF OpenKey, Read
<1>2. PICK S0 : layouts \in Seq(Layout(S0)) /\ \A b \in S0 : Numbers(b)
  BY <1>1 DEF NumbersRead
<1> DEFINE S == S0 \cup {button_new}
<1>3. layouts \in Seq(Layout(S)) /\ button_new \in S /\ \A b \in S : Numbers(b)
  <2>1. S0 \subseteq S /\ button_new \in S /\ \A b \in S : Numbers(b)
    BY <1>2, NumbersOfNewKey
  <2> HIDE DEF S
  <2> QED
    BY <1>2, <2>1, MoreKeys
<1> HIDE DEF S
<1>4. layouts' = layouts \/ layouts' = AddKey(tmp_box)
  BY DEF OpenKey, End
<1>5. AddKey(tmp_box) \in Seq(Layout(S))
  <2> DEFINE l == tmp_box[1]
             r == tmp_box[2]
             old == layouts[l].rows[r].keys
             keys == Append(old, button_new)
  <2>1. AddKey(tmp_box) = RowChanged(layouts, l, r, keys)
    BY DEF AddKey, RowChanged
  <2>2. l \in 1..Len(layouts) /\ r \in 1..Len(layouts[l].rows) => old \in Seq(S)
    <3> SUFFICES ASSUME l \in 1..Len(layouts), r \in 1..Len(layouts[l].rows)
                 PROVE  old \in Seq(S)
      OBVIOUS
    <3>1. layouts[l] \in Layout(S)
      BY <1>3, ElementOfSeq
    <3>2. layouts[l].rows \in Seq(Row(S))
      BY <3>1 DEF Layout
    <3>3. layouts[l].rows[r] \in Row(S)
      BY <3>2, ElementOfSeq
    <3> QED
      BY <3>3 DEF Row
  <2>3. l \in 1..Len(layouts) /\ r \in 1..Len(layouts[l].rows) => keys \in Seq(S)
    <3> HIDE DEF old
    <3> QED
      BY <1>3, <2>2, AppendProperties
  <2> HIDE DEF keys
  <2> QED
    BY <1>3, <2>1, <2>3, RowChange
<1>6. \E T : layouts' \in Seq(Layout(T)) /\ \A x \in T : Numbers(x)
  BY <1>3, <1>4, <1>5
<1> QED
  BY <1>1, <1>6, NumbersKept

LEMMA NumbersOfRowStep ==
  ASSUME NumbersRead, OpenRow
  PROVE  NumbersRead'
<1> DEFINE line == [kind |-> "open", tag |-> "row"]
           ls == IF layouts = <<>> THEN <<box_new>> ELSE layouts
<1>1. Read(line) /\ status = "reading"
  BY DEF OpenRow, Read
<1>2. PICK S : layouts \in Seq(Layout(S)) /\ \A b \in S : Numbers(b)
  BY <1>1 DEF NumbersRead
<1>3. ls \in Seq(Layout(S)) /\ ls # <<>>
  <2>1. <<box_new>> # <<>>
    BY EmptySeq
  <2> QED
    BY <1>2, <2>1, LayoutAdded
<1>4. layouts' = AddRow(ls)
  BY DEF OpenRow
<1> HIDE DEF ls
<1>5. layouts' \in Seq(Layout(S))
  BY <1>3, <1>4, RowAdded
<1> QED
  BY <1>1, <1>2, <1>5, NumbersKept

LEMMA NumbersReadStep ==
  ASSUME NumbersRead, ReadLine, status' = "reading"
  PROVE  NumbersRead'
<1>1. status = "reading"
  BY ReadLineStays
<1>2. PICK S : layouts \in Seq(Layout(S)) /\ \A b \in S : Numbers(b)
  BY <1>1 DEF NumbersRead
<1>3. CASE OpenGlobal
  BY <1>2, <1>3, NumbersKept DEF OpenGlobal
<1>4. CASE OpenLayout
  <2>1. layouts' = layouts \/ layouts' = Append(layouts, box_new)
    BY <1>4 DEF OpenLayout, End
  <2>2. layouts' \in Seq(Layout(S))
    BY <1>2, <2>1, LayoutAdded
  <2> QED
    BY <1>2, <1>4, <2>2, NumbersKept DEF OpenLayout
<1>5. CASE OpenRow
  BY <1>5, NumbersOfRowStep
<1>6. CASE OpenKey
  BY <1>6, NumbersOfKeyStep
<1>7. ASSUME NEW tag, CloseTag(tag) PROVE NumbersRead'
  BY <1>7, NumbersOfCloseStep
<1>8. ASSUME NEW s, Setting(s) PROVE NumbersRead'
  BY <1>8, NumbersOfSettingStep
<1>9. ASSUME NEW line, OtherLine(line) PROVE NumbersRead'
  BY <1>2, <1>9, NumbersKept DEF OtherLine, End
<1>10. ~EndOfFile
  BY DEF EndOfFile
<1> QED
  BY <1>3, <1>4, <1>5, <1>6, <1>7, <1>8, <1>9, <1>10 DEF ReadLine

-----------------------------------------------------------------------------
(* The two passes.                                                          *)

\* Rows and layouts once their sizes are computed; a row with keys has a height.
SizedRows(S) ==
  {row \in [keys : Seq(S), minw : Int, minh : Nat] : row.keys # <<>> => row.minh > 0}
SizedLayout(S) == [rows : Seq(SizedRows(S)), w : Nat, h : Nat, minw : Nat, minh : Nat]

Heights(l) == [r \in DOMAIN l.rows |-> l.rows[r].minh]
RowsHeight(l) == Total(Heights(l), Len(l.rows))

\* A function on 1..n is a list.
LEMMA IsList ==
  ASSUME NEW n \in Nat, NEW S, NEW f, f = [i \in 1..n |-> f[i]], \A i \in 1..n : f[i] \in S
  PROVE  f \in Seq(S) /\ Len(f) = n
<1>1. f \in [1..n -> S]
  OBVIOUS
<1>2. f \in Seq(S)
  BY <1>1, SeqDef
<1>3. Len(f) \in Nat /\ DOMAIN f = 1..Len(f) /\ DOMAIN f = 1..n
  BY <1>1, <1>2, LenProperties
<1> QED
  BY <1>2, <1>3

LEMMA LargestSizes ==
  ASSUME NEW S, layouts \in Seq(Layout(S)), \A b \in S : Numbers(b), layouts # <<>>
  PROVE  max_single_char_width \in Int /\ max_single_char_height \in Nat \ {0}
<1>1. 1 \in 1..Len(layouts)
  BY LenProperties, EmptySeq
<1>2. layouts[1].rows \in Seq(Row(S))
  <2>1. layouts[1] \in Layout(S)
    BY <1>1, ElementOfSeq
  <2> QED
    BY <2>1 DEF Layout
<1>3. DOMAIN layouts[1].rows = 1..Len(layouts[1].rows) /\ Len(layouts[1].rows) \in Nat
  BY <1>2, LenProperties
<1>4. \A row \in RowsOf(1) : row.keys \in Seq(S)
  <2>1. \A r \in 1..Len(layouts[1].rows) : layouts[1].rows[r] \in Row(S)
    BY <1>2, ElementOfSeq
  <2> QED
    BY <1>3, <2>1 DEF RowsOf, Row
<1>5. IsFiniteSet(RowsOf(1))
  <2>1. IsFiniteSet(DOMAIN layouts[1].rows)
    BY <1>3, UpToIsFinite
  <2> QED
    BY <2>1, ImageIsFinite DEF RowsOf
<1>6. \A row \in RowsOf(1) :
        /\ IsFiniteSet({row.keys[k] : k \in DOMAIN row.keys})
        /\ {row.keys[k] : k \in DOMAIN row.keys} \subseteq S
  <2> SUFFICES ASSUME NEW row \in RowsOf(1), NEW keys, keys = row.keys
               PROVE  /\ IsFiniteSet({keys[k] : k \in DOMAIN keys})
                      /\ {keys[k] : k \in DOMAIN keys} \subseteq S
    OBVIOUS
  <2>1. keys \in Seq(S)
    BY <1>4
  <2>2. DOMAIN keys = 1..Len(keys) /\ Len(keys) \in Nat /\ \A k \in 1..Len(keys) : keys[k] \in S
    BY <2>1, LenProperties, ElementOfSeq
  <2>3. IsFiniteSet(DOMAIN keys)
    BY <2>2, UpToIsFinite
  <2> QED
    BY <2>2, <2>3, ImageIsFinite
<1> DEFINE keysOf == [row \in RowsOf(1) |-> {row.keys[k] : k \in DOMAIN row.keys}]
           sets == {keysOf[row] : row \in RowsOf(1)}
<1>7. KeysOf(1) = UNION sets
  BY DEF KeysOf
<1>8. IsFiniteSet(sets) /\ \A T \in sets : IsFiniteSet(T) /\ T \subseteq S
  <2>1. \A T \in sets : IsFiniteSet(T) /\ T \subseteq S
    BY <1>6
  <2>2. DOMAIN keysOf = RowsOf(1)
    OBVIOUS
  <2>3. IsFiniteSet(sets)
    <3> HIDE DEF keysOf
    <3> QED
      BY <1>5, <2>2, ImageIsFinite
  <2> QED
    BY <2>1, <2>3
<1> HIDE DEF keysOf, sets
<1>9. IsFiniteSet(KeysOf(1)) /\ KeysOf(1) \subseteq S
  BY <1>7, <1>8, FS_UNION
<1>10. ASSUME NEW T \in SUBSET KeysOf(1), NEW f, DOMAIN f = T, \A b \in T : f[b] \in Int
       PROVE  Max({0} \cup {f[b] : b \in T}) \in Nat
  <2> DEFINE M == {f[b] : b \in T}
  <2>1. IsFiniteSet(T)
    BY <1>9, FS_Subset
  <2>2. IsFiniteSet(M) /\ M \in SUBSET Int
    BY <1>10, <2>1, ImageIsFinite
  <2> HIDE DEF M
  <2>3. Max({0} \cup M) \in Nat
    BY <2>2, MaxWithZero
  <2> QED
    BY <2>3 DEF M
<1>11. max_single_char_width \in Int
  <2> DEFINE T == {c \in KeysOf(1) : SingleChar(c)}
             f == [b \in T |-> b.c_width]
  <2>1. \A b \in T : f[b] \in Int
    BY <1>9 DEF Numbers
  <2>2. max_single_char_width = Max({0} \cup {f[b] : b \in T})
    BY DEF max_single_char_width
  <2>3. T \in SUBSET KeysOf(1) /\ DOMAIN f = T
    OBVIOUS
  <2> HIDE DEF T, f
  <2>4. Max({0} \cup {f[b] : b \in T}) \in Nat
    BY <1>10, <2>1, <2>3
  <2> QED
    BY <2>2, <2>4
<1>12. max_single_char_height \in Nat \ {0}
  <2> DEFINE T == {c \in KeysOf(1) : ~c.is_width_spec}
             f == [b \in T |-> b.c_height]
  <2>1. \A b \in T : f[b] \in Int
    BY <1>9 DEF Numbers
  <2>2. max_single_char_height = 2 + Max({0} \cup {f[b] : b \in T})
    BY DEF max_single_char_height
  <2>3. T \in SUBSET KeysOf(1) /\ DOMAIN f = T
    OBVIOUS
  <2> HIDE DEF T, f
  <2>4. Max({0} \cup {f[b] : b \in T}) \in Nat
    BY <1>10, <2>1, <2>3
  <2> QED
    BY <2>2, <2>4
<1> QED
  BY <1>11, <1>12

LEMMA NumbersOfSized ==
  ASSUME NEW b, Numbers(b), max_single_char_width \in Int, max_single_char_height \in Nat \ {0}
  PROVE  Numbers(SizedKey(b))
<1> DEFINE w == IF b.key_span_width # 0 THEN b.key_span_width * max_single_char_width
                ELSE IF SingleChar(b) THEN max_single_char_width
                ELSE b.c_width
           h == max_single_char_height
<1>1. w \in Int /\ h \in Int
  BY DEF Numbers
<1>2. SizedKey(b) = [b EXCEPT !.c_height = h, !.c_width = w]
  BY DEF SizedKey
<1> HIDE DEF w, h
<1> QED
  BY <1>1, <1>2 DEF Numbers

SizedKeys(S) == {SizedKey(b) : b \in S}

LEMMA RowIsSized ==
  ASSUME NEW S, \A b \in S : Numbers(b), NEW row \in Row(S),
         max_single_char_width \in Int, max_single_char_height \in Nat \ {0}
  PROVE  SizedRow(row) \in SizedRows(SizedKeys(S))
<1> DEFINE n == Len(row.keys)
           keys == [k \in DOMAIN row.keys |-> SizedKey(row.keys[k])]
           widths == [k \in DOMAIN keys |-> keys[k].c_width]
<1>1. row.keys \in Seq(S)
  BY DEF Row
<1>2. n \in Nat /\ DOMAIN row.keys = 1..n /\ \A k \in 1..n : row.keys[k] \in S
  BY <1>1, LenProperties, ElementOfSeq
<1>3. DOMAIN keys = 1..n /\ \A k \in 1..n : keys[k] \in SizedKeys(S)
  BY <1>2 DEF SizedKeys
<1>4. \A b \in SizedKeys(S) : Numbers(b)
  BY NumbersOfSized DEF SizedKeys
<1>5. keys = [k \in 1..n |-> keys[k]]
  BY <1>3
<1>6. keys \in Seq(SizedKeys(S))
  <2> HIDE DEF keys, n
  <2> QED
    BY <1>2, <1>3, <1>5, IsList
<1>7. DOMAIN widths = 1..n /\ \A k \in 1..n : widths[k] \in Int
  <2> HIDE DEF keys, n
  <2> QED
    BY <1>3, <1>4 DEF Numbers
<1>8. Total(widths, n) \in Int
  <2>1. n \in 0..n
    BY <1>2
  <2> HIDE DEF widths, n
  <2> QED
    BY <1>2, <1>7, <2>1, TotalIsInt
<1>9. SizedRow(row) = [keys |-> keys, minw |-> Total(widths, n),
                       minh |-> IF keys = <<>> THEN 0 ELSE max_single_char_height]
  BY DEF SizedRow
<1>10. (IF keys = <<>> THEN 0 ELSE max_single_char_height) \in Nat
  OBVIOUS
<1> HIDE DEF keys, widths, n
<1> QED
  BY <1>6, <1>8, <1>9, <1>10 DEF SizedRows

SRows(j) == [r \in DOMAIN layouts[j].rows |-> SizedRow(layouts[j].rows[r])]
SWidth(j) == Max({0} \cup {SRows(j)[r].minw : r \in DOMAIN SRows(j)})
SHeights(j) == [r \in DOMAIN SRows(j) |-> SRows(j)[r].minh]

LEMMA SizedIs ==
  ASSUME NEW l
  PROVE  Sized(l) = [layouts[l] EXCEPT
                       !.rows = SRows(l),
                       !.minh = Total(SHeights(l), Len(layouts[l].rows)),
                       !.minw = Max({SWidth(j) : j \in 1..l})]
BY DEF Sized, SRows, SWidth, SHeights

LEMMA LayoutIsSized ==
  ASSUME NEW S, layouts \in Seq(Layout(S)), \A b \in S : Numbers(b), layouts # <<>>,
         window[1] \in Nat, window[2] \in Nat, NEW l \in 1..Len(layouts)
  PROVE  Sized(l) \in SizedLayout(SizedKeys(S)) /\ RowsHeight(Sized(l)) = Sized(l).minh
<1>1. max_single_char_width \in Int /\ max_single_char_height \in Nat \ {0}
  BY LargestSizes
<1>2. ASSUME NEW j \in 1..Len(layouts)
      PROVE  /\ SRows(j) \in Seq(SizedRows(SizedKeys(S)))
             /\ Len(SRows(j)) = Len(layouts[j].rows)
             /\ Len(layouts[j].rows) \in Nat
             /\ DOMAIN SRows(j) = 1..Len(layouts[j].rows)
             /\ \A r \in 1..Len(layouts[j].rows) : SRows(j)[r] \in SizedRows(SizedKeys(S))
             /\ SWidth(j) \in Nat
  <2> DEFINE n == Len(layouts[j].rows)
  <2>1. layouts[j].rows \in Seq(Row(S))
    <3>1. layouts[j] \in Layout(S)
      BY ElementOfSeq
    <3> QED
      BY <3>1 DEF Layout
  <2>2. n \in Nat /\ DOMAIN layouts[j].rows = 1..n /\ \A r \in 1..n : layouts[j].rows[r] \in Row(S)
    BY <2>1, LenProperties, ElementOfSeq
  <2>3. \A r \in 1..n : SizedRow(layouts[j].rows[r]) \in SizedRows(SizedKeys(S))
    BY <1>1, <2>2, RowIsSized
  <2>4. /\ SRows(j) = [r \in 1..n |-> SRows(j)[r]]
        /\ \A r \in 1..n : SRows(j)[r] \in SizedRows(SizedKeys(S))
        /\ DOMAIN SRows(j) = 1..n
    BY <2>2, <2>3 DEF SRows
  <2> HIDE DEF n
  <2>5. SRows(j) \in Seq(SizedRows(SizedKeys(S))) /\ Len(SRows(j)) = n
    BY <2>2, <2>4, IsList
  <2>6. SWidth(j) \in Nat
    <3> DEFINE f == [r \in 1..n |-> SRows(j)[r].minw]
               M == {f[r] : r \in 1..n}
    <3>1. \A r \in 1..n : f[r] \in Int
      BY <2>4 DEF SizedRows
    <3>2. SWidth(j) = Max({0} \cup M)
      BY <2>4 DEF SWidth
    <3>3. IsFiniteSet(M) /\ M \in SUBSET Int
      <4>1. IsFiniteSet(1..n)
        BY <2>2, UpToIsFinite
      <4>2. DOMAIN f = 1..n
        OBVIOUS
      <4> HIDE DEF f
      <4> QED
        BY <3>1, <4>1, <4>2, ImageIsFinite
    <3> HIDE DEF M
    <3> QED
      BY <3>2, <3>3, MaxWithZero
  <2> QED
    BY <2>2, <2>4, <2>5, <2>6 DEF n
<1> DEFINE n == Len(layouts[l].rows)
           h == Total(SHeights(l), n)
           w == Max({SWidth(j) : j \in 1..l})
<1>3. DOMAIN SHeights(l) = 1..n /\ \A r \in 1..n : SHeights(l)[r] \in Nat
  BY <1>2 DEF SHeights, SizedRows
<1>4. n \in Nat /\ h \in Nat
  <2>1. n \in Nat /\ n \in 0..n
    BY <1>2
  <2> HIDE DEF n
  <2>2. \A i \in 0..n : Total(SHeights(l), i) \in Nat
    BY <1>3, <2>1, TotalGrows
  <2> QED
    BY <2>1, <2>2
<1>5. w \in Nat
  <2> DEFINE f == [j \in 1..l |-> SWidth(j)]
             M == {f[j] : j \in 1..l}
  <2>1. l \in Nat /\ l \in 1..l /\ 1..l \subseteq 1..Len(layouts)
    BY LenProperties
  <2>2. \A j \in 1..l : f[j] \in Nat
    BY <1>2, <2>1
  <2>3. w = Max(M)
    OBVIOUS
  <2>4. IsFiniteSet(M) /\ M \in SUBSET Int /\ M # {} /\ \A y \in M : y \in Nat
    <3>1. IsFiniteSet(1..l)
      BY <2>1, UpToIsFinite
    <3>2. DOMAIN f = 1..l
      OBVIOUS
    <3> HIDE DEF f
    <3> QED
      BY <2>1, <2>2, <3>1, <3>2, ImageIsFinite
  <2> HIDE DEF M
  <2>5. Max(M) \in M
    BY <2>4, MaxIsIn
  <2> QED
    BY <2>3, <2>4, <2>5
<1>6. Sized(l) = [layouts[l] EXCEPT !.rows = SRows(l), !.minh = h, !.minw = w]
  BY SizedIs
<1>7. layouts[l] \in Layout(S)
  BY ElementOfSeq
<1>8. SRows(l) \in Seq(SizedRows(SizedKeys(S))) /\ Len(SRows(l)) = n
  BY <1>2
<1> HIDE DEF h, w, n
<1>9. Sized(l) \in SizedLayout(SizedKeys(S))
  BY <1>4, <1>5, <1>6, <1>7, <1>8 DEF Layout, SizedLayout
<1>10. Sized(l).rows = SRows(l) /\ Sized(l).minh = h
  BY <1>6, <1>7 DEF Layout
<1>11. RowsHeight(Sized(l)) = h
  <2>1. Heights(Sized(l)) = SHeights(l)
    BY <1>10 DEF Heights, SHeights
  <2> QED
    BY <1>8, <1>10, <2>1 DEF RowsHeight, h
<1> QED
  BY <1>9, <1>10, <1>11

LEMMA PassesSize ==
  ASSUME NEW S, layouts \in Seq(Layout(S)), \A b \in S : Numbers(b), layouts # <<>>,
         window[1] \in Nat, window[2] \in Nat, NEW ls, ls = TwoPasses
  PROVE  /\ ls \in Seq(SizedLayout(SizedKeys(S)))
         /\ \A b \in SizedKeys(S) : Numbers(b)
         /\ 1 \in 1..Len(ls)
         /\ \A l \in 1..Len(ls) : RowsHeight(ls[l]) <= ls[1].minh
<1> DEFINE T == SizedKeys(S)
           n == Len(layouts)
           sized == [l \in DOMAIN layouts |-> Sized(l)]
           hs == [l \in DOMAIN sized |-> sized[l].minh]
           M == {hs[l] : l \in 1..n}
           first == [sized[1] EXCEPT !.minh = Max(M)]
<1>1. n \in Nat /\ DOMAIN layouts = 1..n /\ 1 \in 1..n
  BY LenProperties, EmptySeq
<1>2. \A b \in T : Numbers(b)
  BY LargestSizes, NumbersOfSized DEF SizedKeys
<1>3. /\ DOMAIN sized = 1..n
      /\ \A l \in 1..n : sized[l] \in SizedLayout(T) /\ RowsHeight(sized[l]) = sized[l].minh
  BY <1>1, LayoutIsSized
<1>4. sized = [l \in 1..n |-> sized[l]]
  BY <1>1
<1>5. ls = [sized EXCEPT ![1] = first]
  <2>1. {sized[l].minh : l \in DOMAIN sized} = M
    BY <1>3
  <2> HIDE DEF M
  <2>2. Max({sized[l].minh : l \in DOMAIN sized}) = Max(M)
    BY <2>1
  <2> QED
    BY <2>2 DEF TwoPasses
<1> HIDE DEF sized, T, n
<1>6. sized \in Seq(SizedLayout(T)) /\ Len(sized) = n
  BY <1>1, <1>3, <1>4, IsList
<1>7. DOMAIN hs = 1..n /\ \A l \in 1..n : hs[l] = sized[l].minh /\ hs[l] \in Nat
  BY <1>3 DEF SizedLayout
<1>8. Max(M) \in Nat /\ \A l \in 1..n : sized[l].minh <= Max(M)
  <2>1. IsFiniteSet(1..n)
    BY <1>1, UpToIsFinite
  <2>2. IsFiniteSet(M) /\ M \in SUBSET Int /\ M # {} /\ \A y \in M : y \in Nat
    <3> HIDE DEF hs
    <3>1. IsFiniteSet(M)
      BY <1>7, <2>1, ImageIsFinite
    <3>2. M # {} /\ \A y \in M : y \in Nat
      BY <1>1, <1>7
    <3> QED
      BY <3>1, <3>2
  <2>3. \A l \in 1..n : sized[l].minh \in M
    BY <1>3, <1>7
  <2> HIDE DEF M
  <2>4. Max(M) \in M /\ \A y \in M : y <= Max(M)
    BY <2>2, MaxIsIn
  <2> QED
    BY <2>2, <2>3, <2>4
<1>9. first \in SizedLayout(T) /\ first.minh = Max(M) /\ first.rows = sized[1].rows
  <2> HIDE DEF M
  <2> QED
    BY <1>1, <1>3, <1>8 DEF SizedLayout
<1> HIDE DEF first, M
<1>10. /\ ls \in Seq(SizedLayout(T)) /\ Len(ls) = n
       /\ \A j \in 1..n : j # 1 => ls[j] = sized[j]
       /\ ls[1] = first
  BY <1>1, <1>5, <1>6, <1>9, Replaced
<1>11. ASSUME NEW l \in 1..n PROVE RowsHeight(ls[l]) <= ls[1].minh
  <2>1. ls[l].rows = sized[l].rows
    BY <1>9, <1>10
  <2>2. RowsHeight(ls[l]) = RowsHeight(sized[l])
    BY <2>1 DEF RowsHeight, Heights
  <2> QED
    BY <1>3, <1>8, <1>9, <1>10, <2>2
<1> QED
  BY <1>1, <1>2, <1>10, <1>11 DEF T

-----------------------------------------------------------------------------
(* kb_size.                                                                 *)

\* The keys of a row follow each other from the left edge of the window to the
\* last column but one.
RowIsFilled(keys, n, w) ==
  /\ DOMAIN keys = 1..n
  /\ \A k \in 1..n : keys[k].x \in Int /\ keys[k].w \in Int /\ keys[k].h = keys[1].h
  /\ keys[1].h \in Int
  /\ keys[1].x = 0
  /\ \A k \in 1..(n - 1) : keys[k + 1].x = keys[k].x + keys[k].w
  /\ keys[n].x + keys[n].w = w - 1

LEMMA RowGeometry ==
  ASSUME NEW S, \A b \in S : Numbers(b), NEW l \in SizedLayout(S), l.minh # 0,
         NEW r \in 1..Len(l.rows), l.rows[r].keys # <<>>, l.rows[r].minw > 0,
         NEW n, n = Len(l.rows[r].keys), NEW c, c = RowCells(l, r)
  PROVE  /\ n \in Nat \ {0}
         /\ RowIsFilled(c.keys, n, l.w)
         /\ c.keys[1].h <= c.h
         /\ c.h \in Int /\ c.h * l.minh <= l.rows[r].minh * l.h
<1> DEFINE row == l.rows[r]
           h == Scale(row.minh, l.minh, l.h)
           share == [k \in DOMAIN row.keys |-> Scale(row.keys[k].c_width, row.minw, l.w)]
           rest_of_row == l.w - Before(share, n + 1) - 1
           height == IF r = Len(l.rows) THEN h - 1 ELSE h
           keys == [k \in 1..n |->
                     [x |-> Before(share, k),
                      w |-> IF k = n THEN share[k] + rest_of_row ELSE share[k],
                      h |-> height]]
<1>1. c = [h |-> h, keys |-> keys]
  BY DEF RowCells
<1>2. row \in SizedRows(S)
  <2>1. l.rows \in Seq(SizedRows(S))
    BY DEF SizedLayout
  <2> QED
    BY <2>1, ElementOfSeq
<1>3. row.keys \in Seq(S) /\ row.minw \in Nat \ {0} /\ row.minh \in Nat
  BY <1>2 DEF SizedRows
<1>4. l.w \in Nat /\ l.h \in Nat /\ l.minh \in Nat \ {0}
  BY DEF SizedLayout
<1>5. n \in Nat \ {0} /\ DOMAIN row.keys = 1..n /\ \A k \in 1..n : row.keys[k] \in S
  BY <1>3, LenProperties, ElementOfSeq, EmptySeq
<1>6. DOMAIN share = 1..n /\ \A k \in 1..n : share[k] \in Int
  <2>1. \A k \in 1..n : row.keys[k].c_width \in Int
    BY <1>5 DEF Numbers
  <2> HIDE DEF row
  <2>2. ASSUME NEW k \in 1..n PROVE Scale(row.keys[k].c_width, row.minw, l.w) \in Int
    <3> DEFINE a == row.keys[k].c_width
               b == row.minw
               w == l.w
    <3>1. a \in Int /\ b \in Nat \ {0} /\ w \in Int
      BY <1>3, <1>4, <2>1
    <3> HIDE DEF a, b, w
    <3>2. Scale(a, b, w) \in Int
      BY <3>1, ScaleRoundsDown
    <3> QED
      BY <3>2 DEF a, b, w
  <2> QED
    BY <1>5, <2>2
<1>7. h \in Int /\ h * l.minh <= row.minh * l.h
  <2> DEFINE a == row.minh
             b == l.minh
             w == l.h
  <2>1. a \in Int /\ b \in Nat \ {0} /\ w \in Int
    BY <1>3, <1>4
  <2> HIDE DEF a, b, w
  <2>2. Scale(a, b, w) \in Int /\ Scale(a, b, w) * b <= a * w
    BY <2>1, ScaleRoundsDown
  <2> QED
    BY <2>2 DEF a, b, w
<1> HIDE DEF h, share, row
<1>8. /\ Before(share, 1) = 0
      /\ \A k \in 1..n : /\ Before(share, k) \in Int
                         /\ Before(share, k + 1) = Before(share, k) + share[k]
                         /\ Before(share, k + 1) \in Int
  <2>1. Total(share, 0) = 0 /\ \A k \in 1..n : Total(share, k) = Total(share, k - 1) + share[k]
    BY <1>5, <1>6, TotalSums
  <2>2. \A k \in 0..n : Total(share, k) \in Int
    BY <1>5, <1>6, TotalIsInt
  <2>3. \A k \in 1..n : k - 1 \in 0..n /\ k \in 0..n /\ (k + 1) - 1 = k /\ 1 - 1 = 0
    BY <1>5
  <2> QED
    BY <1>5, <2>1, <2>2, <2>3 DEF Before
<1>9. rest_of_row \in Int /\ height \in Int /\ height <= h
  <2>1. n \in 1..n
    BY <1>5
  <2>2. Before(share, n + 1) \in Int
    BY <1>8, <2>1
  <2>3. rest_of_row \in Int
    BY <1>4, <2>2
  <2>4. height \in Int /\ height <= h
    BY <1>7
  <2> QED
    BY <2>3, <2>4
<1>10. Before(share, n) + (share[n] + rest_of_row) = l.w - 1
  <2> DEFINE a == Before(share, n)
             b == Before(share, n + 1)
             s == share[n]
  <2>1. n \in 1..n
    BY <1>5
  <2>2. a \in Int /\ b \in Int /\ s \in Int /\ b = a + s /\ rest_of_row = l.w - b - 1
    BY <1>6, <1>8, <2>1
  <2> HIDE DEF a, b, s, rest_of_row
  <2>3. a + (s + rest_of_row) = l.w - 1
    BY <1>4, <2>2
  <2> QED
    BY <2>3 DEF a, s
<1> HIDE DEF rest_of_row, height
<1>11. RowIsFilled(keys, n, l.w)
  <2>1. 1 \in 1..n /\ n \in 1..n
    BY <1>5
  <2>2. \A k \in 1..n : keys[k].x \in Int /\ keys[k].w \in Int /\ keys[k].h = height
    BY <1>6, <1>8, <1>9, <2>1
  <2>3. keys[1].x = 0 /\ keys[1].h = height
    BY <1>8, <2>1
  <2>4. keys[n].x + keys[n].w = l.w - 1
    BY <1>10, <2>1
  <2>5. \A k \in 1..(n - 1) : keys[k + 1].x = keys[k].x + keys[k].w
    <3>1. \A k \in 1..(n - 1) : k \in 1..n /\ k + 1 \in 1..n /\ k # n
      BY <1>5
    <3> QED
      BY <1>8, <3>1
  <2> HIDE DEF keys
  <2>6. DOMAIN keys = 1..n
    BY DEF keys
  <2> QED
    BY <1>9, <2>1, <2>2, <2>3, <2>4, <2>5, <2>6 DEF RowIsFilled
<1>12. keys[1].h <= h
  <2>1. 1 \in 1..n
    BY <1>5
  <2> QED
    BY <1>9, <2>1
<1> HIDE DEF keys
<1> QED
  BY <1>1, <1>5, <1>7, <1>11, <1>12 DEF row

\* A sized layout that can be shown.
Shown(l) ==
  /\ \A r \in 1..Len(l.rows) : l.rows[r].keys # <<>> /\ l.rows[r].minw > 0
  /\ RowsHeight(l) <= l.minh

LEMMA RowsHeights ==
  ASSUME NEW S, NEW l \in SizedLayout(S), NEW n, n = Len(l.rows)
  PROVE  /\ n \in Nat
         /\ DOMAIN l.rows = 1..n
         /\ \A r \in 1..n : l.rows[r] \in SizedRows(S)
         /\ DOMAIN Heights(l) = 1..n
         /\ \A r \in 1..n : Heights(l)[r] = l.rows[r].minh /\ l.rows[r].minh \in Nat
<1>1. l.rows \in Seq(SizedRows(S))
  BY DEF SizedLayout
<1>2. n \in Nat /\ DOMAIN l.rows = 1..n /\ \A r \in 1..n : l.rows[r] \in SizedRows(S)
  BY <1>1, LenProperties, ElementOfSeq
<1> QED
  BY <1>2 DEF Heights, SizedRows

\* kb_size fits the rows into the window.
LEMMA RowsFit ==
  ASSUME NEW S, \A b \in S : Numbers(b), NEW l \in SizedLayout(S), Shown(l),
         NEW g, g = Geometry(l), NEW n, n = Len(l.rows)
  PROVE  /\ n \in Nat /\ DOMAIN g = 1..n
         /\ \A r \in 1..n :
              /\ g[r].y \in Int /\ g[r].h \in Int /\ g[r].y + g[r].h <= l.h
              /\ Len(l.rows[r].keys) \in Nat \ {0}
              /\ RowIsFilled(g[r].keys, Len(l.rows[r].keys), l.w)
              /\ g[r].keys[1].h <= g[r].h
<1> DEFINE rows == [r \in DOMAIN l.rows |-> RowCells(l, r)]
           heights == [r \in DOMAIN rows |-> rows[r].h]
<1>1. /\ n \in Nat /\ DOMAIN l.rows = 1..n
      /\ \A r \in 1..n : l.rows[r] \in SizedRows(S)
      /\ DOMAIN Heights(l) = 1..n
      /\ \A r \in 1..n : Heights(l)[r] = l.rows[r].minh /\ l.rows[r].minh \in Nat
  BY RowsHeights
<1>2. g = [r \in 1..n |-> [y |-> Before(heights, r), h |-> rows[r].h, keys |-> rows[r].keys]]
  BY <1>1 DEF Geometry
<1>3. l.w \in Nat /\ l.h \in Nat /\ l.minh \in Nat
  BY DEF SizedLayout
<1>4. ASSUME NEW r \in 1..n PROVE l.minh # 0
  <2>1. \A i \in 0..n : Total(Heights(l), i) \in Nat /\ Total(Heights(l), i) <= Total(Heights(l), n)
    BY <1>1, TotalGrows
  <2>2. Total(Heights(l), r) = Total(Heights(l), r - 1) + Heights(l)[r]
    BY <1>1, TotalSums
  <2>3. Heights(l)[r] \in Nat \ {0}
    BY <1>1 DEF Shown, SizedRows
  <2>4. Total(Heights(l), n) <= l.minh
    BY DEF Shown, RowsHeight
  <2>5. r - 1 \in 0..n /\ r \in 0..n /\ n \in 0..n
    BY <1>1
  <2> DEFINE before == Total(Heights(l), r - 1)
             with == Total(Heights(l), r)
             all == Total(Heights(l), n)
             own == Heights(l)[r]
  <2>6. before \in Nat /\ with \in Nat /\ all \in Nat /\ with <= all
    BY <2>1, <2>5
  <2>7. with = before + own /\ own \in Nat \ {0} /\ all <= l.minh
    BY <2>2, <2>3, <2>4
  <2> HIDE DEF before, with, all, own
  <2> QED
    BY <1>3, <2>6, <2>7
<1>5. ASSUME NEW r \in 1..n
      PROVE  /\ Len(l.rows[r].keys) \in Nat \ {0}
             /\ RowIsFilled(rows[r].keys, Len(l.rows[r].keys), l.w)
             /\ rows[r].keys[1].h <= rows[r].h
             /\ rows[r].h \in Int /\ rows[r].h * l.minh <= l.rows[r].minh * l.h
  <2>1. rows[r] = RowCells(l, r)
    BY <1>1
  <2>2. l.rows[r].keys # <<>> /\ l.rows[r].minw > 0
    BY DEF Shown
  <2> HIDE DEF rows
  <2> QED
    BY <1>4, <2>1, <2>2, RowGeometry
<1>6. DOMAIN heights = 1..n /\ \A r \in 1..n : heights[r] = rows[r].h
  BY <1>1
<1> HIDE DEF rows, heights
<1>7. CASE n = 0
  BY <1>1, <1>2, <1>7
<1>8. CASE n # 0
  <2>1. l.minh \in Nat \ {0}
    <3>1. 1 \in 1..n
      BY <1>1, <1>8
    <3> QED
      BY <1>3, <1>4, <3>1
  <2>2. Total(Heights(l), n) <= l.minh
    BY DEF Shown, RowsHeight
  <2>3. \A r \in 1..n : heights[r] \in Int /\ heights[r] * l.minh <= Heights(l)[r] * l.h
    BY <1>1, <1>5, <1>6
  <2>4. \A r \in 0..n : Total(heights, r) \in Int /\ Total(heights, r) <= l.h
    BY <1>1, <1>3, <1>6, <2>1, <2>2, <2>3, SharesFit
  <2>5. ASSUME NEW r \in 1..n
        PROVE  g[r].y \in Int /\ g[r].h \in Int /\ g[r].y + g[r].h <= l.h
    <3>1. Total(heights, r) = Total(heights, r - 1) + heights[r]
      BY <1>1, <1>6, TotalSums
    <3>2. r - 1 \in 0..n /\ r \in 0..n
      BY <1>1
    <3>3. g[r].y = Total(heights, r - 1) /\ g[r].h = heights[r]
      BY <1>2, <1>6 DEF Before
    <3> QED
      BY <2>3, <2>4, <3>1, <3>2, <3>3
  <2>6. \A r \in 1..n : g[r].h = rows[r].h /\ g[r].keys = rows[r].keys
    BY <1>2
  <2> QED
    BY <1>1, <1>2, <1>5, <2>5, <2>6
<1> QED
  BY <1>7, <1>8

\* A column of the window but the first and the last two is inside of a key or
\* at the left edge of one.
LEMMA KeyOfColumn ==
  ASSUME NEW n \in Nat \ {0}, NEW keys, NEW w \in Int, RowIsFilled(keys, n, w),
         NEW x \in Int, 0 < x, x < w - 1, \A k \in 1..n : x # keys[k].x
  PROVE  \E k \in 1..n : keys[k].x < x /\ x < keys[k].x + keys[k].w
<1> DEFINE S == {k \in 1..n : keys[k].x < x}
<1>1. 1 \in S
  BY DEF RowIsFilled
<1>2. IsFiniteSet(S) /\ S \in SUBSET Int
  <2>1. S \in SUBSET (1..n)
    OBVIOUS
  <2>2. IsFiniteSet(1..n)
    BY UpToIsFinite
  <2>3. S \in SUBSET Int
    OBVIOUS
  <2> HIDE DEF S
  <2>4. IsFiniteSet(S)
    BY <2>1, <2>2, FS_Subset
  <2> QED
    BY <2>3, <2>4
<1>3. Max(S) \in S /\ \A k \in S : k <= Max(S)
  <2> HIDE DEF S
  <2> QED
    BY <1>1, <1>2, MaxIsIn
<1> DEFINE k == Max(S)
<1>4. k \in 1..n /\ keys[k].x < x /\ \A j \in 1..n : keys[j].x < x => j <= k
  BY <1>3
<1> HIDE DEF k, S
<1>5. \A j \in 1..n : keys[j].x \in Int /\ keys[j].w \in Int
  BY DEF RowIsFilled
<1>6. CASE k = n
  BY <1>4, <1>6 DEF RowIsFilled
<1>7. CASE k # n
  <2>1. k \in 1..(n - 1) /\ k + 1 \in 1..n /\ ~(k + 1 <= k)
    BY <1>4, <1>7
  <2>2. keys[k + 1].x = keys[k].x + keys[k].w
    BY <2>1 DEF RowIsFilled
  <2>3. ~(keys[k + 1].x < x) /\ x # keys[k + 1].x
    BY <1>4, <2>1
  <2>4. x < keys[k + 1].x
    BY <1>5, <2>1, <2>3
  <2> QED
    BY <1>4, <2>2, <2>4
<1> QED
  BY <1>6, <1>7

-----------------------------------------------------------------------------
(* Layouts in a window of whatever size, in whatever order.                 *)

\* A layout that is shown was sized for the window, and is at least as high,
\* before it is stretched, as the rows of every layout it may be switched to.
Placed ==
  /\ status \in {"sized", "running"} =>
       /\ \E S : layouts \in Seq(SizedLayout(S)) /\ \A b \in S : Numbers(b)
       /\ vbox \in 1..Len(layouts)
       /\ \A l \in 1..Len(layouts) : RowsHeight(layouts[l]) <= Kb.minh
  /\ status = "running" =>
       /\ <<Kb.w, Kb.h>> = window
       /\ Sizable(vbox)
       /\ cells = Geometry(Kb)
       /\ active = None \/ active \in Places(vbox)

PlacedInv == TimerInv /\ NumbersRead /\ Placed

LEMMA RowsOfLayout ==
  ASSUME NEW S, layouts \in Seq(SizedLayout(S)), NEW l \in 1..Len(layouts)
  PROVE  /\ layouts[l] \in SizedLayout(S)
         /\ DOMAIN layouts[l].rows = 1..Len(layouts[l].rows)
         /\ Len(layouts[l].rows) \in Nat
         /\ \A r \in 1..Len(layouts[l].rows) :
              /\ layouts[l].rows[r] \in SizedRows(S)
              /\ Len(layouts[l].rows[r].keys) \in Nat
              /\ DOMAIN layouts[l].rows[r].keys = 1..Len(layouts[l].rows[r].keys)
              /\ \A k \in 1..Len(layouts[l].rows[r].keys) : layouts[l].rows[r].keys[k] \in S
<1>1. layouts[l] \in SizedLayout(S)
  BY ElementOfSeq
<1>2. /\ DOMAIN layouts[l].rows = 1..Len(layouts[l].rows) /\ Len(layouts[l].rows) \in Nat
      /\ \A r \in 1..Len(layouts[l].rows) : layouts[l].rows[r] \in SizedRows(S)
  BY <1>1, RowsHeights
<1>3. ASSUME NEW r \in 1..Len(layouts[l].rows)
      PROVE  /\ Len(layouts[l].rows[r].keys) \in Nat
             /\ DOMAIN layouts[l].rows[r].keys = 1..Len(layouts[l].rows[r].keys)
             /\ \A k \in 1..Len(layouts[l].rows[r].keys) : layouts[l].rows[r].keys[k] \in S
  <2>1. layouts[l].rows[r].keys \in Seq(S)
    BY <1>2 DEF SizedRows
  <2> QED
    BY <2>1, LenProperties, ElementOfSeq
<1> QED
  BY <1>1, <1>2, <1>3

\* A place is a row and a key of it.
LEMMA PlaceIs ==
  ASSUME NEW S, layouts \in Seq(SizedLayout(S)), NEW l \in 1..Len(layouts)
  PROVE  \A p : p \in Places(l) <=>
           \E r \in 1..Len(layouts[l].rows) : \E k \in 1..Len(layouts[l].rows[r].keys) :
             p = <<r, k>>
<1>1. /\ DOMAIN layouts[l].rows = 1..Len(layouts[l].rows)
      /\ \A r \in 1..Len(layouts[l].rows) :
           DOMAIN layouts[l].rows[r].keys = 1..Len(layouts[l].rows[r].keys)
  BY RowsOfLayout
<1>2. \A p : p \in Places(l) <=>
        \E r \in 1..Len(layouts[l].rows) : p \in {r} \X (1..Len(layouts[l].rows[r].keys))
  BY <1>1 DEF Places
<1> QED
  BY <1>2

\* kb_find_button tries rows and keys in order, and finds one if there is one.
LEMMA FirstExists ==
  ASSUME NEW S \in SUBSET (Nat \X Nat), S # {}
  PROVE  \E p \in S : \A q \in S : p[1] < q[1] \/ (p[1] = q[1] /\ p[2] <= q[2])
<1> DEFINE rows == {p[1] : p \in S}
<1>1. rows \in SUBSET Nat /\ rows # {}
  OBVIOUS
<1>2. PICK row \in rows : \A r \in rows : row <= r
  <2> HIDE DEF rows
  <2> QED
    BY <1>1, LeastNumber
<1> DEFINE columns == {p[2] : p \in {q \in S : q[1] = row}}
<1>3. columns \in SUBSET Nat /\ columns # {}
  BY <1>2
<1>4. PICK column \in columns : \A c \in columns : column <= c
  <2> HIDE DEF columns
  <2> QED
    BY <1>3, LeastNumber
<1>5. PICK p \in S : p[1] = row /\ p[2] = column
  BY <1>4
<1>6. ASSUME NEW q \in S
      PROVE  p[1] < q[1] \/ (p[1] = q[1] /\ p[2] <= q[2])
  <2>1. p[1] <= q[1] /\ p[1] \in Nat /\ q[1] \in Nat
    BY <1>2, <1>5
  <2>2. p[1] = q[1] => p[2] <= q[2]
    BY <1>4, <1>5
  <2> QED
    BY <2>1, <2>2
<1> QED
  BY <1>6

LEMMA FoundKey ==
  ASSUME NEW S, layouts \in Seq(SizedLayout(S)), vbox \in 1..Len(layouts), NEW x, NEW y
  PROVE  /\ kb_find_button(x, y) # None =>
              /\ kb_find_button(x, y) \in Places(vbox)
              /\ Inside(x, y, kb_find_button(x, y)[1], kb_find_button(x, y)[2])
         /\ kb_find_button(x, y) = None =>
              \/ x > Kb.w \/ y > Kb.h
              \/ \A p \in Places(vbox) : ~Inside(x, y, p[1], p[2])
<1> DEFINE hits == {p \in Places(vbox) : Inside(x, y, p[1], p[2])}
           first == CHOOSE p \in hits : \A q \in hits : p[1] < q[1] \/ (p[1] = q[1] /\ p[2] <= q[2])
<1>1. kb_find_button(x, y) = IF hits = {} \/ x > Kb.w \/ y > Kb.h THEN None ELSE first
  BY DEF kb_find_button
<1>2. \A p \in Places(vbox) : p \in Nat \X Nat /\ p # None
  <2>1. \A p \in Places(vbox) : \E r \in Nat : \E k \in Nat : p = <<r, k>>
    <3>1. \A r \in 1..Len(Kb.rows) : r \in Nat /\ \A k \in 1..Len(Kb.rows[r].keys) : k \in Nat
      BY RowsOfLayout DEF Kb
    <3> QED
      BY <3>1, PlaceIs DEF Kb
  <2> QED
    BY <2>1 DEF None
<1>3. hits # {} => first \in hits
  <2>1. hits \in SUBSET (Nat \X Nat)
    BY <1>2
  <2> HIDE DEF hits
  <2>2. hits # {} => \E p \in hits : \A q \in hits : p[1] < q[1] \/ (p[1] = q[1] /\ p[2] <= q[2])
    BY <2>1, FirstExists
  <2> QED
    BY <2>2
<1> HIDE DEF first
<1> QED
  BY <1>1, <1>2, <1>3

LEMMA SameRows ==
  ASSUME NEW a, NEW b, a.rows = b.rows
  PROVE  RowsHeight(a) = RowsHeight(b)
<1>1. Heights(a) = Heights(b)
  BY DEF Heights
<1> QED
  BY <1>1 DEF RowsHeight

\* Sizes are assigned to a layout, which is shown.
LEMMA PlacedAnew ==
  ASSUME NEW S, layouts \in Seq(SizedLayout(S)), \A b \in S : Numbers(b),
         NEW n \in 1..Len(layouts), Sizable(n),
         NEW x \in SizedLayout(S), x.rows = layouts[n].rows,
         \A l \in 1..Len(layouts) : RowsHeight(layouts[l]) <= x.minh,
         layouts' = [layouts EXCEPT ![n] = x], vbox' = n,
         window' = <<x.w, x.h>>, cells' = Geometry(x),
         active' = None \/ active' \in Places(n)
  PROVE  Placed'
<1>1. /\ layouts' \in Seq(SizedLayout(S)) /\ Len(layouts') = Len(layouts)
      /\ \A l \in 1..Len(layouts) : l # n => layouts'[l] = layouts[l]
      /\ layouts'[n] = x
  BY Replaced
<1>2. \A l \in 1..Len(layouts) : layouts'[l].rows = layouts[l].rows
  BY <1>1
<1>3. Kb' = x
  BY <1>1 DEF Kb
<1>4. ASSUME NEW l \in 1..Len(layouts)
      PROVE  RowsHeight(layouts'[l]) = RowsHeight(layouts[l])
  BY <1>2, SameRows
<1>5. Sizable(vbox)'
  BY <1>2 DEF Sizable, RowsOf
<1>6. Places(vbox)' = Places(n)
  BY <1>2 DEF Places
<1>7. \A l \in 1..Len(layouts') : RowsHeight(layouts[l])' <= Kb'.minh
  BY <1>1, <1>3, <1>4 DEF RowsHeight, Heights
<1>8. (\E T : layouts \in Seq(SizedLayout(T)) /\ \A b \in T : Numbers(b))'
  BY <1>1 DEF SizedLayout, SizedRows, Numbers
<1>9. (cells = Geometry(Kb))'
  BY <1>3
<1> QED
  BY <1>1, <1>3, <1>5, <1>6, <1>7, <1>8, <1>9 DEF Placed

\* A step that assigns no sizes.
LEMMA PlacedStays ==
  ASSUME Placed, UNCHANGED <<window, status, layouts, vbox, cells>>,
         active' = active \/ active' = None \/ active' \in Places(vbox)
  PROVE  Placed'
<1>1. Kb' = Kb
  BY DEF Kb
<1>2. Sizable(vbox)' = Sizable(vbox) /\ Places(vbox)' = Places(vbox)
  BY DEF Sizable, RowsOf, Places
<1>3. \A l : RowsHeight(layouts[l])' = RowsHeight(layouts[l])
  BY DEF RowsHeight, Heights
<1> QED
  BY <1>1, <1>2, <1>3 DEF Placed

LEMMA ReadPlaced ==
  ASSUME PlacedInv, ReadLine, UNCHANGED gui
  PROVE  NumbersRead' /\ Placed'
<1>1. status = "reading" /\ vbox = 1 /\ vbox' = 1
  BY ReadLineStays DEF PlacedInv, TimerInv, Early, gui
<1>2. NumbersRead'
  BY NumbersReadStep DEF PlacedInv, NumbersRead
<1>3. CASE ~EndOfFile
  BY <1>2, <1>3, ReadingStops DEF Placed
<1>4. CASE EndOfFile
  <2>1. CASE layouts = <<>>
    <3>1. status' = "undefined"
      BY <1>4, <2>1 DEF EndOfFile
    <3> QED
      BY <1>2, <3>1 DEF Placed
  <2>2. CASE layouts # <<>>
    <3>1. status' = "sized" /\ layouts' = TwoPasses
      BY <1>4, <2>2 DEF EndOfFile
    <3>2. PICK S : layouts \in Seq(Layout(S)) /\ \A b \in S : Numbers(b)
      BY <1>1 DEF PlacedInv, NumbersRead
    <3>3. window[1] \in Nat /\ window[2] \in Nat
      BY <1>1 DEF PlacedInv, NumbersRead
    <3>4. /\ layouts' \in Seq(SizedLayout(SizedKeys(S)))
          /\ \A b \in SizedKeys(S) : Numbers(b)
          /\ 1 \in 1..Len(layouts')
          /\ \A l \in 1..Len(layouts') : RowsHeight(layouts'[l]) <= layouts'[1].minh
      BY <2>2, <3>1, <3>2, <3>3, PassesSize
    <3>5. Kb' = layouts'[1]
      BY <1>1 DEF Kb
    <3>6. (\E T : layouts \in Seq(SizedLayout(T)) /\ \A b \in T : Numbers(b))'
      BY <3>4 DEF SizedLayout, SizedRows, Numbers
    <3>7. \A l \in 1..Len(layouts') : RowsHeight(layouts[l])' <= Kb'.minh
      BY <3>4, <3>5 DEF RowsHeight, Heights
    <3> QED
      BY <1>1, <1>2, <3>1, <3>4, <3>6, <3>7 DEF Placed
  <2> QED
    BY <2>1, <2>2
<1> QED
  BY <1>3, <1>4

LEMMA RealizePlaced ==
  ASSUME PlacedInv, Realize
  PROVE  Placed'
<1>1. CASE status' # "running"
  <2>1. status' # "sized"
    BY <1>1 DEF Realize, Stop
  <2> QED
    BY <1>1, <2>1 DEF Placed
<1>2. CASE status' = "running"
  <2> DEFINE x == [layouts[1] EXCEPT !.w = IF @ = 0 THEN layouts[1].minw ELSE @,
                                     !.h = IF @ = 0 THEN layouts[1].minh ELSE @]
  <2>1. /\ status = "sized" /\ vbox' = vbox /\ active' = active /\ Sizable(1)
        /\ layouts' = [layouts EXCEPT ![1] = x]
        /\ window' = <<x.w, x.h>> /\ cells' = Geometry(x)
    BY <1>2 DEF Realize, Stop
  <2>2. vbox = 1 /\ active = None
    BY <2>1 DEF PlacedInv, TimerInv, Early
  <2>3. PICK S : layouts \in Seq(SizedLayout(S)) /\ \A b \in S : Numbers(b)
    BY <2>1 DEF PlacedInv, Placed
  <2>4. /\ 1 \in 1..Len(layouts)
        /\ \A l \in 1..Len(layouts) : RowsHeight(layouts[l]) <= layouts[1].minh
    BY <2>1, <2>2 DEF PlacedInv, Placed, Kb
  <2>5. layouts[1] \in SizedLayout(S)
    BY <2>3, <2>4, ElementOfSeq
  <2>6. x \in SizedLayout(S) /\ x.rows = layouts[1].rows /\ x.minh = layouts[1].minh
    BY <2>5 DEF SizedLayout
  <2> HIDE DEF x
  <2> QED
    BY <2>1, <2>2, <2>3, <2>4, <2>6, PlacedAnew
<1> QED
  BY <1>1, <1>2

LEMMA ConfigurePlaced ==
  ASSUME PlacedInv, NEW size \in WindowSizes, Configure(size)
  PROVE  Placed'
<1> DEFINE x == [layouts[vbox] EXCEPT !.w = size[1], !.h = size[2]]
<1>1. /\ status = "running" /\ UNCHANGED <<vbox, active>>
      /\ layouts' = [layouts EXCEPT ![vbox] = x]
      /\ window' = size /\ cells' = Geometry(layouts'[vbox])
  BY DEF Configure
<1>2. size = <<size[1], size[2]>> /\ size[1] \in Nat /\ size[2] \in Nat
  BY SizesAssumption
<1>3. PICK S : layouts \in Seq(SizedLayout(S)) /\ \A b \in S : Numbers(b)
  BY <1>1 DEF PlacedInv, Placed
<1>4. /\ vbox \in 1..Len(layouts) /\ Sizable(vbox)
      /\ \A l \in 1..Len(layouts) : RowsHeight(layouts[l]) <= layouts[vbox].minh
      /\ active = None \/ active \in Places(vbox)
  BY <1>1 DEF PlacedInv, Placed, Kb
<1>5. layouts[vbox] \in SizedLayout(S)
  BY <1>3, <1>4, ElementOfSeq
<1>6. /\ x \in SizedLayout(S) /\ x.rows = layouts[vbox].rows /\ x.minh = layouts[vbox].minh
      /\ x.w = size[1] /\ x.h = size[2]
  BY <1>2, <1>5 DEF SizedLayout
<1> HIDE DEF x
<1>7. layouts'[vbox] = x
  BY <1>1, <1>3, <1>4, <1>6, Replaced
<1> QED
  BY <1>1, <1>2, <1>3, <1>4, <1>6, <1>7, PlacedAnew

LEMMA ReleasePlaced ==
  ASSUME PlacedInv, ButtonRelease
  PROVE  Placed'
<1> DEFINE b == At(active)
           n == b.layout_switch + 1
           x == [layouts[n] EXCEPT !.w = Kb.w, !.h = Kb.h, !.minw = Kb.minw, !.minh = Kb.minh]
<1>1. status = "running" /\ active # None /\ active' = None /\ window' = window
  BY DEF ButtonRelease
<1>2. CASE ~(b.layout_switch > -1)
  <2>1. UNCHANGED <<status, layouts, vbox, cells>>
    BY <1>2 DEF ButtonRelease
  <2> QED
    BY <1>1, <2>1, PlacedStays DEF PlacedInv
<1>3. CASE b.layout_switch > -1
  <2>1. kb_switch_layout(n, state', locked')
    BY <1>3 DEF ButtonRelease
  <2>2. CASE n > Len(layouts) \/ (n \in DOMAIN layouts /\ ~Sizable(n))
    <3>1. status' = "undefined"
      BY <2>1, <2>2 DEF kb_switch_layout
    <3> QED
      BY <3>1 DEF Placed
  <2>3. CASE ~(n > Len(layouts) \/ (n \in DOMAIN layouts /\ ~Sizable(n)))
    <3>1. /\ vbox' = n /\ layouts' = [layouts EXCEPT ![n] = x]
          /\ cells' = Geometry(layouts'[n])
      BY <2>1, <2>3 DEF kb_switch_layout
    <3>2. PICK S : layouts \in Seq(SizedLayout(S)) /\ \A c \in S : Numbers(c)
      BY <1>1 DEF PlacedInv, Placed
    <3>3. /\ vbox \in 1..Len(layouts) /\ active \in Places(vbox)
          /\ \A l \in 1..Len(layouts) : RowsHeight(layouts[l]) <= Kb.minh
          /\ <<Kb.w, Kb.h>> = window
      BY <1>1 DEF PlacedInv, Placed
    <3>4. b.layout_switch \in Int
      <4>1. PICK r \in 1..Len(layouts[vbox].rows) :
              \E k \in 1..Len(layouts[vbox].rows[r].keys) : active = <<r, k>>
        BY <3>2, <3>3, PlaceIs
      <4>2. PICK k \in 1..Len(layouts[vbox].rows[r].keys) : active = <<r, k>>
        BY <4>1
      <4>3. b = layouts[vbox].rows[r].keys[k]
        BY <4>2 DEF At, Kb
      <4>4. b \in S
        <5>1. \A i \in 1..Len(layouts[vbox].rows) :
                \A j \in 1..Len(layouts[vbox].rows[i].keys) : layouts[vbox].rows[i].keys[j] \in S
          BY <3>2, <3>3, RowsOfLayout
        <5> HIDE DEF b
        <5> QED
          BY <4>3, <5>1
      <4> HIDE DEF b
      <4> QED
        BY <3>2, <4>4 DEF Numbers
    <3>5. Len(layouts) \in Nat /\ DOMAIN layouts = 1..Len(layouts)
      BY <3>2, LenProperties
    <3>6. n \in 1..Len(layouts) /\ Sizable(n)
      <4> HIDE DEF b
      <4> QED
        BY <1>3, <2>3, <3>4, <3>5
    <3> HIDE DEF n
    <3>7. layouts[n] \in SizedLayout(S) /\ Kb \in SizedLayout(S)
      BY <3>2, <3>3, <3>6, ElementOfSeq DEF Kb
    <3>8. /\ x \in SizedLayout(S) /\ x.rows = layouts[n].rows /\ x.minh = Kb.minh
          /\ x.w = Kb.w /\ x.h = Kb.h
      BY <3>7 DEF SizedLayout
    <3> HIDE DEF x
    <3>9. layouts'[n] = x
      BY <3>1, <3>2, <3>6, <3>8, Replaced
    <3> QED
      BY <1>1, <3>1, <3>2, <3>3, <3>6, <3>8, <3>9, PlacedAnew
  <2> QED
    BY <2>2, <2>3
<1> QED
  BY <1>2, <1>3

LEMMA PlacedInvStep ==
  ASSUME PlacedInv, [Next]_vars
  PROVE  PlacedInv'
<1>1. TimerInv'
  BY TimerInvStep DEF PlacedInv
<1>2. ASSUME status' # "reading" PROVE NumbersRead'
  BY <1>2 DEF NumbersRead
<1>3. CASE ReadLine /\ UNCHANGED gui
  BY <1>1, <1>3, ReadPlaced DEF PlacedInv
<1>4. CASE Realize
  <2>1. status' # "reading"
    BY <1>4 DEF Realize, Stop
  <2> QED
    BY <1>1, <1>2, <1>4, <2>1, RealizePlaced DEF PlacedInv
<1>5. ASSUME NEW size \in WindowSizes, Configure(size)
      PROVE  PlacedInv'
  <2>1. status' # "reading"
    BY <1>5 DEF Configure
  <2> QED
    BY <1>1, <1>2, <1>5, <2>1, ConfigurePlaced DEF PlacedInv
<1>6. CASE ButtonRelease
  <2>1. status' # "reading"
    BY <1>6 DEF ButtonRelease, kb_switch_layout
  <2> QED
    BY <1>1, <1>2, <1>6, <2>1, ReleasePlaced DEF PlacedInv
<1>7. CASE Expose
  <2>1. UNCHANGED <<window, status, layouts, vbox, active>> /\ status = "running"
        /\ cells' = Geometry(Kb)
    BY <1>7 DEF Expose, config
  <2>2. cells' = cells
    BY <2>1 DEF PlacedInv, Placed
  <2> QED
    BY <1>1, <1>2, <2>1, <2>2, PlacedStays DEF PlacedInv
<1>8. ASSUME status = "running", NEW p \in Clicked, ButtonPress(p)
      PROVE  PlacedInv'
  <2>1. UNCHANGED <<window, status, layouts, vbox, cells>> /\ active' = p
    BY <1>8 DEF ButtonPress, config
  <2>2. PICK S : layouts \in Seq(SizedLayout(S))
    BY <1>8 DEF PlacedInv, Placed
  <2>3. vbox \in 1..Len(layouts)
    BY <1>8 DEF PlacedInv, Placed
  <2>4. p = None \/ p \in Places(vbox)
    BY <1>8, <2>2, <2>3, FoundKey DEF Clicked
  <2> QED
    BY <1>1, <1>2, <1>8, <2>1, <2>4, PlacedStays DEF PlacedInv
<1>9. CASE Poll \/ PollHeld
  <2>1. UNCHANGED <<window, status, layouts, vbox, cells, active>> /\ status = "running"
    BY <1>9 DEF Poll, PollHeld, config
  <2> QED
    BY <1>1, <1>2, <2>1, PlacedStays DEF PlacedInv
<1>10. CASE UNCHANGED vars
  <2>1. UNCHANGED <<window, status, rest, layouts, vbox, cells, active>>
    BY <1>10 DEF vars, config, parser, gui
  <2>2. NumbersRead'
    <3>1. \A S : Layout(S)' = Layout(S)
      BY <2>1 DEF Layout
    <3> QED
      BY <2>1, <3>1 DEF PlacedInv, NumbersRead, Numbers
  <2> QED
    BY <1>1, <2>1, <2>2, PlacedStays DEF PlacedInv
<1> QED
  BY <1>3, <1>4, <1>5, <1>6, <1>7, <1>8, <1>9, <1>10 DEF Next

LEMMA PlacedInvInit ==
  LayoutInit => PlacedInv
<1> SUFFICES ASSUME LayoutInit PROVE PlacedInv
  OBVIOUS
<1>1. status = "reading" /\ layouts = <<>> /\ window \in WindowSizes
  BY DEF LayoutInit, Init
<1>2. rest \in Seq(FileLines)
  BY SizesAssumption DEF LayoutInit, Init
<1>3. layouts \in Seq(Layout({}))
  <2>1. \A T : <<>> \in Seq(T)
    OBVIOUS
  <2> QED
    BY <1>1, <2>1
<1>4. NumbersRead
  <2>1. window = <<window[1], window[2]>> /\ window[1] \in Nat /\ window[2] \in Nat
    BY <1>1, SizesAssumption
  <2>2. \E S : layouts \in Seq(Layout(S)) /\ \A b \in S : Numbers(b)
    <3>1. \A b \in {} : Numbers(b)
      OBVIOUS
    <3> QED
      BY <1>3, <3>1
  <2> QED
    BY <1>2, <2>1, <2>2 DEF NumbersRead
<1> QED
  BY <1>1, <1>4, TimerInvInit DEF PlacedInv, Placed

LEMMA KeyboardIsShown ==
  ASSUME PlacedInv, status = "running", NEW S, layouts \in Seq(SizedLayout(S))
  PROVE  Shown(Kb) /\ Kb \in SizedLayout(S)
<1>1. vbox \in 1..Len(layouts) /\ Sizable(vbox) /\ RowsHeight(Kb) <= Kb.minh
  BY DEF PlacedInv, Placed, Kb
<1>2. Kb \in SizedLayout(S)
  BY <1>1, RowsOfLayout DEF Kb
<1>3. \A r \in 1..Len(Kb.rows) : Kb.rows[r] \in RowsOf(vbox)
  BY <1>1, RowsOfLayout DEF RowsOf, Kb
<1> QED
  BY <1>1, <1>2, <1>3 DEF Sizable, Shown

\* The rows and keys of the layout lie in the window as it is now, and leave no
\* gap but their edges and what rounding leaves (kb_size, kb.c 616 to 713): for
\* every file, whatever the texts measure, in whatever order the window is sized
\* and layouts are switched, and however the quotients are rounded down.
THEOREM KeysTile ==
  Spec => []KeysTileTheWindow
<1>1. LayoutInit => PlacedInv
  BY PlacedInvInit
<1>2. PlacedInv /\ [Next]_vars => PlacedInv'
  BY PlacedInvStep
<1>3. PlacedInv => KeysTileTheWindow
  <2> SUFFICES ASSUME PlacedInv, status = "running"
               PROVE  /\ <<Kb.w, Kb.h>> = window
                      /\ \A r \in DOMAIN cells : cells[r].y + cells[r].h <= Kb.h
                      /\ \A p \in Points : kb_find_button(p[1], p[2]) = None =>
                           \/ p[1] \in {0, Kb.w - 1, Kb.w}
                           \/ \A r \in DOMAIN cells :
                                \/ p[2] <= cells[r].y
                                \/ p[2] >= cells[r].y + cells[r].keys[1].h
                           \/ \E q \in Places(vbox) : p[1] = cells[q[1]].keys[q[2]].x
    BY DEF KeysTileTheWindow
  <2> DEFINE n == Len(Kb.rows)
  <2>1. PICK S : layouts \in Seq(SizedLayout(S)) /\ \A b \in S : Numbers(b)
    BY DEF PlacedInv, Placed
  <2>2. vbox \in 1..Len(layouts) /\ <<Kb.w, Kb.h>> = window /\ cells = Geometry(Kb)
    BY DEF PlacedInv, Placed
  <2>3. Shown(Kb) /\ Kb \in SizedLayout(S)
    BY <2>1, KeyboardIsShown
  <2>4. /\ n \in Nat /\ DOMAIN cells = 1..n
        /\ \A r \in 1..n :
             /\ cells[r].y \in Int /\ cells[r].h \in Int /\ cells[r].y + cells[r].h <= Kb.h
             /\ Len(Kb.rows[r].keys) \in Nat \ {0}
             /\ RowIsFilled(cells[r].keys, Len(Kb.rows[r].keys), Kb.w)
             /\ cells[r].keys[1].h <= cells[r].h
    BY <2>1, <2>2, <2>3, RowsFit
  <2>5. Kb.w \in Nat /\ Kb.h \in Nat
    BY <2>3 DEF SizedLayout
  <2>6. ASSUME NEW x \in 0..Kb.w, NEW y \in 0..Kb.h,
               x \notin {0, Kb.w - 1, Kb.w},
               NEW r \in 1..n, ~(y <= cells[r].y), ~(y >= cells[r].y + cells[r].keys[1].h),
               \A q \in Places(vbox) : x # cells[q[1]].keys[q[2]].x
        PROVE  kb_find_button(x, y) # None
    <3> DEFINE m == Len(Kb.rows[r].keys)
               keys == cells[r].keys
    <3>1. m \in Nat \ {0} /\ RowIsFilled(keys, m, Kb.w) /\ keys[1].h <= cells[r].h
      BY <2>4
    <3>2. \A k \in 1..m : <<r, k>> \in Places(vbox)
      BY <2>1, <2>2, PlaceIs DEF Kb
    <3>3. \A k \in 1..m : x # keys[k].x
      BY <2>6, <3>2
    <3>4. x \in Int /\ y \in Int /\ 0 < x /\ x < Kb.w - 1
      BY <2>5, <2>6
    <3> HIDE DEF m, keys
    <3>5. PICK k \in 1..m : keys[k].x < x /\ x < keys[k].x + keys[k].w
      BY <2>5, <3>1, <3>3, <3>4, KeyOfColumn
    <3>6. keys[k].h = keys[1].h /\ keys[1].h \in Int /\ keys[k].x \in Int /\ keys[k].w \in Int
      BY <3>1 DEF RowIsFilled
    <3>7. cells[r].y < y /\ y < cells[r].y + keys[k].h /\ y < cells[r].y + cells[r].h
      <4> DEFINE top == cells[r].y
                 h == cells[r].h
                 kh == keys[1].h
      <4>1. top \in Int /\ h \in Int /\ kh \in Int /\ kh <= h /\ keys[k].h = kh
        BY <2>4, <3>1, <3>6
      <4>2. ~(y <= top) /\ ~(y >= top + kh)
        BY <2>6 DEF keys
      <4> HIDE DEF top, h, kh
      <4>3. top < y /\ y < top + kh /\ y < top + h
        BY <3>4, <4>1, <4>2
      <4> QED
        BY <4>1, <4>3 DEF top, h
    <3>8. Inside(x, y, r, k)
      BY <3>4, <3>5, <3>6, <3>7 DEF Inside, keys
    <3>9. <<r, k>> \in Places(vbox) /\ Inside(x, y, <<r, k>>[1], <<r, k>>[2])
      BY <3>2, <3>8
    <3>10. ~(x > Kb.w) /\ ~(y > Kb.h)
      BY <2>5, <2>6
    <3> QED
      BY <2>1, <2>2, <3>9, <3>10, FoundKey
  <2>7. ASSUME NEW p \in Points, kb_find_button(p[1], p[2]) = None
        PROVE  \/ p[1] \in {0, Kb.w - 1, Kb.w}
               \/ \A r \in DOMAIN cells : p[2] <= cells[r].y \/ p[2] >= cells[r].y + cells[r].keys[1].h
               \/ \E q \in Places(vbox) : p[1] = cells[q[1]].keys[q[2]].x
    <3>1. p[1] \in 0..Kb.w /\ p[2] \in 0..Kb.h
      BY DEF Points
    <3> HIDE DEF n
    <3> QED
      BY <2>4, <2>6, <2>7, <3>1
  <2> HIDE DEF n
  <2> QED
    BY <2>2, <2>4, <2>7
<1> QED
  BY <1>1, <1>2, <1>3, PTL DEF Spec

=============================================================================
