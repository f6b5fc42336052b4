--------------------------- MODULE HidDescriptor ---------------------------
(***************************************************************************)
(* The bytes a host sees: the report descriptor in the service record that *)
(* sdp_add_keyboard registers, the report the daemon writes, and how a HID *)
(* host reads the second by the first.  hid.h holds the two tables between *)
(* the scan codes of Linux and HID usages; the host is a Linux host, whose *)
(* table is the second.                                                    *)
(***************************************************************************)
EXTENDS Integers, SequencesExt, FiniteSets

hid_spec == <<
  \h05, \h01, \h09, \h06, \ha1, \h01, \h85, \h01,
  \h05, \h07, \h19, \he0, \h29, \he7, \h15, \h00, \h25, \h01,
  \h75, \h01, \h95, \h08, \h81, \h02, \h75, \h08, \h95, \h01, \h81, \h01,
  \h75, \h01, \h95, \h05, \h05, \h08, \h19, \h01, \h29, \h05, \h91, \h02,
  \h75, \h03, \h95, \h01, \h91, \h01,
  \h75, \h08, \h95, \h06, \h15, \h00, \h26, \hff, \h00,
  \h05, \h07, \h19, \h00, \h2a, \hff, \h00, \h81, \h00,
  \h75, \h01, \h95, \h01, \h15, \h00, \h25, \h01,
  \h05, \h0c, \h09, \hb8, \h81, \h06, \h09, \he2, \h81, \h06,
  \h09, \he9, \h81, \h02, \h09, \hea, \h81, \h02,
  \h75, \h01, \h95, \h04, \h81, \h01, \hc0 >>

\* Both tables start at code 0; the zeros at the end of the first are left out.
keycode2hidp == <<
  0, 41, 30, 31, 32, 33, 34, 35, 36, 37, 38, 39, 45, 46, 42, 43, 20, 26, 8,
  21, 23, 28, 24, 12, 18, 19, 47, 48, 40, 224, 4, 22, 7, 9, 10, 11, 13, 14,
  15, 51, 52, 53, 225, 49, 29, 27, 6, 25, 5, 17, 16, 54, 55, 56, 229, 85,
  226, 44, 57, 58, 59, 60, 61, 62, 63, 64, 65, 66, 67, 83, 71, 95, 96, 97,
  86, 92, 93, 94, 87, 89, 90, 91, 98, 99, 0, 148, 100, 68, 69, 135, 146, 147,
  138, 136, 139, 140, 88, 228, 84, 70, 230, 0, 74, 82, 75, 80, 79, 77, 81,
  78, 73, 76, 0, 127, 129, 128, 102, 103, 0, 72, 0, 133, 144, 145, 137, 227,
  231, 101, 120, 121, 118, 122, 119, 124, 116, 125, 126, 123, 117, 0, 251, 0,
  248, 0, 0, 0, 0, 0, 0, 0, 240, 0, 249, 0, 0, 0, 0, 0, 241, 242, 0, 236, 0,
  235, 232, 234, 233, 0, 0, 0, 0, 0, 0, 250, 0, 0, 247, 245, 246, 0, 0, 0, 0,
  104, 105, 106, 107, 108, 109, 110, 111, 112, 113, 114, 115 >>

hidp2keycode == <<
  0, 0, 0, 0, 30, 48, 46, 32, 18, 33, 34, 35, 23, 36, 37, 38, 50, 49, 24, 25,
  16, 19, 31, 20, 22, 47, 17, 45, 21, 44, 2, 3, 4, 5, 6, 7, 8, 9, 10, 11, 28,
  1, 14, 15, 57, 12, 13, 26, 27, 43, 43, 39, 40, 41, 51, 52, 53, 58, 59, 60,
  61, 62, 63, 64, 65, 66, 67, 68, 87, 88, 99, 70, 119, 110, 102, 104, 111,
  107, 109, 106, 105, 108, 103, 69, 98, 55, 74, 78, 96, 79, 80, 81, 75, 76,
  77, 71, 72, 73, 82, 83, 86, 127, 116, 117, 183, 184, 185, 186, 187, 188,
  189, 190, 191, 192, 193, 194, 134, 138, 130, 132, 128, 129, 131, 137, 133,
  135, 136, 113, 115, 114, 0, 0, 0, 121, 0, 89, 93, 124, 92, 94, 95, 0, 0, 0,
  122, 123, 90, 91, 85, 0, 0, 0, 0, 0, 0, 0, 0, 0, 0, 0, 0, 0, 0, 0, 0, 0, 0,
  0, 0, 0, 0, 0, 0, 0, 0, 0, 0, 0, 0, 0, 0, 0, 0, 0, 0, 0, 0, 0, 0, 0, 0, 0,
  0, 0, 0, 0, 0, 0, 0, 0, 0, 0, 0, 0, 0, 0, 0, 0, 0, 0, 0, 0, 0, 0, 0, 0, 0,
  0, 0, 0, 0, 0, 0, 0, 29, 42, 56, 125, 97, 54, 100, 126, 164, 166, 165, 163,
  161, 115, 114, 113, 150, 158, 159, 128, 136, 177, 178, 176, 142, 152, 173,
  140 >>

-----------------------------------------------------------------------------
(* The report of hidcd.c. *)

\* Bits of the modifier byte by scan code; bits 3 and 7 are never set.
ModifierBit(code) ==
  CASE code = 29 -> 0 [] code = 42 -> 1 [] code = 56 -> 2
    [] code = 97 -> 4 [] code = 54 -> 5 [] code = 100 -> 6
ModifierCodes == {29, 42, 56, 97, 54, 100}

ModifierByte(held) == FoldLeft(LAMBDA sum, code : sum + 2 ^ ModifierBit(code), 0, SetToSeq(held))

\* code 0 for none.
Report(held, code) ==
  <<\ha1, \h01, ModifierByte(held), 0, keycode2hidp[code + 1], 0, 0, 0, 0, 0>>

-----------------------------------------------------------------------------
(* A HID host. *)

\* Short items: a prefix, whose two low bits are the number of data bytes, and
\* the data, low byte first.
Items(bytes) ==
  LET size(i) == bytes[i] % 4
      data(i) == (IF size(i) > 0 THEN bytes[i + 1] ELSE 0)
                   + (IF size(i) > 1 THEN 256 * bytes[i + 2] ELSE 0)
      from[i \in 1..Len(bytes) + 1] ==
        IF i > Len(bytes) THEN <<>>
        ELSE <<[tag |-> bytes[i] - size(i), data |-> data(i)]>> \o from[i + 1 + size(i)]
  IN from[1]

\* The input fields of a descriptor with one report: where each starts, its
\* page, and the first usage.  A constant field has flag bit 0 set, an array
\* has bit 1 clear.
Fields(bytes) ==
  LET apply(s, item) ==
        CASE item.tag = \h04 -> [s EXCEPT !.page = item.data]
          [] item.tag = \h74 -> [s EXCEPT !.size = item.data]
          [] item.tag = \h94 -> [s EXCEPT !.count = item.data]
          [] item.tag = \h18 -> [s EXCEPT !.usage = item.data]
          [] item.tag = \h80 ->
               [s EXCEPT !.bit = @ + s.size * s.count,
                         !.fields = Append(@, [bit |-> s.bit, size |-> s.size, count |-> s.count,
                                               page |-> s.page, usage |-> s.usage, flags |-> item.data])]
          [] OTHER -> s
  IN FoldLeft(apply, [page |-> 0, size |-> 0, count |-> 0, usage |-> 0, bit |-> 0, fields |-> <<>>],
              Items(bytes)).fields

\* Bits of a report after its header and its number; what is missing reads as 0.
Bits(report, from, n) ==
  LET byte(i) == IF 3 + i \div 8 \in DOMAIN report THEN report[3 + i \div 8] ELSE 0
      bit(i) == (byte(i) \div 2 ^ (i % 8)) % 2
      sum[k \in 0..n] == IF k = 0 THEN 0 ELSE sum[k - 1] + bit(from + k - 1) * 2 ^ (k - 1)
  IN sum[n]

\* The usages of the keyboard page that are down.
Usages(fields, report) ==
  LET value(f, i) == Bits(report, f.bit + (i - 1) * f.size, f.size)
      ofField(f) ==
        IF f.flags % 2 = 1 \/ f.page # \h07 THEN {}
        ELSE IF f.flags = 0 THEN {f.usage + value(f, i) : i \in 1..f.count}
        ELSE {f.usage + i - 1 : i \in {j \in 1..f.count : value(f, j) = 1}}
  IN UNION {ofField(fields[k]) : k \in DOMAIN fields} \ {0}

\* The scan codes a Linux host makes of a report.
Decoded(fields, report) == {hidp2keycode[u + 1] : u \in Usages(fields, report)}
=============================================================================
