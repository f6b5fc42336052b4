----------------------------- MODULE SdpRecord ------------------------------
(***************************************************************************)
(* The service record of a Bluetooth keyboard, as a function from the ids  *)
(* of attributes to their values: what sdp_add_keyboard of xkbd and the    *)
(* one of sdp-test put into it, and what a HID host takes from it.  The    *)
(* sdp library builds every list it is given; the texts a user reads       *)
(* (sdp_set_info_attr) are left out.                                       *)
(***************************************************************************)
EXTENDS HidDescriptor

\* hid.h, of xkbd and of sdp-test.
L2CAP_PSM_HIDP_CTRL == 17
L2CAP_PSM_HIDP_INTR == 19

\* sdp.h.
PUBLIC_BROWSE_GROUP == \h1002
L2CAP_UUID == \h100
HIDP_UUID == \h11
HID_SVCLASS_ID == \h1124
HID_PROFILE_ID == HID_SVCLASS_ID

SDP_ATTR_SVCLASS_ID_LIST == 1
SDP_ATTR_PROTO_DESC_LIST == 4
SDP_ATTR_BROWSE_GRP_LIST == 5
SDP_ATTR_LANG_BASE_ATTR_ID_LIST == 6
SDP_ATTR_PFILE_DESC_LIST == 9
SDP_ATTR_ADD_PROTO_DESC_LIST == 13

SDP_ATTR_HID_DEVICE_RELEASE_NUMBER == \h200
SDP_ATTR_HID_PARSER_VERSION == \h201
SDP_ATTR_HID_DEVICE_SUBCLASS == \h202
SDP_ATTR_HID_COUNTRY_CODE == \h203
SDP_ATTR_HID_VIRTUAL_CABLE == \h204
SDP_ATTR_HID_RECONNECT_INITIATE == \h205
SDP_ATTR_HID_DESCRIPTOR_LIST == \h206
SDP_ATTR_HID_LANG_ID_BASE_LIST == \h207
SDP_ATTR_HID_SDP_DISABLE == \h208
SDP_ATTR_HID_REMOTE_WAKEUP == \h20a
SDP_ATTR_HID_PROFILE_VERSION == \h20b
SDP_ATTR_HID_SUPERVISION_TIMEOUT == \h20c
SDP_ATTR_HID_NORMALLY_CONNECTABLE == \h20d
SDP_ATTR_HID_BOOT_DEVICE == \h20e

SDP_PRIMARY_LANG_BASE == \h100

-----------------------------------------------------------------------------
(* The sdp library.  A program never gives an id twice: sdp_attr_add, which   *)
(* leaves an attribute alone that is there, adds it as well.                *)

sdp_attr_add_new(r, attr, value) ==
  [id \in DOMAIN r \cup {attr} |-> IF id = attr THEN value ELSE r[id]]

-----------------------------------------------------------------------------
(* sdp_add_keyboard.                                                        *)

\* English, UTF-8.
add_lang_attr(r) ==
  sdp_attr_add_new(r, SDP_ATTR_LANG_BASE_ATTR_ID_LIST,
                   << <<\h65 * 256 + \h6e, 106, SDP_PRIMARY_LANG_BASE>> >>)

hid_attr == <<\h100, \h111, \h40, \h0d, 1, 1>>
hid_attr2 == <<0, 1, \h100, \h1f40, 1, 1>>
hid_attr_lang == <<\h409, \h100>>
hid_spec_type == \h22

\* Mutant: the second block begins with the attribute between the two.
Numbered_Early(r, first, values) ==
  LET from == IF first = SDP_ATTR_HID_REMOTE_WAKEUP THEN first - 1 ELSE first
      ids == from..(from + Len(values) - 1)
  IN [id \in DOMAIN r \cup ids |-> IF id \in ids THEN values[id - from + 1] ELSE r[id]]

\* sdp_attr_add_new in a loop, from the first id on.
Numbered(r, first, values) ==
  LET ids == first..(first + Len(values) - 1) IN
    [id \in DOMAIN r \cup ids |-> IF id \in ids THEN values[id - first + 1] ELSE r[id]]

\* HIDP on a channel of L2CAP.
Protocols(channel) == << <<L2CAP_UUID, channel>>, <<HIDP_UUID>> >>

\* The groups, the classes, the profile.
General ==
  LET browsed == sdp_attr_add_new(<<>>, SDP_ATTR_BROWSE_GRP_LIST, <<PUBLIC_BROWSE_GROUP>>)
      classed == sdp_attr_add_new(add_lang_attr(browsed),
                                  SDP_ATTR_SVCLASS_ID_LIST, <<HID_SVCLASS_ID>>)
  IN sdp_attr_add_new(classed, SDP_ATTR_PFILE_DESC_LIST, << <<HID_PROFILE_ID, \h100>> >>)

\* The channels.
Lists(ctrl, intr) ==
  sdp_attr_add_new(sdp_attr_add_new(General, SDP_ATTR_PROTO_DESC_LIST, Protocols(ctrl)),
                   SDP_ATTR_ADD_PROTO_DESC_LIST, <<Protocols(intr)>>)

Described(lists, descriptor) ==
  LET numbered == Numbered(lists, SDP_ATTR_HID_DEVICE_RELEASE_NUMBER, hid_attr)
      described == sdp_attr_add_new(numbered, SDP_ATTR_HID_DESCRIPTOR_LIST,
                                    << <<hid_spec_type, descriptor>> >>)
  IN sdp_attr_add_new(described, SDP_ATTR_HID_LANG_ID_BASE_LIST, <<hid_attr_lang>>)

WithFlags(described) ==
  Numbered(sdp_attr_add_new(described, SDP_ATTR_HID_SDP_DISABLE, Head(hid_attr2)),
           SDP_ATTR_HID_REMOTE_WAKEUP, Tail(hid_attr2))

\* xkbd writes the channels as numbers.
KeyboardRecord == WithFlags(Described(Lists(\h11, \h13), hid_spec))

\* sdp-test has the same tables, and takes the channels from its hid.h.
sdp_test_spec == hid_spec
SdpTestLists == Lists(L2CAP_PSM_HIDP_CTRL, L2CAP_PSM_HIDP_INTR)
SdpTestRecord == WithFlags(Described(SdpTestLists, sdp_test_spec))

\* A key that goes down and never up.
sendChar(keyCode) == <<\ha1, 1, 0, 0, keyCode, 0, 0, 0, 0, 0>>

\* When it has registered the record and connected both channels, sdp-test sends
\* every character it reads from its terminal as a usage, whatever became of
\* these steps and of the report before.
Sent(chars) == [i \in DOMAIN chars |-> sendChar(chars[i])]

-----------------------------------------------------------------------------
(* A HID host.                                                              *)

\* The channel it connects to for a stack of protocols.
Channel(protocols) == (CHOOSE p \in Range(protocols) : p[1] = L2CAP_UUID)[2]

Descriptor(r) == (CHOOSE e \in Range(r[SDP_ATTR_HID_DESCRIPTOR_LIST]) : e[1] = hid_spec_type)[2]

\* The class of the adapter while the keyboard runs, as the wrapper sets it: a
\* host that looks for devices sees this one first.
KeyboardClass == \h002540

\* The channels are those the programs listen on and connect to.
ChannelsFound(r) ==
  /\ Channel(r[SDP_ATTR_PROTO_DESC_LIST]) = L2CAP_PSM_HIDP_CTRL
  /\ Channel(Head(r[SDP_ATTR_ADD_PROTO_DESC_LIST])) = L2CAP_PSM_HIDP_INTR

\* The first block is what the comment in sdp-test says (lines 167 to 172 of
\* its sdp.c), and the class of the adapter; the profile version is that of the
\* profile list, the flags are flags.
AttributesFound(r) ==
  /\ r[SDP_ATTR_HID_DEVICE_RELEASE_NUMBER] = \h100
  /\ r[SDP_ATTR_HID_PARSER_VERSION] = \h111
  /\ r[SDP_ATTR_HID_DEVICE_SUBCLASS] = KeyboardClass % 256
  /\ r[SDP_ATTR_HID_COUNTRY_CODE] = \h0d
  /\ {r[SDP_ATTR_HID_VIRTUAL_CABLE], r[SDP_ATTR_HID_RECONNECT_INITIATE]} = {1}
  /\ r[SDP_ATTR_HID_PROFILE_VERSION] = r[SDP_ATTR_PFILE_DESC_LIST][1][2]
  /\ {r[SDP_ATTR_HID_SDP_DISABLE], r[SDP_ATTR_HID_REMOTE_WAKEUP],
      r[SDP_ATTR_HID_NORMALLY_CONNECTABLE], r[SDP_ATTR_HID_BOOT_DEVICE]} \subseteq {0, 1}

\* The scan codes that have a usage and are no modifiers.
KeyCodes == {code \in 1..Len(keycode2hidp) - 1 : keycode2hidp[code + 1] # 0} \ ModifierCodes

\* Reports of every key, and of a key with every set of modifiers.
Typable ==
  {[held |-> held, code |-> code] : held \in {{}, ModifierCodes}, code \in KeyCodes}
    \cup {[held |-> held, code |-> 30] : held \in SUBSET ModifierCodes}

\* Of a report of the daemon the host makes the scan codes that are down, of one
\* of sdp-test the usage.
ReportsRead(descriptor) ==
  LET fields == Fields(descriptor)
      sent == Sent([i \in 1..255 |-> i])
  IN
    /\ \A t \in Typable : Decoded(fields, Report(t.held, t.code)) = t.held \cup {t.code}
    /\ \A usage \in 1..255 : Usages(fields, sent[usage]) = {usage}

Understood(r) == ChannelsFound(r) /\ AttributesFound(r) /\ ReportsRead(Descriptor(r))

\* Of the two records, those a host understands.
Understandable == {r \in {KeyboardRecord, SdpTestRecord} : Understood(r)}
=============================================================================
