----------------------------- MODULE SdpService -----------------------------
(***************************************************************************)
(* sdp.c: a program connects to the local service discovery daemon and     *)
(* registers the record of a Bluetooth keyboard.  Nothing ever removes the *)
(* record: the daemon drops it when the program is gone, and loses it when *)
(* it ends itself.                                                         *)
(***************************************************************************)
EXTENDS SdpRecord

VARIABLES
  sdpd,          \* the service discovery daemon runs
  sdp_session,   \* programs that are connected to it
  records        \* program -> the record it has registered

service == <<sdpd, sdp_session, records>>

ServiceInit(running) ==
  sdpd = running /\ sdp_session = {} /\ records = <<>>

\* A program that is not connected afterwards exits.
sdp_open(p) ==
  /\ sdp_session' = IF sdpd THEN sdp_session \cup {p} ELSE sdp_session
  /\ UNCHANGED <<sdpd, records>>

\* A program whose record is not registered afterwards exits.
sdp_add_keyboard(p) ==
  /\ records' = IF p \in sdp_session
                  THEN [q \in DOMAIN records \cup {p} |->
                          IF q = p THEN KeyboardRecord ELSE records[q]]
                  ELSE records
  /\ UNCHANGED <<sdpd, sdp_session>>

\* Programs end, and the daemon forgets them.
Disconnect(programs) ==
  /\ sdp_session' = sdp_session \ programs
  /\ records' = [p \in DOMAIN records \ programs |-> records[p]]
  /\ UNCHANGED sdpd

SdpdEnds ==
  sdpd /\ sdpd' = FALSE /\ sdp_session' = {} /\ records' = <<>>
=============================================================================
