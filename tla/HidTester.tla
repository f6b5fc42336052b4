----------------------------- MODULE HidTester -----------------------------
(***************************************************************************)
(* A tester of libhidroid_test and the GUI that drives it: Tester with     *)
(* KeyboardHidTester, RawHidTester or L2capTester, and                     *)
(* L2capTestSetupActivity.  The peer of L2capTester is EchoServer.         *)
(* The three testers share nothing: one of them is in use here, and going  *)
(* away from it and back is picking a socket type again.                   *)
(*                                                                         *)
(* Every runTest starts a thread; the threads share the tester's two       *)
(* socket fields, and the GUI thread replaces both when the user picks     *)
(* another socket type.  A socket object is what L2capSocket models in     *)
(* detail: here its calls are atomic but for connect, which holds the      *)
(* semaphore of the object while it blocks.                                *)
(***************************************************************************)
EXTENDS EchoServer

CONSTANTS
  Threads,        \* test threads
  Sockets,        \* L2capSocket objects; bound: how many the GUI creates
  Chars,          \* the bytes a text that is typed ends with
  Null,           \* null, and: not read yet
  MaxRuns         \* bound: tests started of the L2capTester

ASSUME HidTesterAssumption ==
  /\ Null \notin Sockets \cup Threads
  /\ Chars \subseteq -128..127 /\ MaxRuns \in Nat
  /\ {NoClient, Ended} \cap Sockets = {}

VARIABLES
  kind,           \* the tester: "keyboard", "raw" or "l2cap"
  ctrlSocket,     \* the two fields of the tester; L2capTester has the first only
  intrSocket,
  swapping,       \* is the GUI between the two assignments?
  made,           \* socket objects created so far
  link,           \* of each object: "none" (no descriptor), "unconnected",
                  \* "connected", or "lost" when the host has gone
  busy,           \* of each object: the thread in connect(2) or read(2), or Null
  down,           \* of each object: the key its host has down
  mute,           \* the objects on whose connection the last write was of no bytes
  pc,             \* where each thread is
  target,         \* the object of the call a thread is in, Null before it is read
  key,            \* the key code a thread writes
  runs,           \* tests started, if kind is "l2cap"
  lapses          \* swapped: a swap during a test; skipped: a cleanUp whose first
                  \* close threw; crashed: the application has ended

\* HIDASCIITranslator: the usage of a letter, of either case, and 0 for the rest.
NoKey == 0

Translate(car) ==
  CASE car \in 97..122 -> car - 97 + 4
    [] car \in 65..90 -> car - 65 + 4
    [] OTHER -> NoKey

Keys == {Translate(car) : car \in Chars} \ {NoKey}

gui == <<kind, ctrlSocket, intrSocket, swapping, made>>
object == <<link, busy, down, mute>>
thread == <<pc, target, key>>
vars == <<gui, object, thread, server, runs, lapses>>

Points == {"idle", "ctrlConnect", "ctrlConnecting", "intrConnect",
           "intrConnecting", "take", "press", "release", "write", "read", "reading",
           "closeIntr", "closeCtrl", "dead"}
Init ==
  /\ kind \in {"keyboard", "raw", "l2cap"}
  /\ ServerInit(IF kind = "l2cap" THEN "start" ELSE "ended")
  /\ ctrlSocket = Null /\ intrSocket = Null
  /\ swapping = FALSE /\ made = {}
  /\ link = [s \in Sockets |-> "none"]
  /\ busy = [s \in Sockets |-> Null]
  /\ down = [s \in Sockets |-> NoKey]
  /\ mute = {}
  /\ pc = [t \in Threads |-> "idle"]
  /\ target = [t \in Threads |-> Null]
  /\ key = [t \in Threads |-> NoKey]
  /\ runs = 0 /\ lapses = {}

-----------------------------------------------------------------------------
(* A test thread. *)

FirstKey == IF kind = "raw" THEN Keys ELSE {NoKey}

\* A thread leaves its call for the next point.
Goto(t, point) ==
  /\ pc' = [pc EXCEPT ![t] = point]
  /\ target' = [target EXCEPT ![t] = Null]

\* Mutant: no cleanUp after an exception.
Throw_NoCleanUp(t) == Goto(t, "idle")

\* An exception of doTest ends in cleanUp.
Throw(t) == Goto(t, IF kind = "l2cap" THEN "closeCtrl" ELSE "closeIntr")

Field(point) ==
  IF point \in {"ctrlConnect", "write", "read", "closeCtrl"} THEN ctrlSocket ELSE intrSocket

HasStreams(s) == link[s] \in {"connected", "lost"}

\* The thread reads the field and enters a call that has to lock the object.
\* A write or read has got the stream first, which a socket without one refuses.
Enter(t) ==
  LET s == Field(pc[t]) IN
  /\ pc[t] \in {"ctrlConnect", "intrConnect", "press", "release", "write", "read",
                "closeIntr", "closeCtrl"}
  /\ target[t] = Null /\ s # Null
  /\ IF pc[t] \in {"press", "release", "write", "read"} /\ ~HasStreams(s)
       THEN Throw(t)
       ELSE target' = [target EXCEPT ![t] = s] /\ UNCHANGED pc
  /\ UNCHANGED <<gui, object, key, server, runs, lapses>>

\* No socket type has been picked: NullPointerException, in cleanUp as well.
NoSocket(t) ==
  /\ pc[t] \in {"ctrlConnect", "intrConnect", "closeIntr", "closeCtrl"}
  /\ target[t] = Null /\ Field(pc[t]) = Null
  /\ IF pc[t] = "closeIntr"
       THEN Goto(t, "idle") /\ lapses' = lapses \cup {"skipped"}
       ELSE IF pc[t] = "closeCtrl" THEN Goto(t, "idle") /\ UNCHANGED lapses
       ELSE Throw(t) /\ UNCHANGED lapses
  /\ UNCHANGED <<gui, object, key, server, runs>>

Locks(t) == target[t] # Null /\ busy[target[t]] = Null

\* The connection of an object, if it has one, is over.
SetLink(s, l) ==
  /\ link' = [link EXCEPT ![s] = l]
  /\ down' = [down EXCEPT ![s] = NoKey]
  /\ mute' = mute \ {s}
  /\ Gone(s)

\* The channel that is there is closed; socket or setSockOpt may fail.
BeginConnect(t) ==
  LET s == target[t] IN
  /\ pc[t] \in {"ctrlConnect", "intrConnect"} /\ Locks(t)
  /\ \/ /\ SetLink(s, "unconnected")
        /\ busy' = [busy EXCEPT ![s] = t]
        /\ pc' = [pc EXCEPT ![t] = IF pc[t] = "ctrlConnect" THEN "ctrlConnecting"
                                   ELSE "intrConnecting"]
        /\ UNCHANGED target
     \/ /\ \E l \in {"none", "unconnected"} : SetLink(s, l)
        /\ Throw(t)
        /\ UNCHANGED busy
  /\ UNCHANGED <<gui, key, runs, lapses>>

Streamed(point) ==
  CASE point = "ctrlConnecting" /\ kind # "l2cap" -> "intrConnect"
    [] kind = "l2cap" -> "write"
    [] kind = "raw" -> "press"
    [] kind = "keyboard" -> "take"

\* A failed connect leaves the descriptor open.
EndConnect(t) ==
  LET s == target[t] IN
  /\ pc[t] \in {"ctrlConnecting", "intrConnecting"}
  /\ busy' = [busy EXCEPT ![s] = Null]
  /\ \/ /\ link' = [link EXCEPT ![s] = "connected"]
        /\ IF kind = "l2cap" THEN Arrive(s) ELSE UNCHANGED server
        /\ Goto(t, Streamed(pc[t]))
        /\ \E k \in FirstKey : key' = [key EXCEPT ![t] = k]
     \/ /\ Throw(t)
        /\ UNCHANGED <<link, key, server>>
  /\ UNCHANGED <<gui, down, mute, runs, lapses>>

\* Mutant: only presses are sent.
Write_PressOnly(t) ==
  LET s == target[t] IN
  /\ pc[t] = "press" /\ Locks(t)
  /\ \/ /\ link[s] = "connected"
        /\ down' = [down EXCEPT ![s] = key[t]]
        /\ Goto(t, "take")
     \/ /\ Throw(t)
        /\ UNCHANGED down
  /\ UNCHANGED <<gui, link, busy, mute, key, server, runs, lapses>>

\* A report with the key, then one without; the raw test sends other keys
\* instead until it has had enough.
Write(t) ==
  LET s == target[t] IN
  /\ pc[t] \in {"press", "release"} /\ Locks(t)
  /\ \/ /\ link[s] = "connected"
        /\ down' = [down EXCEPT ![s] = IF pc[t] = "press" THEN key[t] ELSE NoKey]
        /\ IF kind = "raw" THEN \E next \in {"press", "closeIntr"} : Goto(t, next)
           ELSE Goto(t, IF pc[t] = "press" THEN "release" ELSE "take")
     \/ /\ Throw(t)
        /\ UNCHANGED down
  /\ UNCHANGED <<gui, link, busy, mute, key, server, runs, lapses>>

\* Mutant: the test reads first.
L2capWrite_After(t) ==
  /\ pc[t] = "write" /\ Locks(t)
  /\ Goto(t, "read")
  /\ UNCHANGED <<gui, object, key, server, runs, lapses>>

\* doTest of L2capTester: a message, a pause, and a read that keeps the object
\* locked until there is something to return.  The native write of an empty text
\* makes no system call, and returns as if it had sent something.
L2capWrite(t) ==
  LET s == target[t] IN
  /\ pc[t] = "write" /\ Locks(t)
  /\ \/ /\ link[s] = "connected"
        /\ Ask(s) /\ mute' = mute \ {s}
        /\ Goto(t, "read")
     \/ /\ mute' = mute \cup {s}
        /\ Goto(t, "read") /\ UNCHANGED server
     \/ Throw(t) /\ UNCHANGED <<mute, server>>
  /\ UNCHANGED <<gui, link, busy, down, key, runs, lapses>>

BeginRead(t) ==
  /\ pc[t] = "read" /\ Locks(t)
  /\ busy' = [busy EXCEPT ![target[t]] = t]
  /\ pc' = [pc EXCEPT ![t] = "reading"]
  /\ UNCHANGED <<gui, link, down, mute, target, key, server, runs, lapses>>

\* An answer, or an exception, for the lost link or for any other error: cleanUp
\* follows either way.
EndRead(t) ==
  LET s == target[t] IN
  /\ pc[t] = "reading"
  /\ busy' = [busy EXCEPT ![s] = Null]
  /\ (s \in answers /\ Receive(s)) \/ UNCHANGED server
  /\ Goto(t, "closeCtrl")
  /\ UNCHANGED <<gui, link, down, mute, key, runs, lapses>>

\* close(-1) throws, and the control channel is not closed.
CloseIntr(t) ==
  LET s == target[t] IN
  /\ pc[t] = "closeIntr" /\ Locks(t)
  /\ IF link[s] = "none"
       THEN /\ Goto(t, "idle")
            /\ lapses' = lapses \cup {"skipped"}
            /\ UNCHANGED <<object, server>>
       ELSE /\ Goto(t, "closeCtrl")
            /\ SetLink(s, "none")
            /\ UNCHANGED <<busy, lapses>>
  /\ UNCHANGED <<gui, key, runs>>

CloseCtrl(t) ==
  /\ pc[t] = "closeCtrl" /\ Locks(t)
  /\ SetLink(target[t], "none")
  /\ Goto(t, "idle")
  /\ UNCHANGED <<gui, busy, key, runs, lapses>>

Test(t) ==
  \/ Enter(t) \/ NoSocket(t)
  \/ BeginConnect(t) \/ EndConnect(t)
  \/ Write(t) \/ L2capWrite(t) \/ BeginRead(t) \/ EndRead(t)
  \/ CloseIntr(t) \/ CloseCtrl(t)

-----------------------------------------------------------------------------
(* The GUI thread and the peers. *)

\* A device is chosen from the dialog.
RunTest(t) ==
  /\ ~swapping /\ pc[t] = "idle"
  /\ IF kind = "l2cap" THEN runs < MaxRuns /\ runs' = runs + 1 ELSE UNCHANGED runs
  /\ Goto(t, "ctrlConnect")
  /\ UNCHANGED <<gui, object, key, server, lapses>>

\* The text has changed, and is not empty: whatever the change was, the key of
\* its last byte is offered, to a thread that waits in input.take, or is lost.
Offer(car) ==
  /\ ~swapping
  /\ \E t \in Threads :
       /\ pc[t] = "take"
       /\ Goto(t, "press")
       /\ key' = [key EXCEPT ![t] = Translate(car)]
  /\ UNCHANGED <<gui, object, server, runs, lapses>>

Swapped ==
  lapses' = IF \A t \in Threads : pc[t] = "idle" THEN lapses
            ELSE lapses \cup {"swapped"}

SwapCtrl ==
  /\ ~swapping /\ "crashed" \notin lapses
  /\ Cardinality(Sockets \ made) >= IF kind = "l2cap" THEN 1 ELSE 2
  /\ swapping' = (kind # "l2cap")
  /\ \E s \in Sockets \ made : ctrlSocket' = s /\ made' = made \cup {s}
  /\ Swapped
  /\ UNCHANGED <<kind, intrSocket, object, thread, server, runs>>

SwapIntr ==
  /\ swapping
  /\ swapping' = FALSE
  /\ \E s \in Sockets \ made : intrSocket' = s /\ made' = made \cup {s}
  /\ Swapped
  /\ UNCHANGED <<kind, ctrlSocket, object, thread, server, runs>>

\* The PSM field is cleared: parseInt throws on the GUI thread, and the
\* application ends with all its threads and descriptors.
ClearPsm ==
  /\ kind = "l2cap" /\ "crashed" \notin lapses
  /\ pc' = [t \in Threads |-> "dead"] /\ target' = [t \in Threads |-> Null]
  /\ link' = [s \in Sockets |-> "none"] /\ busy' = [s \in Sockets |-> Null]
  /\ mute' = {}
  /\ AllGone
  /\ lapses' = lapses \cup {"crashed"}
  /\ UNCHANGED <<gui, down, key, runs>>

LinkLost(s) ==
  /\ link[s] = "connected"
  /\ SetLink(s, "lost")
  /\ UNCHANGED <<gui, busy, thread, runs, lapses>>

\* What the server has disconnected is lost to the test, answers excepted.
Disconnected(clients) ==
  link' = [s \in Sockets |-> IF s \in clients THEN "lost" ELSE link[s]]

Server ==
  /\ \/ (Listen \/ Accept \/ Read \/ Answer) /\ UNCHANGED link
     \/ \E dropped \in SUBSET Sockets :
          (AcceptFails(dropped) \/ CloseClient(dropped)) /\ Disconnected(dropped)
  /\ UNCHANGED <<gui, busy, down, mute, thread, runs, lapses>>

Next ==
  \/ \E t \in Threads : Test(t) \/ RunTest(t)
  \/ \E car \in Chars : Offer(car)
  \/ SwapCtrl \/ SwapIntr \/ ClearPsm
  \/ \E s \in Sockets : LinkLost(s)
  \/ Server

Spec == Init /\ [][Next]_vars

-----------------------------------------------------------------------------
(* Properties. *)

Over == \A t \in Threads : pc[t] \in {"idle", "dead"}

\* When every test is over, no socket object keeps a descriptor, in whatever
\* order tests overlapped and failed, unless the sockets were swapped under a
\* test or the first close of a cleanUp threw.
AllClosed ==
  Over /\ lapses = {} => \A s \in Sockets : link[s] = "none"

\* A key of KeyboardHidTester is down at the host only while some test is about
\* to release it, or to close the channel.
NoStuckKey ==
  kind = "keyboard" /\ "swapped" \notin lapses =>
    \A s \in Sockets :
      down[s] # NoKey => \E t \in Threads : pc[t] \in {"release", "closeIntr"}

\* Unless the sockets were swapped under it, the read of an L2capTester has
\* something to come that ends it: an answer, a server that has the message or
\* is about to close, or the end of the link.  There are two exceptions, and then
\* neither side goes on.  The text was empty, and the server waits for it.  Or a
\* second test has opened the channel again under the first, and now waits for
\* the object that the read keeps locked, to write or to close.
ReaderWoken ==
  "swapped" \notin lapses =>
    \A t \in Threads : pc[t] = "reading" =>
      LET s == target[t] IN
        \/ link[s] # "connected" \/ s \in answers \cup requests
        \/ client = s /\ serverPc \in {"write", "close"}
        \/ s \in mute
        \/ \E other \in Threads \ {t} : pc[other] \in {"write", "closeCtrl"} /\ ctrlSocket = s

\* The server waits for a message only of a client whose test is still to write
\* or to close, or sits in the read that follows the write of an empty text,
\* unless the sockets were swapped: nothing else ends the silence that keeps
\* every other client out.
ServerReleased ==
  "swapped" \notin lapses =>
    (serverPc = "read" /\ client \notin requests \cup {Ended} =>
       \E t \in Threads : \/ pc[t] \in {"write", "closeCtrl"}
                          \/ client \in mute /\ pc[t] \in {"read", "reading"})
=============================================================================
