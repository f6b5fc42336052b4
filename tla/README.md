# HIDSlave: models and proofs

HIDSlave makes a phone or a Linux machine act as a Bluetooth keyboard. This
directory holds TLA+ models of its programs, the TLC runs that check them and
the TLAPS proofs about them.

## The system and its parts

| Part | Source | State it keeps | Operations |
| --- | --- | --- | --- |
| libhidroid sockets | `libhidroid/src`, `libhidroid/jni` | a semaphore, a native descriptor, remote device, psm, two streams | `connect`, `close`, `getInputStream`, `getOutputStream`, `read`, `write`, `setSockOpt` |
| libhidroid_test testers | `libhidroid_test/src` | two sockets per tester, a `SynchronousQueue` of key codes | `runTest` (a thread: `doTest`, then `cleanUp`), the listeners of the GUI |
| xkbd-bthid keyboard | `xkbdbthid-0.1/.../kb.c`, `button.c`, `box.c`, `libXkbd.c`, `xkbd.c` | layout, active and sliding button, sticky-modifier state | X events, `bthid_process_keypress`, `kb_do_repeat`, layout switch, resize |
| xkbd-bthid daemon | `xkbdbthid-0.1/.../hidcd.c` | a pipe from the GUI, listening and accepted channels, sticky bits, protocol flag, key counter | `bthid_open/send/close`, accept, poll loop, key translation |
| wrapper | `xkbdbthid-0.1/bthid/xkbdbthidwrapper` | none of its own; the scan mode and class of the adapter | sets the adapter up, runs the keyboard, reverts the adapter |
| SDP registration | `xkbdbthid-0.1/.../sdp.c`, `sdp-test/sdp.c` | a session with sdpd, a record | open, add the keyboard record, remove |
| sdp-test | `sdp-test/main.c`, `l2cap.c`, `sdp.c` | two channels, an SDP record | register, connect, send keys |
| stuffkeys | `sdp-test/stuffkeys/stuffkeys.c` | two channels, one report | connect with retries, acknowledge what is read, type a string |
| hello-jni | `hello-jni/jni/hello-jni.c`, `HelloJni.java` | two static descriptors | `su` from `onCreate`, then the same client behind a JNI call |
| l2capServer | `l2capServer/main.c` | one listening channel, one client | accept, read, echo, close |
| libvirtkeys | `xkbdbthid-0.1/.../libvirtkeys.c` | | not modelled: no program builds or calls it |
| simplescan, btdump, doc, headers | | | not modelled: a scan that prints, captured traffic, documents, vendored headers |

The parts are separate programs. They meet at the Bluetooth host: a HID host expects a
control channel (psm 0x11) and an interrupt channel (psm 0x13) from the same device,
and keyboard reports on the second. Inside a program they interact through shared
objects (testers and sockets), a pipe and a forked process (keyboard and daemon), and
callbacks (`SockOptSetter`, GUI listeners). Between programs there is more: the
wrapper waits for the keyboard it forks, two runs of it set up and revert the same
adapter, the daemons of two keyboards compete for the same two channels, each is a
client of the service discovery daemon, and the L2CAP tester talks to l2capServer.

What is hard in them: threads that share one socket object and block in native calls,
reads and writes alike; calls whose failure nobody looks at; exceptions between two
steps; the GUI changing the sockets of a tester that runs; a daemon that blocks in
`accept` while keys queue up in its pipe; state of one host session that survives into
the next; sticky modifiers that exist twice, in the GUI and in the daemon; processes
that outlive the window that started them; a reader of configuration files with one
flat context for nested sections.

## The modules

| Module | Models | Checked by | Proved in |
| --- | --- | --- | --- |
| `L2capSocket` | one socket object of libhidroid and the threads that share it | `socket`, `socket_close` | `L2capSocketProofs` |
| `L2capChannel` | the abstract channel that object promises | `socket`, through `L2capSocketRefines` | `L2capSocketProofs` |
| `HidTester` | the three testers, their threads, the GUI that changes them | `tester` | `HidTesterProofs` |
| `EchoServer` | l2capServer, the peer of the L2CAP tester | `tester` | `HidTesterProofs` |
| `HidReport` | the events of the keyboard program and the report they become (`hidcd.c:238-292`) | with the next two | |
| `XkbdKeyboard` | what the on-screen keyboard sends: X events, sticky modifiers, the pipe | `keyboard`, `keyboard_release` | `XkbdKeyboardProofs` |
| `BthidServer` | the daemon: accept, poll, SET_PROTOCOL, reports | `daemon`, `daemon_live` | `BthidServerProofs` |
| `XkbdConfig` | the reader of the keyboard file, and the sizes it computes | `layout` | `XkbdLayoutProofs` |
| `XkbdLayout` | the keyboard on the screen: sizes, clicks, faces, slides, layouts, repeat | `layout` | `XkbdLayoutProofs` |
| `HidDescriptor` | the report descriptor, the report and how a host reads it | `session` | |
| `SdpRecord` | the service record of xkbd and that of sdp-test, and what a host takes from them | `session` | `KeyboardSessionProofs` |
| `SdpService` | sdp.c and the service discovery daemon | `session`, `session_overlap` | `KeyboardSessionProofs` |
| `KeyboardSession` | wrapper, keyboard windows, their daemons and sdpd, runs that follow each other or overlap | `session`, `session_overlap` | `KeyboardSessionProofs` |
| `HidLink` | the two channels of a connecting client, and the host | with the next two | |
| `StuffKeys` | stuffkeys | `stuffkeys` | `StuffKeysProofs` |
| `HelloJni` | the hello-jni application, over several calls | `hello_jni` | `HelloJniProofs` |
| `KeyboardClient` | the abstract client both implement | `stuffkeys`, `hello_jni` | `StuffKeysProofs`, `HelloJniProofs` |

The `MC...` modules only give values to constants.

### L2capSocket

One action per native step, assignment or lock operation of a call, so that threads
interleave wherever the code lets them. `pc[t]` names the statement a thread is at,
from `lock` to the `finally` block of NativeSocket's callers; `permits` is the
semaphore, `nativeSocket`, `remoteDevice`, `inputStream` and `outputStream` are the
fields. `link`, `far`, `inbox` and `outbox` are the kernel's. Two statements run
outside the semaphore in the code and so they do here: the getters, and the creation
of the streams after `super.connect`. Every native call may fail wherever the JNI code
tests its result, whatever the state of the channel: a read throws on an error and on
0 bytes, which the TODO of `L2capSeqPacketSocket.java:18-19` says it gets at once, and
a write on an error. A read blocks while the inbox is empty, a write while the outbox
is full (`Blocked`), both with the semaphore held; each has a step that begins it and
one that ends it. `LockInterrupted` is the `InterruptedException` of `lock()`, which
the code throws inside the `try`, so that `finally` releases what was never acquired.
Most invariants are therefore stated for `interrupts = 0`, and `OnePermitPerInterrupt`
says what is left afterwards. Left out: the bytes that are read and written, and the
clamps of their lengths.

`L2capChannel` is what a user of one object may rely on, without threads: a channel is
closed, open, connected or lost, and at most one call is blocked in it. A blocked call
returns or fails, at any time. An interrupted `lock()` breaks the object, and nothing
is promised of a broken one. `L2capSocketRefines` instantiates it with the state of
`L2capSocket`. `holds` is one set for all threads: a stream can be handed from one to
another.

### HidTester and EchoServer

A thread runs `doTest` and then `cleanUp` on the two fields of the tester (one in the
L2CAP tester); it reads a field when it makes a call (`Enter`), because the GUI thread
may have replaced the object since. A socket object is `L2capSocket` made coarse: each
call is one step, but for `connect` and the read of the L2CAP tester, which keep the
semaphore while they block; the streams are created with the connection. Every call
may fail, on a connected channel too. `lapses` records the events after which the code
promises less: `swapped`, the fields were replaced while a test ran; `skipped`, the
first `close` of a `cleanUp` threw so that the second never ran; `crashed`, an
exception on the GUI thread ended the application (`ClearPsm`). Each property names
the lapses it depends on, so it says both what holds and what breaks it. `kind`,
chosen at the start, says which of the three testers is in use. Of a text that is
typed only the last byte counts, and `Translate` is HIDASCIITranslator.

`EchoServer` is l2capServer: it accepts from a backlog, reads once, answers and
closes, one client at a time. A client is a socket object of `HidTester`, and the
steps of one that the other sees (`Arrive`, `Ask`, `Receive`, `Gone`) are part of
the actions of both. `mute` has the objects whose last write was of no bytes:
`L2capOutputStream.c:33` makes no system call for an empty text and returns
normally, and nothing reaches the server. `ReaderWoken` and `ServerReleased` say in
their last disjuncts which deadlocks were found: after an empty text test and
server read from each other; and of two L2CAP tests on one object, the second
connects again between the write and the read of the first, which then reads an
answer nobody has asked for while it keeps the semaphore that the second needs to
write. Outside these the properties still have to hold: what is read for is on
its way, and who silences the server is about to write or to close.

### XkbdKeyboard

`ButtonPress`, `ButtonRelease` and `Repeat` each run the whole of
`bthid_process_keypress`; what the code writes to the pipe is queued in `todo`
and written by `WriteEvent`, which blocks while the pipe is full, with the event
loop, as `write` does. `state` and `locked` are what is drawn, `sticky` is
`bthid_state`, which `kb_new` does not initialise: `Init` allows any value. The
code's `&= (!KB_STATE_X)` is `&= 0`, so `NewSticky` is empty afterwards. `lapses`
names what takes the keyboard, its drawing and the host apart: `garbage`,
`chord` (two modifiers sticky at once), `crossed` (a press before the release of
the last) and `untidy` (a modifier that repeats, a right-hand one, or Caps Lock
while one is set). The receiver is a daemon with a host connected.

### XkbdConfig and XkbdLayout

`XkbdConfig` is the loop of `kb_new` over the lines of the file, one action per kind
of line, and the two passes over sizes that follow it. A line is its kind, its tag or
setting and a value; a text is its length in characters and in pixels. The code keeps
one `context` and the pointers `tmp_box` and `tmp_but`; `open` is the nesting a reader
of the file sees, and `ContextIsInnermost` compares the two. A file that makes the
program exit, or use memory it does not own, ends in the status `exited` or
`undefined`. `Sized` and `Geometry` repeat the arithmetic of `kb_new` and `kb_size`;
quotients are exact, but for those `RoundedDown` names, which single precision puts
just below a whole number. `XkbdLayout` goes on from there: `kb_find_button` is tried
at every point of the window, `drawn` is the face each key was last given, and `timer`
and `delay` are the static variables of `kb_do_repeat`. A switch to a layout that is
not there is undefined. `overtaken` are keys whose release was lost to a later press;
`press` is the history `RepeatsAfterDelay` needs. Colours and the drawing itself are
left out. What is sent to the host for a key is in `XkbdKeyboard`, which in turn has
no geometry: a key sends its scancode, whatever text is drawn on it. The path that
would send a keysym, and the slides with it, has no caller that runs (`kb.c:809`,
`875`, `1016-1024`) and is left out.

### HidDescriptor, SdpRecord, SdpService and KeyboardSession

`KeyboardSession` has every process of the device program: the wrappers, the
windows, a daemon per window and sdpd. The daemon is seen from outside;
`BthidServer` has its inside. Runs of the wrapper start from the menu, at any time:
nothing in `xkbdbthidwrapper.c`, `xkbdbthid.sh` or the desktop file keeps two of
them apart, so that `wrappers` is indexed by `Runs` and all actions of all runs
interleave; nothing resets `psm`, `daemon` or `adapter` between them. One run is a
sequence of processes, because a child whose exec fails goes on as a second wrapper
while the first waits. A tool may fail (`ToolFails`), be missing (`FallThrough`) or
not be forked (`NoFork`), at each of the five steps: nobody looks at its status, and
the adapter stays as it was. `lapse` keeps for each run which of its steps were
lost, those that set up under one name and the two that revert under theirs, and
whether it met another run. A daemon whose `l2cap_listen` fails goes on with
descriptor -1: another socket has the channel, or `socket`, `bind` or `listen`
failed by itself. `excused` has the daemons that something else than an orphan
kept from a channel: a failure of their own, a daemon that was dying, or one whose
window is open. `bthid_pid` is -1 when the fork failed, which `kill` takes for
every process of the user (`QuitAll`): windows, daemons, wrappers with what they
had still to revert, and an sdpd that a wrapper of the user started. The window
holds both ends of its pipe, so that a write waits for ever once the pipe is full
and the daemon is not serving (`Stuck`).

Three properties say what this leaves intact. `DeafBehindOrphan`: without an
excuse, a deaf daemon needs an orphan. `AdapterIsReady`: while a window is open the
adapter is set up, unless the run of that very window lost a step or met another.
`AdapterIsReverted`: an adapter that is still discoverable, or still a keyboard,
has a run before the step that reverts just that, or a run in which just that
step was lost; overlapping is no excuse here, since the last run to end reverts
for all.

`SdpService` gives each program its session and its record. `SdpRecord` builds that
record as the code does, attribute by attribute: two blocks are numbered from a first
id on, between and after attributes that are added one by one, and one that lands on
another's id would go unnoticed by the library. The record of sdp-test is built beside
it, with the channels its `hid.h` names; its process is not modelled. `HidDescriptor`
has the bytes: the descriptor of the record, the two key tables of `hid.h`, the report
of `hidcd.c`, and a HID host that parses the first and reads the last by it.
`HostUnderstands` asks for every record that is registered, and for that of sdp-test,
that the channels are those the programs use, that the attributes are where a host
looks for them, and that it reads a report of every key and of every set of modifiers
by the descriptor (`ReportsRead`).

### BthidServer

The daemon is one sequential process: `AcceptCtrl`, `AcceptIntr`, `Poll`, one
handler per descriptor in the order of the code, `Out`. `ctrlQueue` and
`intrQueue` are the kernel's backlogs; a host may open and end its channels at
any time, also while the daemon waits in `accept`, and a channel that ends in the
backlog is never accepted. `Kill` is the SIGTERM of the quit key. `state` and
`bitmask` are not reset at the end of a session; `lapses` records the sessions
this spoils (`again`, `carried`), those whose channels belong to two hosts
(`mixed`) and those whose control channel had ended before the interrupt channel
was accepted (`aborted`). Left out: what a host sends on the interrupt channel,
which the code reads and drops, and all of a control message but whether it is
SET_PROTOCOL.

### StuffKeys, HelloJni and KeyboardClient

Both programs connect the control channel, then the interrupt channel, each with a
retry loop; poll once for a millisecond; handle what has arrived; type; close. Every
system call that can observe the host is a step, and the host may talk, drop either
channel or become unreachable in between. A send may also fail on a channel that is
there (EAGAIN, EINTR, ENOSPC, EIO): stuffkeys stops at the first failure, hello-jni
logs it and goes on with the next report. `Main` of stuffkeys counts the options `-a`
and `-b` together, so that two of `-b` pass for one of each: the address is never set
(`bdaddr_a`) and no connection succeeds. In `HelloJni` the process goes on after the
call: other threads open and close files, which take the lowest free descriptor, and a
later call finds in `cs` and `is` the numbers of the first (`Connect`, one action for
both channels). Before each call `onCreate` runs `su` and waits for it; a shell that
is granted never ends, since nobody closes its input (`HelloJni.java:56`), and then
the GUI thread waits for ever: `CallEnds` says so by asking for the other cases. A
char is used as the address of `sprintf` (`hello-jni.c:547`): the outcome of reading a
message is the death of the process. `KeyboardClient` is their common promise: stages
closed, control, both, draining, over, never back, and reports only in "both", each
report of the script at its turn. What is not common is the constant `MaySkip`: a
report whose sending fails may be left out (hello-jni), or may not (stuffkeys), so
that the host of stuffkeys holds a prefix of the script and that of hello-jni the
script with some reports missing, a release among them if it must be. `next` is the
place in the script. `Stage` in `HidLink` maps the descriptor table and the two
descriptors to it.

## The runs

| Run | Bounds | Shows |
| --- | --- | --- |
| `socket` | 2 threads, 1 descriptor, 2 devices, 1 packet unread and 1 unsent, 1 interrupt | lock, descriptor and fields stay consistent through every failure up to the interrupt; `L2capChannel` is implemented; the semaphore comes back; an interrupt adds exactly one permit |
| `tester` | 2 threads, 4 socket objects (the initial null and two swaps), a small letter, a capital and a digit, 3 tests of the L2CAP tester, a backlog of 2 | overlapping tests close what they opened and release what they pressed, up to the lapses; a blocked read and a silent client are somebody's turn, but for two deadlocks |
| `keyboard` | 8 buttons, pipe of 1 event | keyboard, drawing and host agree, up to the lapses |
| `layout` | files of up to 5 lines, free or after a full `<global>`, and two full files; windows of 7x7 and 9x4; 3 rounds of a held key, 1 lost release | the reader nests as the file does, the keys tile the window, are drawn for the state and repeat in time |
| `daemon` | 2 hosts, presses of one key, pipe and inbox of 1 | who is reported to, answered, disconnected |
| `daemon_live` | 1 host, repeated sessions, presses and releases of a key and a modifier | the host sees the modifiers that are down, is served, and the pipe is read |
| `session` | 1 run at a time, 2 keyboards, pipe of 1 event, 1 failure (tool, fork, listen, end of sdpd), 1 missing program | which daemon hears the host, how the adapter is left, that the host can read the reports, that a run ends |
| `session_overlap` | 2 runs at a time, 2 keyboards, pipe of 1 event, no failure | the same for the daemons and the adapter when runs overlap at any of their steps |
| `stuffkeys` | 3 keys (before, at and after the question mark), 3 descriptors, 1 unread message per channel | implements `KeyboardClient`, leaks nothing, ends |
| `hello_jni` | 2 keys, 2 calls, 3 descriptors, su missing, refused or granted | the same for the first call, what a second call does, and when `onCreate` returns |

Why the bounds are enough. Two threads are needed for every race in the socket and the
tester. One descriptor makes every new socket reuse the number of the one just closed,
which is what the kernel does, and a leaked one shows as a socket(2) that fails;
`L2capSocketProofs` covers any number of threads and descriptors. One packet unread
and one unsent make a reader and a writer wait. Two devices let a reconnect go
elsewhere. Three tests let a thread run a second one while the server still holds the
client of its first, with the other thread in its own. A pipe of one event already
blocks every event of a key but the first. Five free lines reach every pair of nested
sections with a setting in it and what follows their end; the two full files have what
these are too short for (two layouts, rows of several keys, every modifier). The
windows are small enough to try every point, and neither divides evenly. Two hosts are
what a mixed session needs. A second keyboard is what an orphan of the first can harm;
a third meets nothing new, as an orphan either has both channels or one or none. Two
runs of the wrapper are what an overlap needs. A failure is taken one at a time in
`session`, and left out of `session_overlap`, which holds with one failure too, in
about four million states and three minutes; `KeyboardSessionProofs` covers any number
of runs and failures. Two calls and one descriptor beyond the channels are what a
stale number needs to be handed to another thread.

Deadlock is checked in the socket and client runs. It is not in `tester` (a test
thread that waits for a key, with all objects created, may have nothing left to
do), `keyboard`, `layout`, `session` and `session_overlap` (the programs end) and
`daemon` (the daemon may be dead and the pipe full).

### Findings

Two runs state what a comment says and end in a counterexample.

| Run | Comment | What the code does |
| --- | --- | --- |
| `socket_close` | `L2capSocket.java:158`, `close` makes blocked calls throw | `close` waits for the semaphore that the blocked read or write holds |
| `keyboard_release` | `hidcd.c:425`, another key releases shift, ctrl and alt | one of two sticky modifiers is released, both are forgotten |

More disagreements are part of the models and have no run of their own:

* `L2capSocket.java:26-28` says the socket is protected during `setSockOpt`: after
  an interrupted `lock()` two calls run at once (`MutualExclusion` asks for
  `interrupts = 0`).
* `L2capSocket.java:155` says `close` releases the streams: a `close` between
  `super.connect` and the creation of the streams leaves them set.
* `hidcd.c:351` says "was set then lock": press and release each run the code, so
  the modifier is locked and at once unlocked.
* `stuffkeys.c:184` speaks of the question mark only: the shift byte is never
  cleared, and everything after it is typed with shift (the script of
  `TypesTheScript` says so).
* `xkbdbthidwrapper.c:16-19` says that hci0 is usable as a keyboard, and reverted on
  exit: a run that ends reverts it under the window of another, and a step that
  fails, or the `kill(-1)` of a quit key without a daemon, leaves it as it was
  (`AdapterIsReady` and `AdapterIsReverted` say after what).
* `hello-jni.c:547` kills the process on the first message of the host, before the
  answer that line 550 announces.

What the runs show of hazards no comment speaks of:

* A keyboard that is closed, or leaves early, leaves a daemon that keeps both
  channels from the next one (`xkbd.c:240,256,449`; `DeafBehindOrphan`).
* A window whose daemon is dead or waits in `accept` hangs once the pipe is full,
  and the wrapper with it (`hidcd.c:69`; `RunEnds`).
* A test of the L2CAP tester with an empty text waits for ever, and l2capServer with
  it (`L2capTester.java:65-70`, `L2capOutputStream.c:33`; `ReaderWoken`).
* Two L2CAP tests on one object may wait for each other for ever
  (`L2capTester.java:70`; `ReaderWoken`).
* `onCreate` never returns when root is granted (`HelloJni.java:56`; `CallEnds`).
* hello-jni may lose the release of a key for want of a buffer and leave it down at
  the host (`hello-jni.c:123-145`; `TypesTheScript` with `MaySkip`).
* A write to a host that does not read keeps the semaphore, as a read does
  (`L2capOutputStream.c:47`; `LockReturned`).

A property that holds only outside some lapse, excuse or last disjunct checks that
nothing else breaks it. What happens inside the exemption is documented by it and
not checked further. Of the hazards in `PROJECT.json`, those whose own line is such an
exemption are of this kind: what two swapped sockets leave open (`swapped`), two
modifiers at once (`chord`), a second session with the state of the first (`again`,
`carried`), channels of two hosts (`mixed`), `bthid_pid` of -1, and the two deadlocks
of the testers.

## Fairness

`L2capSocket`: weak fairness of the steps a thread takes inside a call while it is
not blocked. A thread that can run is run, and a `connect` ends with success or
failure. A call that is blocked may fail at any time but need not, so that only
the far end is sure to end it; no fairness makes a caller call, a peer speak or
listen, or one waiting thread get the semaphore before another.
`BthidServer`: weak fairness of the daemon, one process whose next step is
enabled whenever its system call would return. `StuffKeys` and `HelloJni`: weak
fairness of the client; `Ends` and `CallEnds` assume a host that accepts from
some time on, since the retry loops run for ever without one, and `Ends` sets
apart the stuffkeys that was given no address. `KeyboardSession`:
weak fairness of every process, and strong fairness of closing a window, which a
user interrupted by key presses still does in the end; `Accept` has none, because
no host needs to come, and nobody need start the wrapper again. A tool ends, with
success or failure. A fork that fails has no fairness, nor have the ways a host or
a failing write ends a daemon. `RunEnds` is checked in `session` only, where a run
follows another. Hosts, users, other threads and link losses have no fairness
anywhere.

## What is proved

The proofs hold for every value of the constants that satisfies the `ASSUME`s of
the modules, with no bound but those the constants name. Each is an inductive
invariant, found and tried on the run of its module before it was proved; what
follows says why the property needs it.

* `L2capSocketProofs`, from `FdsAssumption` (descriptors are positive, so that
  `get() > 0` means "has a socket"), `DevicesAssumption` and `BoundsAssumption`.
  `Mutex`, `NoLeak` and `Stable`: up to the first interrupt, the thread inside the
  lock holds the one missing permit (`LockInv`), and at each point of its call
  `nativeSocket` and the kernel's `link` are known (`SocketInv`).
  `InterruptsAddPermits` counts: the permits and the threads inside the lock are
  together one more than the interrupts, at any time (`PermitInv`).
  `Streams` needs no lock at all, and so holds after interrupts as well: an object
  that is connected with a stream missing has a thread that is about to assign it
  (`StreamInv`). `DeviceTrue` and `OneChannel`, the refinement of `L2capChannel`:
  between the step that changes the descriptor and the one that assigns
  `remoteDevice` a thread is at `clear` or `setFields`, and nowhere else do they
  differ (`DeviceInv`); every step of a thread is then a step of the channel or
  none. A failure is allowed in every state, and a blocked write is a call that waits,
  as a blocked read is: in the channel either may return or fail, at any time.
* `HidTesterProofs`, from `HidTesterAssumption` and `EchoServerAssumption`, for any
  number of threads, objects and tests. `TestsCloseAll`: an object with a
  descriptor is in a field of the tester, and a thread has still to come to where
  that field is closed (`Closers`). `KeysAreReleased`: a key is down on the
  interrupt channel only and some thread is before its release or before the close
  (`Down`). `ReadersAreWoken` and `ServerIsReleased`: an object is held by one
  thread at most, which is in the call it holds it for (`Order`); the channels of
  the backlog and of the server's client are connected (`Clients`), and the message
  of a connected test is to be written, answered or about to be, or was empty, in
  which case the object is `mute` until its channel ends or it writes again
  (`Asked`).
* `XkbdKeyboardProofs`, from `KeysAssumption` and `PipeAssumption`. `LockedShown`
  concerns the drawing alone. `ModifiersAreReleased`, `KeysAreReleased` and
  `DrawingIsTrue` look ahead along the pipe: of the events that are queued or
  written, the last about a code decides, and without one the host's own state
  does (`Ends`). A step of the daemon moves an event from the pipe to the host and
  changes no such end; a step of the keyboard appends at the tail what agrees with
  its new `sticky`. `Drawn` is what makes `DisplayAgrees` inductive: while a
  modifier is held, the drawing is half a tap behind.
* `XkbdLayoutProofs`, from `SizesAssumption`: numbers in a file are integers, and the
  sizes of windows and of the font are natural. `SettingsReachTheirPlace`: the open
  tags are properly nested, and `context`, `tmp_box` and `tmp_but` follow the
  innermost one; the lists a row or a key is appended to are never empty then
  (`InPlace`). `DelayIsKept`: after a press that follows a round without a key,
  `timer` counts the rounds since, up to the delay (`Timed`). `KeysAreDrawnRight`:
  every repaint sets the faces of all keys or of those a change of `state` can alter,
  and the others keep theirs (`Drawing`). `KeysTile`: a layout that is shown was sized
  for the window as it is, and before it was stretched is as high as the rows of every
  layout it may be switched to (`Placed`, with `NumbersRead`). Each row is then a sum
  of floors of shares of what is left over, which is no more than the whole
  (`SharesFit`, `RowsFit`), and the columns of a row are its partial sums, so that a
  point between the first and the last lies in a key, on its edge or behind its end
  (`KeyOfColumn`). The proof uses of a quotient only that it is the floor or one
  below, and so says nothing of when single precision falls short.
* `BthidServerProofs`, from `ConstantsAssumption`. `BootBeforeKeys` and
  `BootAcknowledged` tie `state`, which is never reset, to the session it was set in
  (`StateIsFresh`), keep the two channels to one host outside mixed sessions
  (`OneHost`), and say that nothing was asked or reported outside a session
  (`NothingYet`). `HostShows` is inductive as it stands:
  `shown` and `bitmask` change together, but when a session begins. `OpenIsKept`,
  an action property: the daemon leaves a session only when one of its channels
  has ended, and in a session of one host it is that host that ended it
  (`SessionInv`), so no other can be open on both; a channel still in a backlog is
  not touched, which takes the place of a host in its queue (`ChannelType`).
* `KeyboardSessionProofs`, from `SessionAssumption`. `DeafDaemonsHaveOrphans`: only
  live daemons hold a channel (`Listeners`), a daemon that outlives the quit key, or
  `kill(-1)`, has its SIGTERM to come (`Told`), and so one that was refused a channel
  without an excuse has met an orphan (`Unheard`; together `HearInv`).
  `AdapterIsSetUp` and `AdapterReverts` share `AdapterInv`: a run that has met no
  other is alone (`Alone`), a run without a lost step has set the adapter up as far as
  it has come (`SetUp`), a run waits for every open window (`Awaited`), and what is
  not yet as it was by default has the step that reverts it to come, in some run, or
  lost (`Pending`). `RecordsAreUnderstood`: every record sdpd ever holds is the one
  the code builds (`Registrations`), and of both records the channels and attributes
  are those a host looks for. Its one hypothesis, `ReportsRead(hid_spec)`, has no
  variable and no constant: it is a computation on one table of bytes, which TLC
  evaluates in `session` as part of the property.
* `StuffKeysProofs` and `HelloJniProofs`, from `LinkAssumption` and
  `KeysAssumption` or `JniAssumption`: `NoLeak` and the refinement of
  `KeyboardClient` by stuffkeys, `FirstCallIsClean` and the refinement by
  hello-jni, for any number of calls. The invariants give the descriptor table at
  each program point (`SlotInv`: what the stage follows from) and the place in the
  script (`ScriptInv`, `KeyInv`), so that each successful send is the report at that place.
  stuffkeys stops at the first send that fails, and what the host got is a prefix of
  the script; hello-jni goes on, and some of the script may be missing. In
  hello-jni they speak of the first call alone: afterwards the two static numbers
  are stale, no descriptor is a channel again and the client stays in its last stage.

What proving changed in the models: `ConnectedHasStreams` holds after interrupts
too and no longer asks for `interrupts = 0`. `BthidServer` and `EchoServer`
remove the first place of a host or client from a queue (`RemoveFirst`), where they
filtered the whole queue; with one place per element, as the runs show, it is
the same. The width and height of a row are partial sums (`Total`), which the
least place where two of them differ can be reasoned about; as a fold they could
not. Records of `SdpRecord` are functions with a domain that grows, without
`:>` and `@@`, which no prover knows.

Only model-checked, and why:

* Every liveness property: `LockReturned`, `EventuallyServed`, `PipeRead`, `Ends`,
  `CallEnds`, `RunEnds`. Fairness and ENABLED are out of reach of the prover.
* `ReportsRead(hid_spec)`, the hypothesis of `RecordsAreUnderstood`: the host's
  reading of a descriptor is a recursive function, which would have to be unrolled
  step by step over its bytes.

Every other property of the passing runs is stated by a theorem. The type
invariants are parts of the inductive invariants these rest on; that of
`L2capSocket` is a theorem of its own (`TypeCorrect`).

## Not modelled

`PROJECT.json` lists every component with its status. What is left out, and why:

* Fonts, colours, pixmaps and the drawing calls of the keyboard; the geometry and
  the window-manager hints of its window, and SIGUSR1, which hides it. They are
  calls to X with nothing read back but sizes, which are inputs of `XkbdConfig`.
* libvirtkeys, which no program builds: `libvirtkeys.c` is in neither
  `src/Makefile.am:7-12` nor `src/makefile:4-5`, the calls of it are commented out
  (`kb.c:610`, `1016-1024`), and so are the events it would send
  (`libvirtkeys.c:640-665`).
* `kb_process_keypress` and `kb_send_keypress`, with the keysym a slide selects: their
  calls are commented out (`kb.c:809`, `875`), and `bthid_process_keypress`, which
  sends a scancode, is called in their place.
* `sdp_remove`, which no run of a program reaches, and the strings of the record.
* sdp-test's process: it registers, connects both channels once and writes one
  press per character for ever, and looks at no result, so that nothing it does
  depends on what has happened. What it registers and what it sends are in
  `SdpRecord`. Its `hidcd.c` is an annotated copy of the daemon that its Makefile
  does not build.
* The SDP functions of `hello-jni.c`, which nothing calls, and `BluetoothHidp`,
  whose methods are unimplemented.
* simplescan, findServ and regServ: straight-line uses of library calls.
* The bytes that sockets carry, the clamps of their lengths, vendored headers.
* Which keys are down, in `KeyboardSession`: it counts events. What a window that
  closes leaves down at the host is in `XkbdKeyboard`.

## What is left

The programs with state of their own are modelled, and the safety properties of
the runs are proved. Should the programs left out come to keep state, they are
next: sdp-test first, whose process would use `SdpRecord` as it is and
`SdpService` with other names.
