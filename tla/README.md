# A verification project for SP3000

SP3000 is an Arduino library (C++, AVR) that drives TI's CC3000 Wi-Fi module
over SPI. It is a port of TI's host driver with a layer of helpers on top. This
directory holds TLA+ models of its parts, the TLC configurations that check
them and the proofs, checked by TLAPS, of what they promise.

Run from this directory:

    tlc -workers 2 -config MCHciLink_any.cfg MCHciLink
    tlapm HciLinkProofs.tla

`PROJECT.json` lists the runs, what each definition of a model stands for in the
source (`map`), the hazards, and for every checked property a mutant: a change
of one definition, as a plausible bug would make it, under which TLC finds the
property violated. A mutant stands just above the definition it replaces and
begins its comment with "Mutant".

## 1. Inventory

How the parts call each other:

    sketch -> sp_* helpers -> socket / netapp / nvmem / wlan calls
           -> hci_command_send -> SpiWrite -> (IRQ) -> device
    device -> IRQ -> CC3000InterruptHandler -> SpiReceiveHandler
           -> hci_unsolicited_event_handler -> CC3000_AsyncCallback
    SimpleLinkWaitEvent -> hci_event_handler   (polls what the handler left)

There is one main program and one interrupt handler, the falling edge of the
device's IRQ line. No lock exists; the main program masks the interrupt at a
few places. Almost everything hard in this code is in what those two share.

| Component | State | Operations | Hard behaviour | What makes it correct |
|---|---|---|---|---|
| SPI transport (`spi.cpp`) | `ulSpiState`, `pRxPacket`, transmit buffer, chip select, the interrupt mask | `SpiOpen`, `SpiClose`, `SpiWrite`, `SpiFirstWrite`, `SpiResumeSpi`, `CC3000InterruptHandler` | an edge that grants a write and one that announces a packet look the same; "check for a missing interrupt" races the interrupt itself; an edge latched over a restart | every packet is written once; a read starts only if the device offers a packet, and never inside a write |
| HCI commands and events (`hci.cpp`, `evnt_handler.cpp`) | `usEventOrDataReceived`, `usRxEventOpcode`, `usRxDataPending`, the one receive buffer | `hci_command_send`, `hci_data_send`, `hci_patch_send`, `hci_event_handler`, `hci_unsol_event_handler` | the handler decides from `usRxEventOpcode` who owns a packet; waits have no timeout; a patch request is answered from inside a wait | no answer is lost or overwritten; every wait has something that will end it |
| Flow control (`socket.cpp`, `evnt_handler.cpp`) | `usNumberOfFreeBuffers`, `NumberOfSentPackets`, `NumberOfReleasedPackets`, `slTransmitDataError`, `socket_active_status` | `HostFlowControlConsumeBuff`, the FREE_BUFF event, failed sends, `set_socket_active_status`, `sp_close` | read-modify-write of shared counters with interrupts enabled; counters that wrap; a restart in the middle | the device is never overrun, no sender starves, `sp_close` ends and only when everything is sent |
| WLAN (`wlan.cpp`) | `tSLInformation`, the callbacks | `wlan_init`, `wlan_start`, `wlan_stop`, connect, profile, scan and smart-config commands, `wlan_smart_config_process` | boot handshake on the IRQ level, then on its edge; lengths given apart from the arguments; a key whose length shares its field | start and stop return; a restart forgets all of the old session; a call returns the verdict on its own command; the profile is for the network the phone named, with the key found in the field |
| BSD sockets (`socket.cpp`) | `socket_active_status`, the results of each call | `socket`, `closesocket`, `accept`, `bind`, `listen`, `connect`, `select`, `setsockopt`, `getsockopt`, `recv`, `recvfrom`, `send`, `sendto`, `gethostbyname` | status values in one, two and four bytes; data that follows an event only sometimes; the handler does not know how large the waiting variable is | as for WLAN; a returned descriptor can be used |
| Core (`core.cpp`) | `ulSmartConfigFinished`, `ulCC3000Connected`, `ulCC3000DHCP`, `asyncNotificationWaiting`, `dhcpIPAddress` | `sp_wifi_init`, `CC3000_AsyncCallback` | the flags change in the interrupt and are polled and cleared by the sketch | an address is not reported without a connection |
| Socket helpers (`socket-support.cpp`) | `rxbuf`, `buf_siz`, `rx_ptr`, `txbuf` | `sp_connect`, `sp_close`, `sp_send`, `sp_peek`, `sp_read`, `sp_read_line`, `data_available`, `sp_smart_config` | one receive buffer for all sockets; error codes in unsigned bytes; loops without a timeout; flags of an earlier call | bytes are delivered once, in order, to the socket they came from; the smart-config process starts disconnected and ends with a profile |
| Network application and NVMEM (`netapp.cpp`, `nvmem.cpp`) | the caller's result buffers | DHCP, ping, ARP, mDNS, `nvmem_read`, `nvmem_write`, patch programming | results in the one event buffer; patches in portions | each result reaches its caller and no other memory |
| Patch programmer (`cc3000_patch_programmer.ino`) | the MAC address and radio parameters in RAM, the device's files | `do_update`, `fat_write_content`, `restartDriver` | any access may fail, the power at any time; the new file table makes every file invalid | an upgrade that ends has complete patches and the files it saved |
| HTTP and sen.se (`http.cpp`, `sense.cpp`) | `sense_IP`, `sense_key`, the parser's place | `read_http_headers`, `sp_http_skip_to`, `sp_sense_send`, `sp_sense_poll`, `read_and_parse` | every character may come after the wait for it has ended; a tag is known by a sum of its characters; entries counted in a `char`, texts copied without a bound; retry counters; a length announced apart from the body; a peer that closes while it is read from | what is stored is what the server said; sockets are closed; calls return |
| AES (`security.cpp`) | round keys, the stored key | encrypt, decrypt a block, store the key in NVMEM | byte arithmetic, in place; tables in flash indexed as data | the rounds are the standard's, over whatever the lookups find |
| Job queue (`jobqueue.cpp`) | `r_ptr`, `w_ptr`, `cnt`, `queue` | `queue_put`, `queue_get`, `process_jobs` | nothing calls it | not modelled |

`PROJECT.json` has the same list with the status of each part, and the headers,
debug macros and example sketches, which have no behaviour of their own to
model. The hazards are listed there line by line.

## 2. What is modelled

### `HciLink`: the SPI and HCI link

Composed in one module, because the transport, the event handler and the start
sequence share every variable that matters.

* **Main program.** `pc` is the place in the current call. A call is one of
  three kinds: `cmd` (any command that waits for one event: all of `netapp`,
  most of `wlan` and `socket`), `recv` (an event, then perhaps data; also
  `nvmem_read`) and `send` (data out, then an event). `start` is
  `SIMPLE_LINK_START` inside `wlan_start`, followed by `READ_BUFFER_SIZE`.
  `Start*`, `Stop*`: `wlan_start`, `SpiOpen`, `wlan_stop`, `SpiClose`.
  `FirstWrite*`, `Write*`, `Direct*`: `SpiWrite` and `SpiFirstWrite`, a step for
  each write to shared state. `Wait*`, `Poll`, `Dispatch`, `Release`, `Resume`,
  `HandlePatch`, `Check*`: `SimpleLinkWaitEvent` and `hci_event_handler`. Clearing
  `usEventOrDataReceived` (`Release`) and unmasking (`Resume`) are two steps, as an
  interrupt that was not masked can come in between.
* **Interrupt handler.** `IsrPowerup`, `IsrIgnore`, `IsrRead`, `IsrWrite`, one for
  each branch on `ulSpiState`. `IsrRead` includes everything called from it:
  `SpiReceiveHandler`, the unsolicited-event handler and the unmasking. AVR
  handlers run with interrupts off, so each is one action; a pending unmasked
  interrupt runs before the next step of the main program (`Step`).
* **Device** (external). It boots, lowers and raises IRQ, answers, asks for
  patches and sends unsolicited events. `ans` is what it owes to the command in
  progress, `unsol` what it wants to say unasked, and data that an earlier call
  announced and nobody has read.

Abstractions. Packets are kinds, not bytes: `free` (FREE_BUFF), `async` (a
WLAN event or keep-alive that the handler passes to the callback), `unknown` (an
0x8xxx event that the switch does not know, which is left to the main program).
The device lets IRQ rise after chip select is negated and before the host asserts
it again, which the protocol requires and the delays of the code leave time for;
it boots only after the host waits for the low level; it ignores bytes clocked
while chip select is negated. `hci_unsol_handle_patch_request` reads the buffer
again after unmasking; if another packet has come, whether a patch is sent is a
free choice, since it depends on that packet's bytes; likewise what `Dispatch` reads of
a `RECV` event that another packet has overwritten (`Announced`). Lengths, padding and the
magic numbers that guard the buffers are not modelled.

### `FlowControl`: credits, packet counters and socket status

The data path above the link. The link is abstracted to what `HciLink` shows of
it: a command is answered, an event is handled once, and the handler may run
between any two steps.

* `LoadFree` and `StoreFree` are the two halves of `usNumberOfFreeBuffers--`,
  `LoadBits` and `StoreBits` those of the change of `socket_active_status`
  (the two statements of `set_socket_active_status` are one load and store
  each, and only one of them runs). `CheckError`, `ClearError`, `CheckActive` and
  `CheckFree` are the loop of `HostFlowControlConsumeBuff` in its order.
* `FreeBuff` is the FREE_BUFF event, `SendFailed` a negative SEND completion. Both
  run in the handler.
* `Start`, `Stop`: the counters are reset by `wlan_start`, `socket_active_status`
  is not.
* The device (external) holds packets, transmits or fails them, frees the buffer
  either way, and reports later. It acknowledges a send before it transmits, so a
  failure comes as a second, late event.

The counters are 32 bits wide on an 8-bit processor, so a read may be torn by
the handler. The pool has at most 255 buffers and the counters differ by at most
that; a torn read can make `sp_close` wait one round more and is left out.

### `RxBuffer` and `ByteStream`: the socket helpers' receive buffer

`ByteStream` is the promise of `sp_read` and `sp_read_line`: the bytes that
arrive on a connection are got once, in order, none left out, and a failure is
only seen after the last. `RxBuffer` is how the code keeps it.

* `Connect`, `ConnectFails`: `sp_connect`, which empties the buffer first and
  whatever comes of it. `Accept`, `Close`: `accept` and `closesocket`, which leave
  the buffer alone. `Ask` is a call of `data_available`, `DataAvailable` its
  answer. `Call` enters `sp_peek` or `sp_read`, after `data_available` as their
  comments ask.
* `Fill`, `FillFails`, `Peek`: the loop of `sp_peek` with `recv` returning any
  number of bytes that have arrived, or an error, which is stored modulo
  `ByteMod`. `Read` is the rest of `sp_read`. `BeginLine`, `LineMore`, `LineFull`,
  `LineNoData`, `LineRead`: `sp_read_line`, around the same `Fill`s. A step of the
  main program is what happens between two calls of the link, so that bytes and
  the peer's closing can come between them.
* A byte is known by its connection and its place in it, a connection by the time
  from opening a socket to closing it (the device reuses descriptors, the model
  does not). `got` and `broken` are history: what the application got, and where
  `recv` has failed. What is read after that is not data.
* The device (external): `recv` waits while nothing has arrived and the peer is
  connected; on a closed connection with nothing left it fails, and `select` may
  say that it is readable. The code's only account of this is the test for -57.
* `Careful` is the one assumption on the application: it reads all that was
  received on one connection before it turns to another. It may close its only
  connection early, but then goes on with `sp_connect`, whose first lines are
  there for it. `MayUse`, `MayClose`, `MayConnect` and `MayAccept` say so; with
  `Careful = FALSE` they allow everything.

### `ApiCalls`, `Commands` and `RemoteCall`: the driver's functions

`ApiCalls` is a table: one record for each function of `wlan.cpp`, `socket.cpp`,
`netapp.cpp` and `nvmem.cpp` that sends a command. A record has the event the
function waits for, the pairs of argument bytes laid out and length given to
`hci_command_send` (for every length the caller may choose), the size of the
variable whose address it passes on and what that variable holds before, which
of its bytes are returned and how they are read, whether data follows the event,
and what the function returns when it refuses to ask.

`Commands` runs any sequence of these calls.

* `RefuseCall`, `Send`: the beginning of a function, up to
  `hci_command_send`, `hci_data_send` or `hci_data_command_send`. The header's
  length wraps at 8 bits for commands.
* `TakeFailure`: a SEND or SENDTO completion with a negative status never reaches
  the function that waits for it: the interrupt handler takes it
  (`evnt_handler.cpp:632`), and the call is `lost`.
* `HandleEvent`: `hci_event_handler`. `HandlerWrites` is its switch: what each
  event's case writes at the address it was given, and which of these bytes are
  the device's verdict. The handler does not know the variable.
* `DevSendsData`, `HandleData`: the wait for data of `recv`, `recvfrom` and
  `nvmem_read`.
* `ReturnCall`: the bytes become a number (`Value`, `Result`), and `socket`,
  `accept` and `closesocket` change `socket_active_status`.

`RemoteCall` is what such a function promises: it asks once, the device decides
once, and the caller is told what the device decided. `VerdictReturned` is the
refinement of `RemoteCall` by `Commands`; a caller of the real function tells
success from failure by a test for 0 or for the sign (`ok` in the record), and
`Outcome` is this test applied to what is returned.

Abstractions. The order of arguments and their contents are left out, bytes of
the answer beside the verdict are zeros. `RecvMarks`: after a `RECV` event the
handler tests the length for -57 four bytes beyond the structure it has filled,
which may hold anything. The link is taken as `HciLink` shows it for a device that answers
only who waits: the event that is awaited comes.

### `Upgrade`: the patch programmer

`cc3000_patch_programmer.ino` with `nvmem_write_patch`. A step of the model is an
access to the device's memory, which may fail; the power may fail at any
step (`PowerFails`), which forgets the sketch's variables and starts it again with
what the memory holds. Each patch file is the number of bytes of the new image it
begins with, and `WritePortion` writes the true portions of the true lengths. A
failed write may spoil what it was to replace. Of the radio parameters and the
MAC address the model keeps whose they are: the device's own, or, for the
default table, what lies in the RAM where the flash address points
(`nvmem_write` reads RAM, the table is `PROGMEM`).

### `Aes` and `ConfigProfile`: the smart-config key

`Aes` has the functions of `security.cpp` byte by byte (`expandKey`, `galois_mul2`,
`aes_encr`, `aes_decr`) and, apart from them, the cipher as the standard defines it
(`Cipher`). The code's tables are `PROGMEM` and it indexes them as data
(`security.cpp:117`, `190`): on the AVR, for which the library is written, a lookup
finds the registers and variables at the table's address. So every function has as its
first argument what the lookups find, any three functions into bytes (`Tables`);
`Declared` is what the source declares, and what is found where flash is mapped into the
data memory. Two assumptions that TLC evaluates tie `Cipher` over `Declared` to the
standard: the tables are inversion and the affine map (`TablesAreStandard`), and `Cipher`
gives the standard's example (`CipherIsStandard`). That the code computes `Cipher` over
whatever it finds is a theorem (`AesIsStandard`, section 4).

`ConfigProfile` is `wlan_smart_config_process` with its failing reads. The phone
(external) encrypts with `Cipher` over `Declared`. Each decryption of the function looks
up in any of `Memories`, or leaves one of `Disturbed` if the memory changes meanwhile
(`Plains`); then the function finds out the key's length, which can be any byte, and calls
`wlan_add_profile`.

### `SmartConfig`: flags and `sp_smart_config`

`HandleEvent` is `CC3000_AsyncCallback` in the interrupt handler, one event at a
time in the device's order; the steps of `Main` are the commands and busy waits of
`sp_smart_config`. The device (external) connects when its policy and a profile
let it, gets and loses addresses and the network at any time, and forgets its
events when it is stopped. The answer to a command comes after the events that
were on their way, as there is one line for both.

### `Client`: Open.Sen.se over HTTP

`sp_sense_connect`, `sp_sense_send`, `sp_sense_poll` with `read_http_headers`,
`sp_http_skip_to`, `read_and_parse` and `parse_poll_response`. A step is a test of
`data_available` with the read that follows it. The test has a time limit, so that
at each place the answer may be late (`TimesOut`) and still come at the next.

The answer is its entries, `reply`, and a cursor on them, `at`: `Symbol` is what is
at the cursor, `After` the place behind it. Tags and values are read character by
character, and `jsontag` is what was read of a tag: `Hash` is the sum that the code
makes of it, `Member` the member the sum stands for. So a character that is late within
a tag ends it there (`TagMore`), and the rest is summed as another tag. Only the
fifteen characters of a status are one symbol. `Q`, `BEGIN`, `END` and `COMMA` stand
for the quote, the braces and the comma. A header is three lines with one colon in
them, as `sp_http_skip_to` tells only line ends apart.

`data_instance` is a signed char (`NextInstance`, `CharMax`), and the members have their
sizes (`Room`). What is written outside the caller's entries, or behind a member, is
noted in `elsewhere` (`Misses`); what it overwrites is not followed. `astray` is history:
a late character has ended a tag.

Two steps lead out of what is followed. `Resend`: `sp_send` repeats the beginning of a
value of `BUFFER_SIZE` characters or more, for ever. `PeerGone`: the server has closed the
connection, `recv` fails, and `sp_peek` takes its error for 199 bytes (`RxBuffer` has
this). The call is `stale` from then on: the parsers go on with what the buffer held
before, and may end (`CloseStale`) or not.

What the server may answer is a constant (`Instances`, `Polled`) with an assumption
that the code relies on. `read_and_parse` keeps its place by quotes, braces, brackets
and commas alone and knows no escapes, so no tag or value of a list has any of them,
and no tag a colon (`InstancesAssumption`); values may have colons, be empty, or be bare if
they are not saved and not the last; no two tags of an entry have the sum of the same
member, and one has that of `timetag` and one that of `id`. `parse_poll_response` counts
quotes: a polled value may have anything else, and is in the second field, which like the
first is quoted, of 63 at most, so that a byte can count their quotes (`PolledAssumption`).

The server (external) rejects a request of another length
than announced or does not answer it; `BodyLength` is what the calls of `sp_send`
add up to, `ContentLength` what the code announces.

`ClientInvariant` adds `ReadInv`, which says where the cursor and the parsers are;
run `client` checks it and section 4 proves it.

## 3. What the runs check

`HciLink` has five constants: the unsolicited kinds, a bound on how many are
sent, and three habits of the device, so that each property is checked against
the most hostile device for which the code keeps it.

| Run | Instance | Checks | Result |
|---|---|---|---|
| `link_any` | a device that answers early, fails sends, interrupts patch requests, sends unknown events | `TypeOK`, `TxExactlyOnce`, `NoPhantomRead`, `AnswerNotOverwritten` | hold, 154 879 states |
| `link_benign` | one that answers only a waiting caller, completes sends, is quiet during a patch request | `WaitHasCause`, `EveryCallReturns`, `UnsolicitedRead` | hold, 15 444 states |
| `link_send_fails` | one that may fail a send | `SendReturns` | violated |
| `flow` | two sockets, three buffers, counters modulo 4 | `NoOverrun`, `SendNeedsOpen`, `CreditsSuffice`, `CloseDrained`, `ShutDownDrained`, `DrainEnds`, `SendGetsBuffer` | hold, 555 254 states |
| `rx` | two connections, three bytes on each, a careful application | `TypeOK`, `LineInside`, `InOrder`, `PeekSeesNext`, `CallsReturn` | hold, 685 996 states |
| `rx_failed_recv` | the same | `FailureIsNoData` | violated |
| `commands` | every function, lengths at the limits, two sockets, verdicts 0, 1, -1, -57 | `NeighbourSafe`, `LengthExact`, `VerdictReturned`, `HandlesUsable`, `CallsReturn` | hold, 155 682 states |
| `upgrade` | the true image lengths, four failures | `PatchesComplete`, `MacKept`, `RmKept`, `WrittenBare`, `UpgradeEnds` | hold, 51 954 states |
| `config_profile` | nine key lengths, two AES keys, all securities, three contents of the tables, two disturbed blocks | `ProfileFromField`, `RoundsAreStandard` | hold, 11 300 states |
| `smartconfig` | three calls, two losses, four events under way | `LeaseNeedsLink`, `StartsDisconnected`, `SuccessHasProfile`, `CallEnds` | hold, 9 789 states |
| `client` | up to two entries, two late characters, answers that are hard to read, texts that have no room, as many entries as a `char` counts | `ReadInv`, `OnlyWhatCame`, `InTimeServed`, `NoSocketLeft`, `CallEnds` | hold, 597 638 states |
| `client_late` | one entry with short texts, one late character | `StoredInPlace` | violated |

**What the passing runs show.** However edges, writes, reads, restarts and
unsolicited packets interleave, `ulSpiState` and chip select decide correctly
who writes and who reads. Until the handler meets an event that it does not know, no
packet is read over an answer that the main program has not released. If answers come only once
their caller waits, no call hangs. Interrupts inside the unlocked decrement of the credits lose credits but
never so many that a sender starves: the loop keeps one buffer back, so the
decrement starts from at least two, and both the stored value and a lost update
leave enough for the next send. One receive buffer for all sockets is
enough for an application that uses one connection at a time: `InOrder` is the
refinement of `ByteStream` by `RxBuffer`, across any mix of peeks, reads, lines
that end early and reconnections.

Every function but `setsockopt` gives `hci_event_handler` a variable large enough for its
event; every function returns, but for a send whose completion has a negative status
(`CallsReturn`, and see `SendReturns` below); the length in every header but two is that of
the arguments; what a
caller is told of its command is what the device decided, through every cast on
the way, except for the functions listed in `Lossy`. An upgrade may be interrupted
anywhere: one that ends has written both images whole and put back the files
that the new table destroyed. Over whatever its lookups find the code's AES does the
standard's rounds, and wherever the key's field is decrypted to what the phone put
there, the test for keys of 31 and 32 bytes finds the key in it. `sp_smart_config` starts the process only
on a device without a connection, and a call can fail to return in two
ways only (`Stuck`). An answer of the sen.se server that is in time is stored whole, if a
`char` can count its entries and its texts have room; one that is late behind the headers
is stored in part, in the caller's entries only, and until a late character has ended a
tag never with what belongs to another member or entry. A call of the client returns
unless it sends a value that is too long, or the server closes while it is read from
(`CallEnds` says so).

**What the violations show.**

1. `SendReturns` (`evnt_handler.cpp:632`): a negative SEND completion is consumed
   in the handler and the send that waits for it never returns, although
   `sendto` documents -1.
2. `FailureIsNoData` (`socket-support.cpp:230`): a failed `recv` returns -57, kept
   in eight bits as 199. The branch for it is never taken; what lies in and after
   the buffer is returned as data.
3. `StoredInPlace` (`http.cpp:92`): `read_http_headers` is to read up to the empty
   line. When a character of the headers is late it stops, nobody looks at
   the result, and `read_and_parse` begins among the headers: it takes their
   colons for ends of tags, misses the first entry's brace, and stores its value
   at `data[-1]`.

**Seen while modelling, and part of the models.** These are what the code does;
the properties are stated so that they hold with them.

* The comment at `hci.cpp:79` says that `hci_command_send` updates the awaited
  opcode; it is set when `SpiWrite` has returned. An event in between is dropped
  (`evnt_handler.cpp:647`). `link_any` allows it, `link_benign` does not.
* An 0x8xxx event that `hci_unsol_event_handler` does not know
  (`evnt_handler.cpp:613`) is left to the main program. If none waits, the next
  `SpiWrite` unmasks with it in the buffer. `hci_event_handler` then clears
  `usEventOrDataReceived` (`evnt_handler.cpp:466`), an interrupt can read the awaited
  answer, `SpiResumeSpi` (`evnt_handler.cpp:468`) unmasks over it, and the next packet
  overwrites it. `AnswerNotOverwritten` therefore speaks of the time until such an event
  has been read (`unknownRead`); TLC finds this trace if the condition is dropped.
  Nothing in the repository speaks of such events, so no run counts it as a violation.
* A FREE_BUFF event between the load and the store of `usNumberOfFreeBuffers--`
  (`socket.cpp:132`) is overwritten: its buffers are unused until the next
  `wlan_start`. `CreditsSuffice` and `SendGetsBuffer` hold nevertheless.
* Descriptors of the session before a `wlan_stop` still count as active
  (`wlan.cpp:279`).
* `slTransmitDataError` belongs to no socket: a failed packet of one makes the
  next send of another return its status byte, a positive number
  (`socket.cpp:121`).
* `sp_read_line` returns -1 when the array is full and more is there, the length
  only if not (`socket-support.cpp:277`).
* Bytes left unread when a connection is closed are read as the start of the next
  one that `accept` returns (`socket-support.cpp:313`); hence `Careful`.
* `setsockopt` waits with a 2-byte int and is given a long. `nvmem_create_entry`
  and `mdnsAdvertiser` return variables of which one byte was written.
  `netapp_timeout_values` and `select` announce more argument bytes than they lay
  out; the rest is an older command's (`StaleTail`).
* `do_update` counts the third reading of the radio parameters as failed even if
  it succeeded, and then writes the default table, read from RAM instead of flash
  (`cc3000_patch_programmer.ino:1502`). `RmKept` is about the first two readings.
* `fat_write_content` overwrites three of its four statuses
  (`cc3000_patch_programmer.ino:1385`).
* The tables of `security.cpp` are `PROGMEM` and read as data (`security.cpp:117`, `190`).
  On the AVR the key of an encrypted network is therefore not recovered, unless the
  memory at their addresses happens to decrypt as they would. `ProfileFromField`
  speaks of the field as it was decrypted; with the condition dropped TLC shows a
  profile with another key. A length byte that is no key's makes `wlan_add_profile`
  read behind `profileArray` (`wlan.cpp:1294`), which the model leaves out. Nothing in
  the repository says in words that the key is recovered, so no run counts it as a violation.
* `sp_smart_config` does not clear its flags. A flag of an earlier call ends the
  wait for the process (`SuccessHasProfile` holds all the same), a connection flag
  that `wlan_stop` left set is waited for in vain, and the last wait ends with
  either flag where the comment asks for both (`socket-support.cpp:476`).
* `sp_sense_connect` returns its errors in an unsigned: they are used as sockets,
  and the call fails with a timeout instead (`sense.cpp:259`).
* `sp_send(s, char *)` begins again at the first character after each 64
  (`socket-support.cpp:146`): a value of 64 characters or more is sent for ever
  (`Endless`, `Resend`). `CallEnds` excepts it.
* A late character within a tag ends it: the loop at `sense.cpp:107` stops without the
  quote and drops the character it holds, and the rest of the tag is summed from 0. After
  the first `d` of `feed_id` the rest has the sum of `id` (205), and the value of `feed_id`
  is stored as the `id`; the same happens to `response_id`. `OnlyWhatCame` therefore speaks
  of the contents of a cell only until then (`astray`); without that condition TLC shows it.
* `data_instance` is a signed char (`sense.cpp:55`) and `size` a byte: the 129th entry of
  an answer is written at `data[-128]`. A timetag of 32 characters or more, or an id of 16,
  is copied beyond its member (`sense.cpp:142`). The properties ask for fewer entries
  (`FewEntries`) and shorter texts (`TextsFit`).
* If the server closes the connection in the middle of an answer, `sp_peek` makes
  199 bytes of `recv`'s error (`socket-support.cpp:229`), again at each refill, and the loops of
  `http.cpp` and `sense.cpp` go on over stale bytes for as long as the device calls
  the socket readable. `CallEnds` excepts this too (`stale`).
* A send that the device answers with a negative status never returns (`SendReturns`), and
  the call of the client with it; `Client` takes it that the calls of the library return.
* The announced length is wrong for feed ids from 2^31 on, which are printed with
  a sign, and for no entries; such requests are left out of `InTimeServed`
  (`plain`).

**Bounds.** `MaxUnsol = 3` unsolicited events and patch requests in all: each of
the three kinds can be under way at once, or one be repeated after it was read;
the protocol has one receive buffer and one edge latch, so a fourth adds no new
configuration. Calls, starts and stops are unbounded. Two sockets: one to act on
and another to be disturbed. Three buffers: one kept back, one in use, one to
lose. Counters modulo 4 wrap within two or three sends, as 2^32 would only after
days, and exceed the pool as `CounterAssumption` demands. `rx`: two connections,
one to read and one to disturb it or to follow it; a buffer of two bytes and
three bytes on each, so that it is refilled, filled partly and left partly read;
lines of length 0, 1 and 2, shorter than, equal to and, with what is left in the
buffer, longer than a filling; `ByteMod = 6` and an error of 2, so that a failed
`recv` leaves 4, more than the buffer holds, as 199 is more than 64.

`commands`: the shortest and longest value of each length and those just beyond
a limit that the code tests; verdicts that are success, a count, the general
error and -57; uninitialised bytes 0 and 255, whose signs differ; no bound on the
number of calls. `upgrade`: `MaxFaults = 4` is three failed readings of the radio
parameters and one more failure, or failures on both sides of a loss of power.
`config_profile`: keys at and beside the limits 16, 31 and 32, names of the
smallest and largest length, an AES key from the standard's examples and one of
all ones; tables as declared, with one byte throughout, and rotations that undo each
other; disturbed fields whose first byte is 31 or no key's length. `smartconfig`: `MaxCalls = 3`, so that a call meets the flags of one that
succeeded and of one that failed; four events are a connection and an address,
lost and made again, before the handler runs. `client`: two entries, the
fewest with a comma between; `Half = 50` stands for 2^31, with feed ids of one and
two digits and one beyond; values of no, 63 and 64 characters, at and behind the size of
`txbuf`; `CharMax = 1`, so that two entries are the most that can be counted (0 and 1);
the tags `timetag`, `id`, `feed_id` with their true characters, and a short one that is not
stored; rooms of 4 and 3, with texts that fill them but for the 0 and one that does not
fit; empty values, a colon at the start of a value and within one, a value without
quotes, and, to a poll, the same tag twice and commas and brackets in values;
`MaxLate = 2` late characters, so that a second one finds the parser where the first has led
it. `client_late`: the true sizes, as the trace is short.

**Deadlock.** It is checked where the system must not stop: `link_benign`, `flow`,
the `rx` runs (an application can always read what is buffered or call
`sp_connect`) and the `client` runs. In the other `HciLink` runs the
device may answer early or fail a send, after which the program hangs as
described above; so does a send of `commands` whose completion the handler has taken. `upgrade` and `config_profile` end; in `smartconfig` the program may
have made all its calls, or be stuck in one of the two ways that `CallEnds` names.
These have `CHECK_DEADLOCK FALSE`.

**Fairness.** `HciLink`: the processor runs (`Progress`), a pending interrupt is
taken (`Isr`; the hardware does so at the next instruction), and the device
boots, moves its line and answers: the driver has no timeout of its own and can
do nothing without those. Each unsolicited packet is read eventually if packets
are read again and again (strong fairness: the device does not pass one over
forever). No fairness on the application, nor on the device asking or saying
anything unasked. `FlowControl`: the processor runs, the device transmits what
it holds and its FREE_BUFF events are taken. The last is what `UnsolicitedRead`
shows of the link. `RxBuffer` and `Client`: only the processor and the calls of the library
below, which return; the peers need
never send anything more, and the calls return nevertheless. `Client` assumes nothing of
`Resend`, `PeerGone` and `CloseStale`: a server may close or not, and a stale call end or
not. `Commands`: the
processor, and the device's answer, which `EveryCallReturns` shows to arrive.
`Upgrade`: the processor; that failures come to an end is the bound. `SmartConfig`:
the processor takes its interrupts and runs the call, 30 seconds pass, and the
device connects where a profile and the policy let it (`Associate`) and leaves a
network whose profile is gone (`Disassociate`), as the waits of `sp_smart_config`
rely on; it need not get an address, nor acquire a profile.

## 4. What is proved

`HciLinkProofs`, `FlowControlProofs`, `RxBufferProofs`, `CommandsProofs`,
`UpgradeProofs`, `SmartConfigProofs`, `ConfigProfileProofs` and `ClientProofs` prove
the properties below for every value of the constants; the assumptions are those of
the modules (`Buffers > 1`, `Buffers < CounterMod`, the kinds of unsolicited event,
`BUFFER_SIZE + NotConnected < ByteMod`, the lengths in the two `LengthsAssumption`,
AES keys of 16 bytes, tables and blocks of bytes (`MemoryAssumption`), `MaxFaults` a number, what the server may answer in
`InstancesAssumption` and `PolledAssumption`, characters of 0 to 127 in `CodeAssumption`,
members of at least one byte in `RoomAssumption`). Two hypotheses stand in the theorems
themselves. Those of `RxBufferProofs` are about a careful application (`Careful`).
`WaitsForSomething` is about a benign device (`Benign`), as in `link_benign`. Of the
S-box declared the proofs use one fact that they do not prove, as it is 256 numbers:
that the inverse table undoes it (`TablesAreStandard`), which TLC evaluates for every byte.

| Theorem | States |
|---|---|
| `HciLinkProofs!TypeCorrect` | `Spec => []TypeOK` |
| `HciLinkProofs!Invariance` | `Spec => []IInv` |
| `HciLinkProofs!ExactlyOnce` | `Spec => []TxExactlyOnce` |
| `HciLinkProofs!NoPhantom` | `Spec => []NoPhantomRead` |
| `HciLinkProofs!NotOverwritten` | `Spec => AnswerNotOverwritten` |
| `HciLinkProofs!WaitsForSomething` | `Benign => (Spec => []WaitHasCause)` |
| `FlowControlProofs!Invariance`, `!TypeCorrect` | `Spec => []IInv`, `[]TypeOK` |
| `FlowControlProofs!FlowControlled` | `Spec => [](NoOverrun /\ CreditsSuffice)` |
| `FlowControlProofs!ClosedRefused` | `Spec => []SendNeedsOpen` |
| `FlowControlProofs!DrainSound` | `Spec => CloseDrained` |
| `FlowControlProofs!ShutDownSound` | `Spec => ShutDownDrained` |
| `RxBufferProofs!Invariance`, `!TypeCorrect` | `Careful => (Spec => []IInv)`, `[]TypeOK` |
| `RxBufferProofs!NoneLost` | `Careful => (Spec => []NothingLost)` |
| `RxBufferProofs!LineInBounds` | `Careful => (Spec => []LineInside)` |
| `RxBufferProofs!PeekSound` | `Careful => (Spec => PeekSeesNext)` |
| `RxBufferProofs!Implements` | `Careful => (Spec => InOrder)`, the refinement of `ByteStream` |
| `CommandsProofs!TypeCorrect` | `Spec => []TypeOK` |
| `CommandsProofs!Contained` | `Spec => []NeighbourSafe` |
| `CommandsProofs!LengthsTold` | `Spec => []LengthExact` |
| `CommandsProofs!Implements` | `Spec => VerdictReturned`, the refinement of `RemoteCall` |
| `CommandsProofs!DescriptorsUsable` | `Spec => HandlesUsable` |
| `UpgradeProofs!TypeCorrect` | `Spec => []TypeOK` |
| `UpgradeProofs!PatchesAreComplete` | `Spec => []PatchesComplete` |
| `UpgradeProofs!MacIsKept`, `!RmIsKept` | `Spec => []MacKept`, `[]RmKept` |
| `UpgradeProofs!WritesAreBare` | `Spec => WrittenBare` |
| `SmartConfigProofs!Invariance` | `Spec => []IInv` |
| `SmartConfigProofs!AddressNeedsConnection` | `Spec => []LeaseNeedsLink` |
| `SmartConfigProofs!ProcessNeedsNoLink` | `Spec => StartsDisconnected` |
| `SmartConfigProofs!SuccessIsLasting` | `Spec => SuccessHasProfile` |
| `ConfigProfileProofs!AesIsStandard` | for any content `m` of the tables, block `b` and key `k` of 16 bytes `aes_encrypt(m, b, k) = Cipher(m, b, k)`, and `aes_decrypt(m, Cipher(m, b, k), k) = b` if `Undoes(m)` |
| `ConfigProfileProofs!RoundsOfStandard` | `Spec => []RoundsAreStandard` |
| `ConfigProfileProofs!ProfileFollowsField` | `Spec => []ProfileFromField` |
| `ClientProofs!NoneIsLeft` | `Spec => []NoSocketLeft` |
| `ClientProofs!AnswerFollowed` | `Spec => []ReadInv` |
| `ClientProofs!WhatCame` | `Spec => []OnlyWhatCame` |
| `ClientProofs!Served` | `Spec => []InTimeServed` |

*Link.* None of the properties is inductive: that a latched edge in IDLE means a
packet depends on why the line is low, that on chip select, that on the place of
the main program, and the absence of an answer during a write on where the last
answer went. `IInv` says all of it in six parts: `PowerInv` (when the device
runs), `SpiInv` (`ulSpiState` at every place), `LineInv` (chip select, line,
latch and mask), `TxInv` (how often the transmit buffer was delivered), `WaitInv`
(what is awaited where) and `AnsInv` (where the answer is). The first four hold for any
device and are all that `TxExactlyOnce` and `NoPhantomRead` need. The last two hold
under `Known`, while no unknown event has been read since `wlan_start`: that an answer in
the buffer is masked until `usEventOrDataReceived` is cleared, and that nothing is read
between `Release` and `Resume`, is false once such an event was left to the main program
while it did not wait. Types are proved
first, one lemma per group of actions, then the protocol the same way.

*Waiting.* `WaitHasCause` needs more than `IInv` and holds for fewer devices. Under
`Benign` (no early answers, no failing sends, no unknown events, quiet during a
patch request) `PlaceInv` says at each place of the main program what is still to
come, and `AnswerInv` when the device can have each answer and what is awaited
then: an event is only ready while its caller waits for it, data only after the
event that announces it, and the buffer holds nothing that is not awaited. With an
unknown event it is false: such an event stays marked as received when the next
call unmasks, and the release that it causes can throw away an answer.

*Flow control.* `CountInv`: sent and released differ, modulo the width, by exactly
the packets counted and not reported. `CreditInv`: free, held and reported
buffers together lie between two and the pool's size, and the value being
decremented is at least two and at most the current one, which is why a lost
update is harmless. `StatusInv`: every socket that is not open is marked
inactive or about to be. `DrainSound` needs `Buffers < CounterMod`: without it
equal counters would not mean that the device is empty.

*Receive buffer.* `InOrder` is not inductive either: that the next byte handed out
is the next one of its connection needs to know what is in `rxbuf`.
`ContentInv` says that its unread part is what follows `got` on `owner`,
`SocketInv` that nobody reads while another's bytes are unread, and `CountInv`
that a byte is in the device, in the buffer or with the application; `LineInv`
that the characters stored and the length left add up to the length given. Every
action then maps to a step of `ByteStream` or leaves its variables alone. The
abstract variables are variables of `RxBuffer`, so that the refinement mapping is
the identity.

*Commands.* The invariants need the table: for each event the largest number of
bytes its case writes against the variable of each function that waits for it,
and for each function that the length sent is the length laid out for any
length the caller may choose. Lemmas say this of the records of each file, and
the steps of `Commands` then keep it. For `VerdictReturned` a third lemma says
which bytes of the variable the function returns and how it extends their sign, and
that the case of its event wrote them (`TellsVerdict`); `HoldsInv` that they are those
of the device's answer from the event on. A step of `Commands` then is one of
`RemoteCall` or leaves its variables alone: sending is `Ask`, the device's answer
`Decide`, and the return `Return` with the verdict, for every function in `Trusted`.

*Upgrade.* What holds at the end depends on what each earlier step has achieved, so
the invariant says it from the step on: `PatchInv` that the portions written so
far are the beginning of the image and that the driver is whole when the firmware
begins; `ModeInv` when the device runs without patches; `MacInv` and `RmInv` where
the saved files are, in RAM before they are written and in the device after. A
loss of power returns to the first step and loses every hypothesis with it.

*Smart configuration.* The flags of `core.cpp` lag behind the device by the events
that are on their way, so the invariant is about what the program knows and will
hear: `Heard(n)` is whether a connection is the last it will have heard of after `n`
events. `OrderInv` and `LinkInv` say that an address is only announced after a
connection, and that a connection the device has is known or announced. `QuietInv` and
`DownInv` follow `sp_smart_config` from `wlan_ioctl_set_connection_policy` to the start
of the process: without its policy the device announces no connection. `ProfileInv`
says that after the process whatever tells of a connection tells of a profile.

*AES.* From the bits up. `Xor` is addition without carries (`XorVal`), hence commutative,
associative and its own inverse, and `galois_mul2` is additive (`MulAdd`). So the code's sum
for a byte of a column is the row of the standard's matrix (`MixedByMatrix`). For the way
back (`Unmixed`): `mixcolums` keeps the sum of a column, the matrix applied twice is what
`barreto` computes and applied four times is nothing. The code looks up, shifts and adds
in another order and with other indices than the standard (`ShiftedSame`, `Places`,
`Undone`). The code's state after `r` rounds with the round key added is the standard's
state (`Reached`), and `aes_decr` takes the rounds back one by one (`RoundUndone`). The
round keys are equal because each turn of `expandKey`'s loop makes the standard's four
words (`NextWords`). The rounds are written out in the model (`NineRounds`,
`TenRounds`): what a fold computes cannot be proved, and their number is fixed.

None of this asks what the tables hold, as long as it is bytes; only that two lookups undo
each other (`Undone`) needs `Undoes`.

*Profile.* `ProfileFollowsField` follows the positions of `profileArray`. `Named` says
where the name's length, the field's length and the security are (`MessageNamed`). A
decryption makes some block, whatever its lookups find (`DecryptedBlock`), which takes the
place of sixteen bytes and leaves these alone (`WithBytes`, `StillNamed`).
`FoundBytes` is the search for the length: a printable byte is neither 0 nor 31, so
that the last byte of the field tells a key of 32 bytes from the others.

*Client.* The variable `s` is a socket or an error code that passes for one;
`SocketInv` says in which steps it is which, and that the device has a socket open
exactly when it is one. It needs the parser's state to be one that its switch knows.

What is stored depends on where the parser takes itself to be, and that on the place in
the answer, so `ReadInv` ties the two. `PlaceInv` has the places where the cursor can
be. `HeaderInv` follows `sp_http_skip_to`: how much of the end of the headers can have been
matched where, so that it is found at their end or, after a late character, missed.
`ParseInv` says of `read_and_parse` which entries it has counted (`CountInv`) and, in
`Following`, which of its steps belongs to which character and what of the tag is in
`jsontag`. A late character elsewhere than in a tag stops the parser or lets it go on where it
was, so that `Following` holds until one has ended a tag (`astray`). From then on only the
count is known: an entry that is counted has begun, whatever the parser takes its
characters for. `StoredInv` says that each cell holds its field or its
beginning, and every field behind the cursor whole, where `Traced`: not astray, few
entries, texts with room. `PollInv` says the same of
`parse_poll_response` by the number of quotes; only a count of seven or more may be behind
them. Each step of a parser is proved with a symbol in
time and without; one lemma per parser step says what the symbol does to the cursor and the
parser together. For `InTimeServed` the announced length must be that of the body
(`LengthsAgree`): both are sums over the entries, and term by term the same.

Two things are worth knowing of the assumptions. Were there two tags with the sum of one
member in an entry, `InTimeServed` would say nothing, as two values go to one cell. And with
a comma or a quote in a value the code does store what the server has not said.

**Only model-checked:** liveness (`EveryCallReturns`, `UnsolicitedRead`, `DrainEnds`,
`SendGetsBuffer`, `CallsReturn`, `UpgradeEnds`, `CallEnds`), which is beyond the prover.
Every other property of a passing run is a theorem. The types of `FlowControl`, `Commands` and
`Upgrade` are left to the proofs.

## 5. Not modelled, and what is left

* The job queue: nothing in the repository includes it or calls it, and its jobs
  are commented out. (`queue_get` moves its index backwards, `queue_put` forwards.)
* `SpiInit`'s register set-up, the length and padding arithmetic of `SpiWrite` and
  `SpiReadDataCont`, and the magic numbers that guard the buffers: `HciLink`'s
  packets have no lengths.
* The portions of `hci_patch_send`: a patch is one packet of `HciLink`.
* `sp_create_listener`, `sp_scan_ssid`, `sp_set_connection_policy`,
  `read_client_http_headers`: sequences of calls that are modelled themselves.
* A name resolved once by `sp_sense_connect` is not resolved again; that the server
  may move is not in `Client`.
* Debug output, pins, versions, settings, and the example sketches other than the
  patch programmer: no state of their own, or applications of the library.

Next would be the refinement of a reliable channel by `HciLink`, and packet lengths in
`HciLink`.
