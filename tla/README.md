# mt6701_idk: specifications, model checking and proofs

A Linux client asks an ESP32 server, over a serial line, for the angle and the
configuration of an MT6701 magnetic encoder and for the readings of an INA228
power monitor. This directory holds TLA+ models of that system, the TLC
configurations that check them, and TLAPS proofs of what matters most. Paths
below are relative to the repository; `server.c` is `server/main/main.c`,
`client.c` is `client/src/main.c`, `i2c.c` is
`server/components/i2c_control/i2c_control.c`, `shared.c` is
`shared/src/shared.c` (client and server hold identical copies of it).

## 1. The system

| Part | State it keeps | Operations | Talks to |
|---|---|---|---|
| packet codec, `shared.c/.h` | none | encode, decode, check; CRC16-CCITT-FALSE by table | used by both ends |
| framing loop, `server.c:216-230`, `client.c:283-297` | pointer and length in one read buffer | skip a byte, take a packet, end | codec, packet handlers |
| server task, `server.c:107-253` | event queue, ring buffer (both of the ESP-IDF driver), read buffer | receive an event, read, parse, handle, wait for the EEPROM | client over UART0, `i2c.c` |
| MT6701 driver, `i2c.c:32-787` | none of its own: registers and EEPROM of the device | 13 fields, each read and written; key, command and 650 ms wait after each register write; probe at boot | MT6701 over I2C |
| MT6701 fields in units, `i2c.c:86-787` | none | each field read and written in degrees, Hz, LSB; a log of all | the driver's fields; of these the server calls only the angle |
| INA228 driver, `i2c.c:789-919` | none | five readings: sign extension, scaling | INA228 over I2C |
| client loop, `client.c:250-384` | one packet template, `auto_send` | a prompt; a command sends a request, an empty line reads and parses | user, server |
| client conversions, `client.c:34-152` | none | raw values to units, printing | client loop |
| command line and port, `client.c:155-248` | none | termios set-up, tokens, hex numbers | libc |
| console, `server/sdkconfig:1123` | none | log lines of ESP-IDF and of failed I2C calls, on the same UART0 | mixes with responses |

There is one thread on each side. What makes the behaviour hard is around them:

* **Driver against task.** The UART driver fills its buffers and posts events
  while the task parses, or sleeps up to 1.3 s in a WRITE_CONFIG. Events are
  dropped when the queue is full, and the task passes over all types but one.
* **Reads that do not respect packets.** A read ends at 512 bytes or after
  100 ms of silence, wherever that is. What is left of a packet is forgotten.
* **Noise.** Damaged packets, and log text on the packet port.
* **Split, slow, interruptible writes.** A WRITE_CONFIG reads registers, merges
  bits, writes, sends key and command, waits - twice for HYST and A_STOP. Each
  transaction may fail, and a failure is only logged. The ESP32 may reset in the
  middle (opening the port toggles DTR and RTS), and power may be lost.
* **A port that never blocks.** The client reads what happens to be there, and
  writes as much as the port accepts; the user decides when.
* **Shared bytes.** Fields of the MT6701 share registers, so every write is a
  read-modify-write of its neighbours.

What must hold: a packet on a clean stretch of the line is handled once, in
order, and nothing that is not a packet is (framing); requests are not
repeated, reordered or left waiting (task); a write reads back, is saved, and leaves
every other field alone (MT6701); readings keep their sign and their number of steps
(INA228, client);
what the user sees answers what the user typed (the whole). The
hazards, with their lines and the properties that cover them, are listed in
`PROJECT.json`.

## 2. The modules

| Module | What it is |
|---|---|
| `Packets` | the codec, over a checksum that is a parameter; `packets_in`, what a read hands over |
| `Crc16` | the checksum of the code, table and all; TLC only (`Bitwise`) |
| `Framing`, `MCFraming` | the inner loop over one read buffer; its instances |
| `PacketsProofs`, `FramingProofs` | proofs about the codec and the loop |
| `RequestQueue` | what the server promises about requests, abstractly |
| `UartServer`, `MCUartServer` | the task, the UART driver in front of it, the client's bytes |
| `UartServerProofs` | proofs about `UartServer` |
| `Mt6701Regs` | the 26 field functions and the two dispatch functions of `server.c`; bits as numbers; which fields read back (`Conforming`) and which share bits (`Overlap`) |
| `Mt6701`, `MCMt6701` | the driver's transactions, the device, faults and interruptions |
| `ConfigStore` | what the configuration store promises, abstractly |
| `Mt6701RegsProofs` | lemmas about the field functions: what they read, write and keep |
| `Mt6701Proofs` | proofs about `Mt6701`, and that it implements `ConfigStore` |
| `Units` | fields in units, the client's conversions, the INA228's numbers |
| `Readings`, `MCReadings` | one reading from the device's bytes to the printed value |
| `ReadingsProofs` | proofs about `Units` and `Readings` |
| `Client` | the client's loop |
| `System`, `MCSystem` | client, answers of the server, line and console together |
| `SystemProofs` | proofs about `System` |

### Framing

`data` is what one `uart_read_bytes` (or `read`) returned, `pos` the distance by
which the pointer `buf` has advanced; `buf_len` of the code is `Left`. Each turn
of the loop is `SkipByte` or `TakePacket`; `EndScan` leaves it and, since the next
read overwrites the buffer, forgets the rest. `TakePacket` calls the handler, of
which the model keeps the first line: which packets are not ignored (`Accepts`).
`Reads` says which buffers there are and where the peer's whole packets lie in
them (`starts`); the code does not see `starts`, the properties do.

### UartServer

`Send` puts a request on the line. `RxChunk`, `RxOverflow` and `RxJunk` are the
ESP-IDF driver (external): it moves a chunk to the ring buffer and posts an
event, loses bytes when the ring is full, and posts events of other types. The
ring buffer and the hardware FIFO behind it are one buffer of `RingCap` bytes.
The task is the rest: `pc` is "wait" in `xQueueReceive`, "check" before
`uart_get_buffered_data_len`, "read" in `uart_read_bytes`, "parse" in the inner
loop, "eeprom" in `mt6701_eeprom_write_wait`. A read may take bytes more than
once (`ReadSome`) and returns (`ReadDone`) when the buffer is full or, by the
timeout, when the ring is empty and either nothing is under way or the line is
slow (`SlowLine`: gaps of more than 100 ms inside a packet). `Reset` is a reboot:
driver and task start empty while bytes on the line keep coming. The client's port
is not blocking: `Send` may put only the beginning of a packet on the line
(`ShortWrites`). `served`, `taken`, `cut`, `marks` and `foreign` are history variables: what
was handled, how many bytes were read, whether a read, a write or a loss has cut a packet,
which byte of which request each byte on its way is, and how many places of the queue
events of other types than data have taken at one time. `NothingMadeUp` says of the
marks that a packet the task is about to handle is one request's, from its first byte to
its last; the code can only tell by the checksum.

`RequestQueue` is the abstract specification: requests are sent, and some are
served, each once, in the order of sending. `ImplementsRequestQueue` states the
refinement; a served request is mapped to its position in `sent`, or to 0, which
no abstract step serves, if it was never sent.

### Mt6701Regs, Mt6701

A byte or a word is the set of its one bits, so that the masks and shifts of the
code become set operators, and conversions to `uint8_t` drop bits (`uint8`). A
write function yields its `mt6701_reg_write` calls, computed, as in the code, from
the one read at its start; `put` and `Applied` are the registers once one or all of
them have arrived. In `Mt6701`, `pc` is the next transaction of the task:
"read" (the merge source), "data" (the register bytes), "key" (0xB3 to 0x09),
"cmd" (0x05 to 0x0A), "wait" (650 ms), and "boot" and "ina228" (`i2c_init`, which probes
the MT6701 and then the INA228). `Fails(kind)`
lets a transaction fail: a read leaves the buffer zero, a write may have
delivered its first bytes, and the task goes on as
`ESP_ERROR_CHECK_WITHOUT_ABORT` does; a probe that fails at the boot makes
`ESP_ERROR_CHECK` abort, and the ESP32 boots again. The device is external and modelled as the
driver uses it: registers change at once, key and command copy all registers to
the EEPROM (`Program`, later `ProgramDone`), power-on loads them (`PowerLoss`; a
byte being programmed is the old or the new one). `EepromWriteWait` ends only
when the device is done: that 650 ms are enough is an assumption about the
device, which nothing in the code can check, and no property is about it. Nor is one
about the device answering the probe while it programs after a reset of the ESP32: it
may or may not, and a write that meets a busy device does not count as `clean`.

`ConfigStore` is the abstract specification: fields with a live and a saved value,
written one at a time, each saved before the next write begins. `Mt6701`
states the refinement (`ImplementsConfigStore`): the live value of a field is
what `server_get_reg_value` computes from the registers (`live`), the saved one what
it computes from the EEPROM (`saved`), and the request in progress is `target`.

### Units, Readings

`Units` has the functions of `i2c.c` between fields and units and those of
`client.c` between codes and units. A double is a whole number of steps: a quarter
of an LSB, 0.1 Hz, 0.001 degrees, or for the INA228 a number and the step it is
multiplied with; the products themselves are not computed. Shifts of 32-bit words
are modelled with their width and sign. `Readings` is one request after the other:
`Answer` is `server_handle_packet` with the I2C read, which may fail, `Show` is
`client_handle_packet`; `Response` and `Printed` are what they send and print. `WriteBack` is a program on the server that uses the
functions in units (nothing in the repository does): it reads a field and
writes it.

### Client, System

A line of the user is one step. `Command` is the chain of comparisons after
`tokenize`: it sends a request, or none if an argument is missing or is not a
number; numbers are cut to bytes. `ReadPort` is the empty line: one `read`, the
framing loop over what it returned (`packets_in`, a recursive function that
`ScanIsFunction` states, and a theorem shows, to be what the loop of `Framing` does) and `client_handle_packet` for each packet, then the two
requests of `auto_send`.

`System` puts the server in between, reduced to `RequestQueue` for which requests
are served, and to `server_handle_packet` for what then happens (`Serve`): the parts of
a write are applied to the registers of the MT6701 (`regs`), with the field functions of
`Mt6701Regs`, or a response with what these functions read goes to the line.
`ServeFailing` is the same when I2C calls fail: a response carries zeroes, a write is
merged with zeroes if its read failed and may arrive in part (`Arrivals`), and a log line
gets between any two bytes still to go out. Of saving to the EEPROM `System` has nothing;
`Mt6701` does. `ShownAsTyped` speaks of the value of those fields that the code makes
dependable (`Dependable`): the six of `Conforming`, and of UVW_RES and ABZ_RES only if not
both are written. The line (`Arrive`) delivers pieces. Each byte
carries the number of its response (`of`) and its place in it (`at`), which the code does
not see; with them, `NothingMadeUp` says what it says of the server, and `Spoils` says which responses a read has spoiled: those it got incomplete or with text
inside, and those behind a header byte that begins no whole response.

## 3. The runs

| Run | Instance | Result |
|---|---|---|
| `Framing.cfg` | every buffer of up to 3 pieces out of 4 packets and 7 kinds of noise, real checksum | holds: `HandledDisjoint`, `QuietNoiseHarmless`, `ScanIsFunction`, `ScanEnds` |
| `FramingResync.cfg` | the same, 2 pieces | **violated**: `RetryAtNextByte` |
| `UartServer.cfg` | 3 requests (19 bytes), ring 16, read buffer 13, queue 2, one junk event, one reset, slow line, short writes | holds: `NoLostWakeup`, `NothingMadeUp`, `UncutServesAll`, `ImplementsRequestQueue`, `UncutRequestsServed` |
| `UartServerCut.cfg` | ring large enough, no faults | **violated**: `EveryRequestServed` |
| `Mt6701.cfg` | HYST, Z_PULSE_WIDTH, PWM_FREQ and an unknown register; 3 values; 3 factory images; one loss of power; one failing probe | holds: `WriteReadsBack`, `NeighboursKept`, `SavedNeighboursKept`, `ImplementsConfigStore` |
| `Mt6701Faults.cfg` | HYST, Z_PULSE_WIDTH; two failing transactions, probes included; one reset or loss of power | holds: `CleanWritePersists`, `WriteReadsBack`, `TaskReturns` |
| `Mt6701Encoding.cfg` | the seven fields whose write does not invert their read | **violated**: `WriteReadsBack` |
| `Mt6701Overlap.cfg` | four fields with bits in common | **violated**: `NeighboursKept` |
| `Mt6701ReadFault.cfg` | one failing read | **violated**: `NeighboursKept` |
| `Readings.cfg` | all registers under 32 images, the six readings at the boundaries of their bytes, with and without a failed read; eight fields written back | holds: `ReadingsExact`, `ConfigAgrees`, `WriteBackHarmless` |
| `ReadingsDocumented.cfg` | UVW_MUX, PWM_FREQ, ZERO | **violated**: `ConfigAsDocumented` |
| `System.cfg` | eight lines: an angle, HYST read and written, the two fields beside it in 0x32 written, `auto`; three requests, one failing I2C call, pieces of 5 and 8 bytes, reads of 16 | holds: `ShownWereAnswered`, `SoundAreShown`, `ShownAsTyped`, `NothingMadeUp`, `ResponsesArrive` |

Each module's type invariant is checked by one of its runs. `MCFraming` assumes, and
TLC evaluates, that the checksum's table is that of the polynomial 0x1021
(`TableIsPolynomial`) and that no damage within one byte of a short packet goes
unnoticed (`DamageDetected`).

What the violations show (details and quotations in `PROJECT.json`):

* `server.c:219` says that a packet that is not valid is skipped byte by byte.
  One with a bad checksum is skipped whole, by the length it claims, and takes
  the packets behind it along.
* A read that ends inside a packet loses it. Without any fault on the line, a
  burst of requests longer than the read buffer leaves one unanswered.
* ZERO cannot be cleared of bits 1:0, and six more fields do not read back what
  is written; A_START clears A_STOP[11:8]; UVW_RES and ABZ_RES overlap.
* A read that fails before a write clears the neighbouring fields.
* The comments of `i2c.c` count bits from the other end than its code, PWM_FREQ is
  converted by the client the wrong way round, and angles of 4096 codes are scaled
  with 0.078 instead of 0.088 degrees.

What holds only within limits, which the properties name: `ReadingsExact` excludes
temperatures below zero, which come out as large ones (`i2c.c:889`), and compares numbers
of steps, not the size of a step;
`UncutServesAll` and `UncutRequestsServed` speak up to the first cut or loss only, behind which
a request may be lost; `NoLostWakeup` ends when other events have taken too many places of
the queue;
`ShownAsTyped` ends with the first failing I2C call, since its zeroes
look like values; `SoundAreShown` excludes what a read has spoiled, since a response
cut by a read is lost for good. README.md:91-95 lists one-letter commands that
`client.c` does not have; the model has those of the code.

**Bounds.** The framing loop compares a position with the bytes at and after it,
so three pieces give every order of packet, noise, packet and of a damaged
packet that covers what follows; the damaged length reaches over 8 bytes, enough
for a whole packet. In `UartServer.cfg` every limit is below the 19 bytes of the
requests, so that each is reached: a read fills its buffer, the ring overflows,
an event is dropped; chunks of 4 and 9 bytes cut packets at different places; a
WRITE_CONFIG of a split field gives the longest wait, and carries a header byte as
its value. `NoLostWakeup` is true only as long as events of other types leave enough
places in the queue (`PlacesSuffice`): each data event stands for one read, so the places
left for data must be worth what the driver holds but for a rest that is no packet,
`RingCap <= (QueueLen - foreign) * BufLen + 4`, where `foreign` is the most places
that breaks, frame errors and overflows have had at one time. The code holds 512 bytes and
128 in the FIFO, and reads 512: data needs two places of the 16, and others may take 14.
If they take more, for instance overflows during a WRITE_CONFIG, `server.c:209` passes
over all of them and the task sleeps on packets, even on a full ring: without
`PlacesSuffice`, TLC finds the sleeping task in this run's instance, by a junk event and
an overflow, and in a smaller one by overflows alone. The run has both cases, `foreign` 1
(16 bytes against 17, just enough) and 2. The checksum in `MCUartServer` is another one
than the code's, two weak sums, so that TLC looks for packets made up from pieces
with a checksum that is easier to meet by accident. The registers of `Mt6701.cfg` share the byte 0x32
and 0x38 belongs to PWM_FREQ alone; HYST is the split write; the values are 0, 6
and 0xFF9D, the factory images all zeroes, all ones and alternating, so that every
bit of a field is once set and once cleared. Two faults let a failed write be
followed by a failing repair. The images of `Readings.cfg` have every half byte
in both halves of each register, and so every code of each field of at most four
bits; the bytes of the readings are 0, 0xFF, the sign bit, all others, and both ends
of a nibble. In `System.cfg`, responses have 7, 8 and 13 bytes and pieces 5 or 8, so
that reads cut them at many places, some behind a header byte in the payload
(the angle is 0x05AA); a read of 16 bytes, for 4069 in the code, takes two responses
or leaves some; three requests are enough for a write before a read after a write,
and for a lost one in between; HYST is written out of range and read
under a number above 255, and Z_PULSE_WIDTH and ZERO, which share the byte 0x32 with it,
are written in between: HYST must not change with them. ZERO does not read back what is
written (`Mt6701Encoding.cfg`) and is not asked for its value. The two resolutions, which
`ShownAsTyped` covers if only one of them is written, are left to the theorem. Text of two bytes without a header byte stands for a log
line.

**Fairness.** The actions of the task are weakly fair (in `Framing`, those of the
loop): it is the only task the application creates, and every call it makes returns
(I2C calls have a timeout of 1 s, `i2c.c:15`; waits are fixed). `RxChunk`
and `ProgramDone` are weakly fair: bytes on the wire arrive and the device
finishes. The steps of the boot need only happen while the device does not program, since
it may refuse its probe for that long; at most `MaxFaults` probes fail for other reasons.
In `System`, `Arrive` is weakly fair and so is taking bytes from the port
(`TakeAvailable`, which only `Read` does): README.md:91 tells the user to "spam \n".
Requests need not be typed nor served. `ResponsesArrive` ends with the input. Requests, faults, junk, overflow, resets and loss of power need not
happen. `CHECK_DEADLOCK FALSE` in the UART runs: when all requests are sent and
served, the server waits; and in `System.cfg`, since the client may end.

## 4. The proofs

TLC checks an instance; the theorems hold for every value of the constants.

`FramingProofs`, for every set of read buffers and every checksum function
(assumption: `ReadsAssumption`, that `starts` does describe whole packets):

* `TypeCorrect`, `ScanDisjoint` - `[]HandledDisjoint`: the pointer never passes
  the end, since a decoded length never reaches beyond the buffer
  (`DecodedLenBounds`); so handled packets are valid, ordered and disjoint.
* `ScanComputesPacketsIn` - `[]ScanIsFunction`: what the loop hands over, step by step,
  is `packets_in` of the buffer. `packets_from` is a recursive function, and that it is what
  its equation says (`PacketsFromIsFunction`) is shown by its finite approximations, with
  induction over the sets of natural numbers (`SetInduction`): every non-empty one has a
  least member. The invariant: what was handed over, followed by `packets_from` of the
  pointer, is always the same.
* `QuietScanComplete` - `[]QuietNoiseHarmless`. `HandledDisjoint` does not say
  which packets were handled. The invariant adds that, in a buffer with quiet
  gaps, the pointer is never inside a whole packet, and that the handled packets
  are exactly those before the pointer; the pointer then meets the start of the
  next one, because bytes in between are no headers.

`UartServerProofs`, for all requests, buffer and queue sizes, chunks, short writes
and resets (assumptions: the `ASSUME`s of `UartServer`, and `CrcBytes`, that a checksum
is two bytes):

* `TypeCorrect`. It needs three facts more: while the task waits for the EEPROM,
  one or two waits are still to come, since `mt6701_reg_write` waits once per part
  (`WaitsLeft`); there are as many marks as bytes on their way (`MarksFit`); and outside the
  inner loop the pointer is at the front (`StartsInFront`).
* `NoSleepOnPacket` - `[]NoLostWakeup`, whatever is lost, cut or reset. The property itself
  has the condition `PlacesSuffice` (section 3, bounds). It speaks of an empty queue
  only and is not inductive. `EventsCover` counts instead: each data event in the queue, and
  the one being worked off, stands for one read of up to `BufLen` bytes, and together
  they cover what the driver holds up to four bytes. A chunk whose event is dropped
  finds the queue full, and at most `foreign` of its events are not data (`EventsCounted`);
  a read that ends short of `BufLen` has emptied the ring.
* `RequestsServedAsQueue` - `ImplementsRequestQueue`, under `[]NothingMadeUp`: two bytes
  of checksum cannot rule out for every set of requests that the tail of one and the
  head of another pass for a third, so this is up to the checksum, and TLC checks it on the
  instance. All else is proved: whatever chunks, overflows, cuts and resets
  do to the bytes, their marks stay in order and say what the bytes are (`Genuine`,
  `InOrder`), and every request that was served lies behind the pointer (`AllPassed`). `Send`
  is the queue's `Send`, the `TakePacket` of a packet that is handled its `Serve`, all other
  steps stutter.
* `UncutRequestsAreServed` - `[]UncutServesAll`, and `UncutNothingMadeUp`. As long as nothing
  is cut, the last hypothesis is not needed. `UncutInv` says where each byte belongs in all
  that was ever sent (`Placed`; `Boundary`, where the packets end, is shown to be what its
  equation says by the same induction), and that the pointer of the task is at the end of the
  n-th packet when the first n requests have been served. As a read ends between two
  packets, the next one is there whole, and the task finds it (`WholeAhead`): it leaves
  none out and makes none up, so that it implements `RequestQueue` for every checksum.

`Mt6701RegsProofs` holds what the other proofs need of the 26 field functions,
for every register image and every 16-bit value: where a field lies (`OwnBits`), that
reading depends on these bits only (`ReadsOwnBits`), that no two fields but
UVW_RES and ABZ_RES share any (`OwnBitsApart`), that every write but A_START's keeps
the bits around its own (`Footprint`), that the write functions of the six fields
in `Conforming` are inverse to the read functions (`AppliedReadsBack`) - also if other bits
of the registers have changed since the write was computed - and that each part of a write
moves its field towards the new value, bit by bit (`Toward`).

`Mt6701Proofs`, for all registers, values and factory images and for any faults
and interruptions unless said otherwise (assumptions: the named `ASSUME`s of `Mt6701`):

* `TypeCorrect`. Its core is `WritesParts`: every write function, whatever it
  has read and whatever the value, makes one or two register writes of bytes to
  configuration registers, although the code shifts values past eight bits.
* `CleanWriteSaved` - `[]CleanWritePersists`. Not inductive: `CleanProgress` adds
  what a write in which nothing failed has reached at each step (the device is
  not busy before the command, it has the key when the command comes, and
  during the wait it is saving exactly what the registers hold).
* `ConformingFieldsReadBack` - `[]WriteReadsBack`, if requests name fields of `Conforming`
  only (or unknown registers): UVW_MUX, UVW_RES, ABZ_RES, HYST, Z_PULSE_WIDTH and
  PWM_FREQ. For the other seven it is false (`Mt6701Encoding.cfg`). The invariant
  `ReadBackProgress` says that the parts still to come, applied to the registers as they
  are now, make the field read back; it is what carries the value over the
  programming between the two halves of HYST.
* `WritesKeepNeighbours` - `NeighboursKept`, for the ten fields that share no bits
  and whose writes keep those around them (`Separate`), if no read fails; keys,
  commands, data and the ESP32 may. The other cases are those of `Mt6701Overlap.cfg`
  and `Mt6701ReadFault.cfg`. The invariant `FootprintOK`: the parts still to come
  hold, outside their field, what the registers hold.
* `SavesKeepNeighbours` - `SavedNeighboursKept`, for the same fields if only data
  transmissions and probes fail and only power is lost. Here it matters that the previous write is
  saved before the next begins (`SavedProgress`): a key or command that fails, or
  a reset of the ESP32, leaves a change in the registers which the next write saves
  along with its own.
* `DriverIsConfigStore` - `ImplementsConfigStore`, for fields of `Conforming`, not both of UVW_RES and ABZ_RES, a bus on which nothing but probes fails, and loss of
  power at any point (`Undisturbed`). Each step of `Mt6701` is mapped by a lemma of its
  own: `WriteData` is a `Write` of some bits of one field (`DataIsWrite`), `ProgramDone` saves
  (`ProgramDoneIsSave`), the last `EepromWriteWait` finishes (`WaitIsFinish`), `PowerLoss`
  puts each field back to a value between the saved and the live one (`LossIsPowerLoss`), a
  `WRITE_CONFIG` begins; all else stutters. The mapping needs that a request is only taken
  on when registers and EEPROM agree, and that half-written fields are between their old
  and new value: `RequestProgress`, with the invariants above. With faults the store is not
  implemented, and should not be: what such a write leaves behind is not among its promises.

`ReadingsProofs`, for every content of the registers and all bytes of a reading
(assumptions: the `ASSUME`s of `Readings`). The model computes on bits as the code does,
the properties on numbers; the work is in between. `number` is shown to turn bytes in a row into a
sum (`Number24`), a word split for the line into itself (`WordTravels`), and the two shifts
into the sign of a 20-bit number (`SignedNumber`, by nibbles: the arithmetic shift copies
the sign over the three upper ones). The invariant `Inv` says that payload and what
is shown belong to the request asked: registers do not change while it is answered.

* `ReadingsTypeCorrect`: what is printed is in the range of its register, after
  a failed read too.
* `ReadingsAreExact` - `[]ReadingsExact`: for all 2^24 contents of a register, where
  the run takes the boundaries.
* `ConfigsAgree` - `[]ConfigAgrees`: every field but PWM_FREQ; the tables of client
  and driver agree on every code, and no code is beyond them (`CodeBits`).
* `WritingBackIsHarmless` - `WriteBackHarmless`, for the eight fields of the run. For the six
  of `Conforming`, what is written back is a code with the same meaning (`WritesBackCode`), reads
  back (`AppliedReadsBack`) and leaves all other bits alone (`AppliedKeeps`); PWM_POL and
  OUT_MODE are read and written as a bit in its place in the byte, which then does not change
  (`InPlaceUnchanged`). Of ABZ_MUX and DIR, the two others with a write in units, the
  property is false: they are read as 0 or 1 and written from other bits, as
  `Mt6701Encoding.cfg` shows.

`SystemProofs`, for all commands of the user, registers' contents, console texts, lengths of
pieces and reads, any number of lost requests and failing I2C calls (assumptions: the
`ASSUME`s of `System` and `Client`, and `CrcBytes`):

* `SystemTypeCorrect` - `[](TypeOK /\ StreamInv)`. `StreamInv`: what is on the line or at the
  port as a byte of a response is the byte that the server put there, and these bytes
  are in the order of sending, none twice, text wherever it is. With it the types
  are inductive (`IInv`).
* `SoundResponsesAreShown` - `[]SoundAreShown`. `SoundInv` adds that sound
  responses come before all of which bytes are still under way. One read is followed through
  `packets_from` from its end to its start (`DownwardInduction`): at the first byte of
  a sound response the loop is at this byte, as no header in front of it belongs to anything
  else, and takes it whole.
* `ShownResponsesWereAnswered` - `[]ShownWereAnswered`, under `[]NothingMadeUp`: what is shown
  are responses of the server, each once, in order.
* `ShownIsAsTyped` - `[]ShownAsTyped`, under `[]NothingMadeUp`: each response is tied to its
  request and to the `WRITE_CONFIG`s served before it (`AskedInv`), and what is shown
  to its response. The invariant says of the one register image that every dependable
  field reads as one of its `Readable` values; a write keeps this for its own field by
  `AppliedReadsBack`, and for the others because it leaves their bits alone
  (`WriteLeavesOthers`), A_START's write too. If requests are lost, the value may be that
  of an earlier write, as the property says; a failed I2C call ends it.

Only model-checked:

* the liveness properties `ScanEnds`, `UncutRequestsServed`, `TaskReturns` and
  `ResponsesArrive`: liveness under fairness is beyond the prover;
* `NothingMadeUp` of `System`, and that of `UartServer` once something was cut: not true of
  every checksum. One that accepts too much lets a reader take the tail of one packet and
  the head of another for a third. TLC checks it with the requests and the checksums of the
  instances; the theorems that need it say so;
* the properties of the runs that find a violation, which are false.

## 5. What is not modelled

* Splitting a line into tokens, port set-up, build files: no protocol behaviour.
  Of hex numbers the model keeps whether an argument is one and how it is cut.
* The `*_write` functions in units of the three angles: they divide by 0.078 and cut
  the quotient, and how a double rounds decides the code. Nothing calls them.
* `mt6701_log_eeprom_raw`, `ina228_read_shunt_cal` and the two functions on it,
  `i2c_mt6701_terminate`: never called, and without effect on anything else.
* The log that the ESP32 prints when it boots: after a reset `UartServer` goes on
  with an empty task, and `System` has no resets.
* The product of a number and its step size, and how many decimals are printed.
* Time. Durations appear as what they order: the wait outlasts the programming,
  a read ends in silence. A peer that never falls silent, and so gets no answer
  until 512 bytes have come, is therefore not in the model.
* READ_CONFIG or WRITE_CONFIG with fewer payload bytes than the handler uses: the
  client never sends one (`RequestsAssumption`).
* A failed I2C read leaves the buffer as it was, zero; a driver that had filled
  part of it is not considered.

## 6. Plan

Done: all modules of section 2; every safety property of the passing runs as a theorem, up to
the hypothesis `NothingMadeUp` where it is named; the refinements of `ConfigStore` and
`RequestQueue`. Left:

1. `NothingMadeUp` from an assumption on the checksum and the set of requests that the
   code's checksum can be shown to meet: that no other bytes of the requests form a packet.
2. A server that is reset in `System`, with the log that the ESP32 prints when it boots,
   and the EEPROM from which the MT6701 loads its registers.
3. Liveness, which stays with TLC.
