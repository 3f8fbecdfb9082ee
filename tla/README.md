# A TLA+ model of CryptoDIP

CryptoDIP simulates, in SystemC, a device that receives an encrypted image in
packets, decrypts it and rotates it. This directory holds TLA+ specifications of
the program under `src/src`, the TLC configurations that check them and proofs
of their main theorems.

## The system

`simple_bus_test` (the top level) builds four threads, two buses and two
memories.

```
                 packet memory                       global memory
 generator ==bus_communication==> communication ==bus==> encryption ==bus==> gpu
            flag 0, end flag 4,                  range 0,4  crypto flag 8   gpu flag 12
            one packet from 8 on                 image from 16 on
```

| component (`src/src/...`) | state | operations | talks to |
|---|---|---|---|
| generator `simple_bus_master_gerad` | remaining lines of the input file, last flags read, "end flag was raised" | take a line, write the words of its packet, raise the operation flag; raise the end flag after the last line | packet memory, through `bus_communication` |
| communication `simple_bus_master_com` | the packet memory `MEM`, the packet being collected, address of the next pixel | poll the flags, collect a packet, check its CRC, store the pixel, clear the flag; at the end store the image's range and raise the crypto flag | `MEM` directly, global memory through `bus` |
| encryption `simple_bus_encryption` | range of the image, RC4 state | poll the crypto flag, read the range, decrypt the words in place, raise the GPU flag, move the image's beginning past the header | global memory |
| GPU `simple_bus_gpu` | buffers A and B, image dimensions | poll its flag, read base and dimensions, fetch, rotate, write back, clear the flag | global memory |
| bus `simple_bus`, memories `simple_bus_fast_mem`, `simple_bus_slow_mem` | request forms, current request, words | direct, non-blocking and blocking interface; one request step per falling clock edge | slaves, arbiter |
| arbiter `simple_bus_arbiter` | none of its own (marks a request's lock) | choose a request | bus |
| masters `simple_bus_master_{blocking,non_blocking,direct}` | address, data | traffic on the bus; compiled, not instantiated by the top level | bus |
| input file generator `src/generator` | the image, RC4 state | put width and height before the pixels, encrypt, write a line with a CRC for each word | `output.txt`, which the generator thread reads |
| `sc_main`, the SystemC kernel | simulated time | start the threads, run those that are due, advance time, stop after 3 ms | all threads |
| `imageWrite.h`, logging | files | PNG output, messages | - |

The hard part is the absence of synchronisation. Every thread is a loop of "access
a memory, then `wait(T, SC_NS)`". Threads hand data over by flag words that
one of them raises and another polls, and decide on values they read one period
earlier. All threads with the same period become due at the same instants, and
SystemC leaves the order in which it runs them open. The properties that make the
device correct:

- the receiver never mixes packets or reads a word too early; no packet is lost,
  duplicated or stored with a bad CRC; the image has no holes;
- an image is announced only when it is complete;
- one stage at a time works on the image; each word is decrypted once, with its
  own byte of the key stream; the GPU rotates the image that was received;
- the image gets through all stages, in the time the simulation has for it.

The hazards behind these are listed in `PROJECT.json`, each at its line.

## Modules

| module | models |
|---|---|
| `Words` | an int of the program and its four bytes: two's-complement wrap, `pack`, `unpack` |
| `Rc4` | key schedule, key stream and the XOR of one byte on the four channels of a word |
| `Wiring` | `simple_bus_test.h`: threads, address map, periods; sizes and periods are constants |
| `SystemCKernel` | timed waits: `delay[t]` is the time left to thread `t`; all due threads run at one instant in any order; time advances when none is due |
| `GlobalMemory` | the global memory behind the bus's direct interface: alignment check, slave selection, failed accesses that change nothing |
| `PacketMemory` | `MEM` of the communication module, with what its constructor leaves in it (`FreshMem`) |
| `Packet` | a line of the file, `Gen_stream`, `decode`, `check_crc`, and `crc_generator` with its `strlen` |
| `Generator`, `Communication`, `Encryption`, `Gpu` | the four `main_action` threads |
| `InputFile` | what the offline tool makes of an image: the lines of `output.txt` |
| `CryptoDIP` | the device: the four threads on the two memories, and time |
| `PacketChannel` | abstract specification: a channel with room for one line |
| `PacketTransfer` | properties of the transfer, and the refinement mapping to `PacketChannel` |
| `ImagePipeline` | abstract specification: what becomes of an image, without threads, flags and addresses |
| `ImageFlow` | properties of the image in the global memory, when the file is the tool's, and the refinement mapping to `ImagePipeline` |
| `DeviceRun` | the device as `sc_main` runs it, with a clock and an end; the pace of the transfer |
| `BusSlaves` | a fast and a slow memory behind the bus's request interfaces, wait states |
| `SimpleBus` | request forms, arbitration, locks, and what a falling clock edge does (`main_action`, `handle_request`, `clear_locks`) |
| `BusMasters` | the blocking and the non-blocking master on that bus, and the clock |
| `BusService` | abstract specification: what a bus promises to its callers |
| `BusProperties`, `BusLocks` | properties of the bus, the refinement mapping to `BusService`, and history variables for locks and priorities |
| `MCPacketTransfer`, `MCImageFlow`, `MCDeviceRun`, `MCLostLine`, `MCBus`, `MCBusLocks` | the instances TLC checks |
| `Rc4Proofs` | proofs about words and RC4 |
| `TypeProofs`, `PacketTransferProofs`, `DeviceRunProofs`, `StageProofs`, `ImageProofs` | proofs about the device, each on top of the one before |
| `BusProofs`, `BusServiceProofs` | proofs about the bus |

`CryptoDIP` EXTENDS the four threads; `PacketTransfer` and `ImageFlow` add properties and `DeviceRun`
adds time to it. The bus is a second system (below).

**Atomicity.** A SystemC thread runs without preemption up to its next `wait`. So
each action is one segment of a thread, from one `wait` to the next, and the
control variable (`genPc`, `comPc`, `encPc`, `gpuPc`) names the wait at which
the thread stands. Loop tests, `continue` and calls (`getRange`, `KSA`, `PRGA`,
`check_crc`) inside a segment belong to its action. Actions keep the names of
what they do; variables keep the names of the source (`flag`, `flags`, `change`,
`read_en`, `memory_idx`, `control`, `rd_addr`, ...).

**Data.** An int is a member of `Word`: four bytes of `ByteSize` values each, half of the
words negative, and results that do not fit wrap. The code has `ByteSize = 256`; TLC checks `ByteSize = 4`
(bytes of 2 bits, words of 8), where a pixel still has four channels, a red channel in the upper half
still makes it negative, and RC4 still has a permutation and two indices. `pack` and `unpack` are the
shifts and masks of `simple_bus_encryption.cpp`. RC4 is the code's: `Scheduled` is the key schedule over
"coprojeto", `NextKey` and `KeyByte` one iteration of `PRGA`. XOR of two bytes is the constant `XorByte`,
of which `XorAssumption` says that it returns bytes and undoes itself. `Key[n]` is the state of RC4 with which the tool
encrypts word `n`; PRGA has a state of its own and must arrive at the same one. The CRC text of a line is
`CrcWords` words; SHA-256 is the constant `Digest`, applied, as the code does, to the channels before the
first zero one. The pure algorithms are checked through the device: `FileAssumption` compares the lines
TLC uses with what `InputFile` makes of the image, and `DecryptionSweep` with the pixels that went in.

**Time.** `delay[t]` counts down for each thread; `DeviceRun` adds the absolute time `now`. `sc_start(3000000, SC_NS)`
lets time pass up to the limit, threads due at it or later do not run, and then nothing happens: the runs
under `RunSpec` set `CHECK_DEADLOCK FALSE` for that reason.

**The bus.** The device itself only uses the bus's direct interface. The request
interfaces, the arbiter, the slow memory and their masters are compiled with it but not
instantiated, so they form a system of their own: `BusMasters`. A clock period has a
rising edge (`RisingEdge`: the slow memory counts, all masters that do not wait for
`transfer_done` become due and run in any order, `RunMaster`) and a falling edge
(`FallingEdge`: one `main_action`). The immediate notification of `transfer_done` is the removal of a
master from `waiting`; `wait(clock->posedge_event())` after it makes the master run at the
next rising edge. `wait(m_timeout, SC_NS)` is a rest of any number of
periods. `m_lock` is any choice, fixed at the start. A pointer into the
caller's buffer is an offset, `data`. The arbiter returns the first request that
meets a rule; the model offers all of them, and `OneLock` shows that
there is never more than one.

**Simplifications.** The communication module's `mydata` is folded into the
packet (it is pushed as soon as it is read and the packet is local). The file is an
index `line` into `Lines`: erasing the first line adds one. The two rotation loops
contain no wait and are one function, `Rotated`. `width * height` is an int product and wraps; if it
overflows and passes the size test, the loops leave the buffers and the program dies: `GpuRotate` is
disabled then, and no step of the GPU follows. The GPU's buffers are so large that the
allocator hands out fresh zeroed pages, so they start with zeros. The packet
memory is allocated with size 0 and accessed out of bounds; the model gives those
19 words an arbitrary initial value from `FreshMem` and otherwise lets them behave
as memory.

## Runs

| run | expects | what it shows |
|---|---|---|
| `packet_transfer` | pass | four lines, the second with a CRC that does not match; packets of two CRC words; flags and words initially 0, 1 or 9; a memory that ends before the image does; a header that announces more pixels than the GPU has room for. `TypeOK`, `PacketIntegrity`, `StoredInOrder` (the lost pixel disturbs nothing), the refinement `ChannelSpec` with its liveness, `EventuallyAnnounced`, and what becomes of the image that is too large: `RefusedImageStays` (safety) and `RefusedForEver` (the GPU reads its header again and again) |
| `image_flow` | pass | a 2x3 image through the whole device, from the tool's file on, while time is counted: `OneStageAtATime`, `DecryptionSweep`, `RotatesImageAtBase`, `FinishOnlyWhenComplete`, `Pace`, the refinement `PipelineSpec`, `ImageProcessed` |
| `fresh_memory` | violation | with uninitialised flags an image is announced before the first packet (finding) |
| `stale_base` | violation | the GPU may read the image's beginning before it was moved past the header (finding) |
| `reencrypt` | violation | the rotated image is never encrypted again (finding) |
| `bus_locks` | pass | three masters, the last one with bursts, every choice of locks, two wait states: `TypeOK` (no transfer leaves its buffer), `SlaveFollowsBus`, `OneLock`, `GrantServed`, and what the fixed priorities are worth: `OvertakenLimit` for a master before others, `ServedDespiteOne` for one behind others. The first two masters do starve the third in this run |
| `bus_service` | pass | a non-blocking and a blocking master on the same words: the refinement `ServiceSpec` (with its liveness for two masters), `BurstReturns`, and `BurstOutcome`: a call returns with all of its words or not at all. It says nothing about starvation, which takes three masters |
| `locked_burst` | violation | a locked burst is interrupted after its second word (finding) |
| `burst_error` | violation | a burst that leaves the memory never returns (finding) |
| `unprotected` | violation | a pixel with a zero channel is stored although other pixels have its CRC (finding) |
| `run_time` | violation | with the time per line that `sc_main` leaves for the shipped file, the simulation ends before the image is rotated (finding) |
| `lost_line` | violation | when the line with the height is lost, an image that is too large passes the GPU's size test and is rotated outside the buffers (finding) |

**Bounds.** The periods are the shipped ones, 30 and 5 ns: their ratio decides which
threads meet at an instant. One line before and two after a bad packet
suffice for the transfer: the protocol has one slot and remembers nothing about earlier
packets but `memory_idx`. Two CRC words make a packet long enough for
a prefix of new words before a suffix of old ones. Every initial value the flags are
compared with is included (0, 1, something else). The memory of `packet_transfer` ends (`MemoryEnd = 23`)
behind the image's second word, so that a store behind it happens. The image of `image_flow` is not square and
has different pixels, so that a transposed, mirrored or unrotated
result differs, and its encrypted words are positive and negative; each of its 8 words has its own
iteration of RC4, so a shift or a restarted key stream shows. There `MemoryEnd` leaves words
behind the image, so that stores past its end would be seen, and `RunTime = 3000` is more than the
image needs. `MCDigest` is injective on strings without zero channels, so a bad pixel is
rejected whenever the code's CRC could reject it.

`run_time` scales the shipped run: packets have all their 17 words, `output.txt` has 16386 lines and the run
lasts 3000000 ns, so 8 lines get 3000000 * 8 / 16386 = 1464 ns. `RunTooShort` (below) proves the same for the
shipped numbers, since `PacketTime` is 5 * 36 + 30 = 210 ns and 16386 * 210 > 3000000.

The image of `lost_line` is as small, but without its second line the GPU takes the first pixel, decrypted with the
wrong byte of the key stream, for the height: 122. The product with the width 2 is 244 and wraps to -12 in a word of 8 bits.
With words of 32 bits and the same width it happens from a height of 2^30 on, a pixel with a red channel from 64 to 127.

For the bus, bursts of three words have a first, an inner and a last word (two would hide the
`locked_burst` finding, as a lock lasts two words); they run from fast into slow memory, and
the non-blocking master also walks on to an address that no slave covers. Three masters
are needed for a lock to matter beside two others, and for starvation; words carry no data in `bus_locks` (`Modulus = 1`),
whose properties do not look at them, and one bit in `bus_service`.

*Starvation.* With three masters the liveness of `ServiceSpec` is false: two masters whose rests are short keep
the bus from the third, as is usual for an arbiter with fixed priorities. So `ServiceSpec` and `BurstReturns` are checked for
two masters and claim nothing beyond that. What remains true with three is in `bus_locks`, whose last master is starved in some
behaviours: one master alone starves nobody, even with locks (`ServedDespiteOne`: if from some time on all requests
before those of a master are of one master, what it requests is finished), and a request is passed over for masters
of lower priority once at most, or twice if one of them locks the bus (`OvertakenLimit`).

**Fairness.** `WF_vars(Next)`: the kernel runs threads that are due and advances time when
none is. That is all the scheduler promises and all that is needed, since no thread ever
waits for anything but time. `RunSpec` has the same fairness up to `RunTime`; the liveness of `image_flow` then
says that 3000 ns suffice, and no stop of the simulation is hidden by it. The bus has the same fairness, in `Spec` and `LockingSpec`:
its clock goes on, and the masters that are due run before it falls.

## Findings

1. *Uninitialised packet memory.* `simple_bus_master_com.h:73` computes the size of `MEM`
   as `(start - start + 1) / 4 = 0`. Nothing clears the flags, and the end flag is the first
   word the thread reads.
2. *Stale base.* `simple_bus_encryption.cpp:62` raises the GPU's flag one period before line 70
   stores the new beginning of the image. Whether the GPU reads 16 or 24 depends on
   the order of two threads at one instant.
3. *Write-back.* `simple_bus_gpu.cpp:84` uses `i` of the rotation loop instead of `k`, so all pixels are written
   to one word. Plain from the code, it has no run of its own: it is in the pipeline that `image_flow` checks.
4. *No re-encryption.* README.md:4 announces it, no thread does it.
5. *Interrupted locked burst.* `simple_bus_arbiter.cpp:72` says "cannot break-in a locked burst", but
   the first rule does not renew the grant: after word one the lock is `SET`, after word two
   `clear_locks` drops it, and word three competes by priority.
6. *Lost error.* `handle_request` does not notify `transfer_done` when no slave covers the
   address (`simple_bus.cpp:301-306`), so a blocking caller never sees the error that
   `simple_bus_master_blocking.cpp:52-54` is ready to print.
7. *Unprotected channels.* `crc_generator` digests `strlen` bytes of the four channels, red first
   (`simple_bus_master_com.cpp:37`). Channels from the first zero one on are not covered; a pixel without red has the
   CRC of the empty string, and line 2 of the shipped `output.txt`, the image's height, is one.
8. *Too short a run.* The shipped file needs at least 3441060 ns for its transfer,
   `sc_start(3000000, SC_NS)` (`simple_bus_main.cpp:7`) ends the simulation before the image is announced.
9. *Size test.* `simple_bus_gpu.cpp:32` compares the int product of width and height, which may have overflown, with the
   size of the buffers, but the rotation loops over the two factors. A consistent header cannot overflow it (`ImageSize`
   below), but one lost line is enough: line 1 or 2 of the file fails its CRC, the words behind it move up, and a pixel
   becomes the height.

The properties that `image_flow` checks state what does hold despite 1-4 and 7-9 (the packet
memory starts cleared there, no line is lost, and the rotation is right when the base was read in time).

Not findings, but worth knowing: an image too large for the GPU leaves its flag up and is polled
for ever (`RefusedImageStays`, `RefusedForEver`), and pixels behind the end of the memory are lost without a message. The comment at
`simple_bus_test.h:38`, that the memory can hold a 4K image, is wrong, as the memory has 4194304 words and a 4K image with
its header and flags takes 8294406. No property claims it: `StoredInOrder` says what is stored when the memory ends before
the image.

## Proofs

TLAPS proves, for every value of the constants that satisfies the named assumptions
(`ByteAssumption`, `WiringAssumption`, `WordAssumption`, `FreshMemAssumption`, `LinesAssumption`, `XorAssumption`,
`FileAssumption`, `RunAssumption`; for the bus `SlavesAssumption`, `BusAssumption` and `MastersAssumption`):

**Words and RC4, for every size of a byte**

- `XorTwice`: a word encrypted twice with one byte is itself again. `UnpackPack` and `PackUnpack` say that the two
  conversions are each other's inverse, also where the red channel reaches the sign bit and the word is negative.
- `KeyScheduleType`, `KeyType`: the key schedule leaves a permutation state with indices in range, and `Key` is the stream of states that
  `NextKey` generates. Both functions are recursive. The library's induction theorems cannot be instantiated with the
  installed provers, so `Rc4Proofs` first derives induction as a fact about sets (`InductionOnSets`, from the
  well-foundedness of `<`), and recursion as the existence of a sequence with a given beginning and step (`SequenceExists`).

**The device, whatever the packet memory holds at first**

- `TypeCorrect`: `Spec => []TypeOK`. `TypeOK` is not inductive. That `memory_idx` stays in
  range needs that a pixel is stored only while a line is in the channel
  (`StoreBound`, which ties the operation flag to the places where the two threads
  can be); that the GPU's indices stay inside its buffers needs the size test it
  passed before (`GpuBounds`).
- `PacketIntegrityHolds`: `Spec => []PacketIntegrity`, from `LinkInv`: while the slot is full
  the packet memory holds the words of the current line, while it is being filled
  the first `sent` of them.
- `ImplementsChannel`: `Spec => ChannelSafe`. Raising the flag is `Put`, clearing it is `Take`,
  every other step leaves the channel as it is.
- `StoredInOrderHolds`: `Spec => []StoredInOrder`, for files with damaged lines and memories that end before the image too.
  `KeptInv` ties `memory_idx` to the number of valid lines among those taken from the channel, so the pixel that is stored
  goes to its line's `Place`. `BeginInv` says that no other thread writes meanwhile: the beginning of the
  image is 0 until it is announced, the stages behind poll as long as it is, and whatever they read of it later is 16 or 24.
- `PaceHolds`: `RunSpec => []Pace`, no stored pixel costs less than `PacketTime`. `PaceInv` follows the
  time from one pixel to the next: each stage of a packet adds one access to the
  earliest time at which the thread that handles it runs again.

**The device, if the end flag starts cleared** (`EndFlagClear`, a premise about the one word that matters: without it
finding 1 refutes these; what the other words of the packet memory hold at first is left open)

- `FinishHolds`: `Spec => []FinishOnlyWhenComplete`, from `EndInv`: an end flag that anybody saw means that
  no line is left, in the file or in the slot, and that is stable.
- `AnnouncedImageComplete`: if moreover every line is valid, the announced range has a word for each
  line (`CountInv`: every line taken from the channel moved `memory_idx` by a word).
- `RunTooShort`: if every line is valid and `RunTime < Len(Lines) * PacketTime`, then `RunSpec => ~RotatedInTime`. Until
  something is announced the stages behind are `Quiet`; an announcement needs a complete image, which `Pace` forbids.
- `OneStageHolds`: `Spec => []OneStageAtATime`. The device passes through four phases, `Before`, `Announced`,
  `Decrypting` and `Decrypted`, in each of which one stage can have the image. They are inductive because
  the generator raises the end flag once (`RaisedInv`), the announcing thread is `Done` for good afterwards,
  the decryption starts behind the flags, and the GPU writes no flag but its own. Damaged lines
  and the size of the memory do not matter.
- `RefusedImageHolds`: `Spec => RefusedImageStays`. `GpuInv`: while the GPU works its flag is up, what it read of
  the header is still there, and `bufferB` is written only by an image that is then saved. So a refused image was never
  rotated, and `Stuck`, the loop around the size test, is closed under every step.
- `ProcessedOnce`: once the GPU has stopped, no flag is up again and neither it nor the encryption module touches an
  image. This is finding 4 for every file, and it leaves no second decryption.
- `DecryptionSweepHolds`: `Spec => []DecryptionSweep`, if the memory holds the image (`Fits`). `ContentInv` follows the words of the image
  through the phases: received as the file has them, and the range announced with them (`ReceivedInv`); word `m` decrypted
  with `Key[m]` (`SweepInv`); what the tool was given, from the GPU's flag to its first write (`PlainInv`).
- `RotationHolds`: `Spec => []RotatesImageAtBase`, if moreover the image has width times height pixels behind its header
  (`ImageShaped`). `RotationInv` adds what the GPU has read of the header and of the pixels (`FetchInv`); that `Rotated`
  inverts its own target address is division with remainder (`DivMod`). An image with as many pixels as its header says
  that fits the memory does not overflow the product of width and height (`ImageSize`); without that premise it may
  (finding 9).
- `ImplementsPipeline`: `Spec => PipelineSpec`. Each step of the four threads is a step of `ImagePipeline` or changes neither a word of
  the image nor the picture: storing a pixel is `Receive`, raising the crypto flag is `Announce`, writing a
  decrypted word is `Decrypt`, raising the GPU's flag is `HandOver`, the rotation with the first header word is `Rotate`.
  Besides the invariants above it needs that `bufferB` is the turned image from `First` on (`TurnedInv`) and which words the
  write-back has reached (`SaveInv`). The pipeline says what the program does, so it has findings 2 and 3 in it: `first` is 3 or 1, and
  all pixels of the picture are saved to one word.

None of the proofs but those about time uses the periods: flag discipline alone keeps the
threads apart, in any order of their steps.

**The bus, for any number of masters, any memory and any number of wait states from one on**

- `BusTypeCorrect`: `Spec => []TypeOK`, so no transfer leaves its caller's buffer and no master its span, from what is left of
  each open transfer (`TransferInv`), how far a master has walked (`WalkInv`) and who may have a
  request open (`RequestInv`).
- `SlaveFollowsBusHolds`: the slow memory's count is for the bus's current request.
- `OneLockHolds`: the arbiter's lock rules have one candidate at most. `LockInv` says that a granted lock is on the
  request being served or still asking, and that at a decision one master at most holds a lock that counts.
- `ImplementsService`: `Spec => ServiceSafe`, the safety part of `BusService`. `AlignInv` says that a transfer's end is a
  whole number of words away, so it is met.
- `BurstOutcomeHolds`: `Spec => []BurstOutcome`. `BurstInv` ties the address of an open burst to the words it has moved, so the
  test for the last word comes true with word `BurstLength`.
- `FailedBurstWaits`: a blocking master whose request failed waits for ever, whatever the others do: finding 6 for every
  bus. With `BurstOutcomeHolds`, the master's branch for `SIMPLE_BUS_ERROR` is never taken.
- `GrantServedHolds`: `LockingSpec => []GrantServed`, from `GrantInv`: the master that may count on the bus holds the lock that counts,
  or is being served.
- `OvertakenLimitHolds`: `LockingSpec => []OvertakenLimit`. A master of lower priority goes first only when a slave works for it or
  its lock counts (`MayGo`, `PassedOver`). `TurnsInv` adds to the turns a request has been passed over for those
  that the lock of such a master has left: two while it is granted, one when it is set, and one if a non-blocking master is
  about to write what it read, which is the only request made without a rest (`RestInv`).

**Only model-checked.** Liveness (`EventuallyAnnounced`, `ImageProcessed`, `RefusedForEver`, `BurstReturns`, `ServedDespiteOne`, the
liveness of `ChannelSpec` and `ServiceSpec`): fairness is out of the prover's reach. Every other property of a
passing run is the statement of a theorem. Of the refuted ones, 4, 6 and 8 are also proved for every instance
(`ProcessedOnce`, `FailedBurstWaits`, `RunTooShort`); the others are facts about one instance.

## Not modelled

- The direct master (it only prints) and the slow memory's direct interface, which has no caller.
- A slow memory with zero wait states: it would never answer (`SlavesAssumption`). Nothing in the repository constructs one.
- The legacy `simple_bus_communication`, which the top level does not instantiate, and the encryption module's
  debugging helpers, which nobody calls.
- PNG output, logging, and the readers of the offline tool, which serve a person who compares pictures.
- SHA-256 and the text of `output.txt`: a line is its CRC and its pixel.
- The SystemC kernel beyond timed waits, the start of threads and the end of `sc_start`; signals, methods and channels are
  used only by the clock of the bus, which `BusMasters` has as its two edges.
- The vendored trees under `environment/` (SystemC, OpenCV, CMake): 1.7 million lines, more than 99% of the
  repository, of third parties. The program itself, `src/src` and `src/generator`, is what the modules map.
- What the program does after a rotation outside the buffers (`lost_line`): the GPU takes no further step there.
- The wrap of bus addresses at 2^32: they are naturals in the model. A burst that ends at the last word of the address
  space would not notice its end, but no configuration has a slave there.

## What is left

The plan (core, bus, algorithms, limits of the device, proofs of all its safety properties, the refinement of the three abstract
specifications) is done. What could still be added: theorems about an image that lost lines, whose header contradicts the number of its
pixels (`ImageShaped` excludes it from those about the rotation), and the bus with more than one slow memory, if a
configuration of the repository ever has one.
