# OSNT-SUME in TLA+

OSNT-SUME is a network tester on a NetFPGA-SUME card: a traffic generator that
replays packet traces, and a traffic monitor that filters, counts and captures
packets. These modules model the parts of it where concurrency, ordering,
failure and limits decide whether it is correct. TLC checks the models on small
instances; TLAPS proves theorems about eight of them for every size.

Contents: 1 the system, 2 hard behaviours, 3 modules and their correspondence
to the code, 4 runs, 5 bounds and fairness, 6 disagreements found, 7 proofs,
8 what is not modelled, 9 plan.

## 1. The system

    host      CLI / GUI ── generator.py, monitor.py ── axi.py
                │  packets (nf0..nf3)      │ rdaxi / wraxi: one ioctl each
    driver    sume_riffa.c: network devices, register ioctls, one interrupt handler
                │ DMA channel 0            │ DMA channel 1
    card      RIFFA ───────────────────── riffa_axi_lite ── registers of all cores
                │
      TX:  metadata, NIC lookup → pcap replay engine → inter packet delay ×4
                → rate limiter ×4 → 10G ports
      RX:  10G ports → input arbiter → core_monitoring → packet cutter
                → output queues → DMA channel 0 → host

| Component | State it keeps | Operations | What makes it correct | Status |
|---|---|---|---|---|
| word FIFOs (`fallthrough_small_fifo.v`, `small_fifo.v`) | ring, pointers, depth, three staged words | write, read, reset, every clock edge | order, no loss or duplication, no gaps | modelled, proved |
| pcap replay engine (`osnt_sume_bram_pcap_replay_uengine.v`, `osnt_sume_bram.v`) | per queue: RAM, write, read and output machine, FIFO | record a trace, mark its end, replay it n times, reset | each port sends its own trace, whole, in order, n times | modelled but for the bypass; exact replay and own traces proved |
| generator host tools (`generator.py`, `generator_cli_lib.py`, `osnt-tool-cmd.py`, GUI) | tables of traces and counts; a copy of every register read; fields, labels, toggles | load, set counts, rates, delays, positions, run, stop, clear, refresh | a call does to the card what its option says, the window shows what the card has, a refresh changes nothing | modelled but for `load_pcap_only` |
| register access (`sume_riffa.c`, RIFFA ports, `riffa_axi_lite.sv`) | state of either direction, tag, bounce buffers, pending causes | read, write, interrupt, DMA transfers | one caller at a time, own answers, writes done, calls return | modelled and proved; size of transfers abstracted |
| packet channel (`sume_riffa.c`) | the same for channel 0 | transmit, receive | packets whole, ports right, queue restarted | only the loss seen by a sender |
| capture path (`core_monitoring.v`, analyzers, filter) | three FIFOs, lookup pipelines, output machine | accept, decide, forward, drop, flush | decision and tuple belong to the packet; packets whole | modelled but for the protocol parsers; proved |
| monitor host tools and registers (`monitor.py`, `monitor_cli_lib.py`, GUI, `stats_handler.v`, `ipif_table_regs.v`) | filter tables, counters, freeze, control register | load, read, clear rules; read, reset, show statistics | table is the filter wanted; snapshots and rates right | modelled for one port; snapshots and displays proved; timer planned |
| inter packet delay, rate limiter (`inter_packet_delay.v`, `rate_limiter_simple.v`) | four and three registers, timer, FIFO, machine each | per clock edge; enable, disable, reset | words in order, none lost; gaps as set | modelled, proved |
| packet cutter (`packet_cutter.v`, `monitor.py`) | five registers, FIFO, machine | per word; enable, disable | packets cut as set, none joined | modelled, proved |
| input arbiter, output queues, 10G queues | FIFOs, turn, drop state | per packet | fairness, whole packets | planned |
| latency measurement (`timestamp_capture_cli_lib.py`) | socket or dump, counter polled, results | open, start, receive or poll, sum up | a report is over the packets asked for; the loop ends | modelled, proved |
| timestamp counter (`osnt_sume_timestamp`) | counter, correction | stamp | monotone time | not modelled |
| external memory variant | second engine, memory controllers | as the first | as the first | planned last |
| driver set-up, NIC lookup, endianness, wrappers, batch core | none of their own | wiring, start-up | – | not modelled |
| simulation cores, build scripts, embedded code | – | – | – | not modelled |

Interactions. Programs talk to the card by register accesses, each one a run of
a helper program and an ioctl, and by packets sent into the network interfaces;
the two ways are not ordered with each other. Registers written by the host are
read by the hardware at any clock edge. Cores pass words by valid/ready
handshakes and keep them in fall-through FIFOs whose `nearly_full` does not
count the words in their output registers.

## 2. Hard behaviours

`PROJECT.json` lists each hazard at its line, with the properties that would
notice it going wrong. In short:

* two words moving in one clock edge, pauses that leave a word on a RAM output,
  addresses and counters that wrap (FIFO, replay engine, statistics);
* pipelines of different length whose results must stay in step (capture path);
* a lock dropped while a caller sleeps, causes of interrupts that arrive late,
  early or together, timeouts that race the answer (driver);
* registers changed by the host in the middle of a packet or a replay, cores that
  are taken out of the path of the words while they hold some;
* programs that write from their copies of the registers, and change handlers
  that run in the middle of a refresh;
* background programs started together, exceptions swallowed by a loop;
* several registers written one by one that mean one thing (filter rules,
  statistics, trace and end of trace);
* two programs at once, one of which is refused by the driver.

## 3. Modules

### AbstractFifo, FallthroughFifo, MCFallthroughFifo, FallthroughFifo_proofs

`FallthroughFifo` has every register of the two files. One action is one clock
edge: `Clock` with the user's `wr_en`, `din` and `rd_en`, or `Reset`.
`RingEdge` is `small_fifo.v`, `StageEdge` the always block of
`fallthrough_small_fifo.v`. `pushed` and `popped` are history. `AbstractFifo`
is a bounded queue, what the cores that use the FIFO count on; the refinement
mapping `Contents` reads the queue out of ring and registers. The replay engine
and the capture path use that queue, with the flag `nearly_full` as the code
gives it: it counts the ring only, so it may be low with up to three words more.

### PcapReplayEngine, GeneratorHost, PacketGenerator, MCPacketGenerator, PacketGenerator_proofs

`PcapReplayEngine` is the hardware. The source has four copies of each machine;
the module has one, indexed by the queue. `Clock(bus, nf, go, trace)` is one
edge: all machines step together from the old values. `bus` is the word on the
shared input stream, `nf` the FIFO flags, `go` whether a port is ready.
A RAM cell is a word of a packet, the end mark, or empty.

`GeneratorHost` has the operations of `OSNTGeneratorPcapEngine` as sequences of
steps (write one register, send a packet, sleep), and `Invocation`, the order in
which `osnt-tool-cmd.py` calls them.

`PacketGenerator` composes the two. `WriteRegister`, `SendPacket`, `SleepStep`
and `WatchStep` do the next step of the script, `Edge` is a clock edge, with or
without the next word of the DMA channel. Register writes overtake packets.
`trace`, `loaded`, `promised` and `sent` are history: what was loaded, what the
replays begun so far owe, what has left. `LoadsInTurn` says how `load_pcap` uses
the engine when it loads one interface. `UsesInOrder` says more: step by step, what
a script may do to a queue that is new, loading, loaded or running (`Allowed`,
`StageAfter`), so that its replays come out exact. Both are conditions on scripts;
nothing in the model enforces them.

### RegisterAccess, RegisterAccess_proofs

The callers (`Initiate`, `Busy`, `Sent`, `StopSending`, `GiveUpSending`,
`sume_read_reg_result`, `GiveUpReceiving`, `Sleep`) are the ioctl split where
`adapter->lock` is dropped: a look at the wait condition, the sleep, and the
code after it. `Interrupt` is the interrupt handler, atomic as it holds the
lock, which handles all pending causes at once in the code's order. The `Rx...`
and `Tx...` actions are the two directions of a RIFFA channel, `Execute` is
`riffa_axi_lite.sv`. A request is its tag and kind; the answer to a read is the
tag, which tells one answer from another.

Two constants name what the environment does. `Patient`: no wait ends by
timeout or signal. `QuickAnswer`: the answer is in memory before an interrupt
reports that the card has read the scatter/gather list. Neither is given by the
code; no theorem assumes `QuickAnswer`, and only one assumes `Patient`. Two
histories say instead when they would have mattered: `gaveUp`, whether a wait has
ended by timeout or signal, and `early` in `last`, whether a read took its value
while the card still had an answer to write.

### CoreMonitoring, MCCoreMonitoring, CoreMonitoring_proofs

`Clock` is one edge: the input takes a word if `pkt_fifo` has room, the parsers
advance, the lookup pipelines shift, and the output machine
(`WAIT_TILL_DONE_DECODE`, `IN_PACKET`, `SM_PACKET`, `FLUSH`) does its step.
`WriteControl` is the host's write of `force_drop` and `tuple_pkt_en`. Header
fields are abstracted to one choice per packet: the TCAM matches it or not. What
the FIFOs and pipelines hold of a word is its place in the traffic, packet and
position, from which data, last mark and match follow.

### MonitorHost, MCMonitorHost, MonitorHost_proofs

Operations of `monitor.py` are sequences of register accesses, as in
`GeneratorHost`. `Step(p)` does the next access of program p, `Refused(p)` is the
driver's EBUSY while another program is at the driver: a refused write is
lost (`wraxi` looks at no exit status), a refused read ends the program (`int()`
of the error text). `AccessTable` is `ipif_table_regs.v`: columns collect in a
write port, the address moves them to the row. `Tick` is one edge of
`stats_handler.v`. One port with its packet and byte counts stands for the
twenty-six counters `get_stats` reads. `freezers` is history: the programs whose
freeze nobody has lifted yet. A call of the command line starts with `InitMCli`, which
clears the filter and reads the statistics, so two programs at once are two
readers; a window that is open already (`Running`) has done so before. The predicates on scripts (`ReadsFrozen`,
`StartsAgain`, `LoadsFilter`, `SparesRules` and their parts) say which programs the
four theorems are about; TLC evaluates them on the scripts of the tools.

### GeneratorTools, MCGeneratorTools

The registers of the generator, and the window (`generator_gui.py`) and calls of
`osnt-tool-cmd.py` that set them, every operation of both a sequence of steps.
Each program has a `mirror`, its copies of the registers it has read. A setter
writes and reads back (`Set`); a list setter writes the copies of all ports
(`Flush`). `readings_init` refreshes the window: `SetTextStep` is `SetValue`,
which puts the field's change handler on the window's `stack` when the number
has changed (what wx does is external: `IntCtrl` passes the text event on
before `SetValue` returns). Accesses of the programs interleave; the driver may
refuse one, as in `MonitorHost`. `GeneratorHost` has the same loads in more
detail, with their packets and pulses; here a load is what it leaves. `loaded` is
the trace in each port's memory, plain or stamped: the engine's reset returns
addresses and machines to their start and clears no cell, so traces outlive it, and
a session may find those of an earlier one.

### Shaping, MCShaping, Shaping_proofs

One port behind the replay engine: `inter_packet_delay.v` feeding
`rate_limiter_simple.v`. `Tick(in, mac)` is one clock edge of both, with the
word on offer and the sender's ready. The cores are joined by combinational
wires, which are operators here (`d_offer`, `l_ready`, ...): a core not enabled
passes offer and ready through and leaves its FIFO alone, as the code does.
The timers of the delay are only compared, so `wait` is their difference.
`HostWrites` does one register write of the operation in `todo`. The stamps are
those of `load_pcap_ts`. History variables: what has left, what a reset threw
away, whether a core was disabled with words in it, how long the wire must rest.

### PacketCutter, MCPacketCutter, PacketCutter_proofs

`packet_cutter.v`, one action per state, with the lengths of packets and words
in place of their bytes. `HostStep` does one write of `enable_cut` or
`disable_cut`, in the middle of packets as it comes. `cur` and `out` are
history: from which packets the words of an outgoing packet came, its length,
the length it claims, and the registers it met; `astray`, that its cut without hash
began at a count of words left over from a packet before; `twice`, that a word of it
was sent again because the next was late (`CutStarved`). `troubled` says that some cut
without hash has met one of its limits: the word its length is reached in
is the last of the packet, or the length register was written meanwhile. Only
`BoundariesKept` and `Drains` end there; the others speak of each packet by itself.

### LatencyCapture, MCLatencyCapture, LatencyCapture_proofs

`timestamp_capture` (raw socket) and `timestamp_tcpdump` (dump file and counter)
of `timestamp_capture_cli_lib.py`, as called by `osnt-tool-cmd.py` or by
`timestamp_capture_cli.py`, which does not clear the counters. `Arrive`,
`Deliver` and `Lose` are the network between port and host, `BackgroundRm` and
`BackgroundTcpdump` the two commands put into the background.

## 4. Runs

| Run | Question | Result |
|---|---|---|
| `fifo` | Do words keep their order, get neither lost nor doubled (`InOrder`, `NothingLost`), fall through (`FallsThrough`)? Is it a bounded queue (`ImplementsQueue`)? | holds |
| `replay` | Does every port send a beginning of exactly what it owes (`ReplayExact`), its own traces only (`OwnTraceOnly`), in the end all (`ReplayCompletes`)? Is no start pulse of an idle, drained queue lost (`StartTaken`)? | holds |
| `replay_clear_midway` | Do packets stay whole when a replay is cleared? | `PacketsIntact` violated |
| `registers` | Two patient callers and answers in memory before their interrupt: exclusion, writes handed to the card, buffer stable, calls return, channel freed | holds |
| `registers_impatient` | With timeouts, signals and answers that come late: do callers return (`CallsReturn`), does a read that took a written answer before anybody gave up have its own (`TimelyAnswer`)? | holds |
| `capture` | Do decisions and tuples stay in step (`InStep`); do exactly the selected packets leave (`OnlySelected`, `CaptureCompletes`); are the flush branches dead (`NeverFlushed`), the small FIFOs large enough (`RoomForDecisions`)? | holds |
| `monitor` | Is the table the filter last asked for (`FilterIsWanted`), no rule replaced while packets pass (`NoRuleSwappedLive`); are snapshots of one instant while the reader's freeze is in force (`SnapshotConsistent`) and shown rates right across a wrap (`RateRight`)? One call after another, and a call that starts and loads beside an open window that refreshes | holds |
| `generator_tools` | Does the window show what the card has (`LabelsTruthful`), does a refresh change nothing (`RefreshHarmless`), does a call leave what it asks for (`CallAsAsked`) and the gap mode of its traces, those of earlier sessions still in memory (`TimedIffStamped`), is the engine's reset lifted in the end (`EngineReleased`)? With window and call at once and accesses refused | holds |
| `latency` | Is a report over the packets asked for (`ReportComplete`), does the measurement end (`EndsWhenEnough`)? | holds |
| `cutter` | Are packets cut as set (`CutAsConfigured`), say so (`ClaimTruthful`), stay apart (`BoundariesKept`) and leave (`Drains`), with registers written one by one? | holds |
| `shaping` | Is no word lost or doubled (`EachWordOnce`), none overtaken but by disabling a core (`OvertakenOnlyIfStranded`), are gap and delay what was set (`GapAsShown`, `DelayKept`), does nothing stay behind (`Drains`)? | holds |
| `shaping_captured` | Does a trace leave with the distances it was captured with? | `SpacedAsCaptured` violated |

Every property of a passing run comes with a mutant, a plausible slip in the
code (a definition `X_...` beside its `X`) under which the run fails. The
`TypeOK` of a module is not among them: some are theorems or parts of a proved
invariant (section 7), and all hold in these runs when `TypeOK` is added to the invariants.

Deadlock is not checked in the runs whose scripts, packets or users end, nor in
`RegisterAccess`, where the requests are bounded and a stuck channel is the
subject of a property of its own.

## 5. Bounds and fairness

* `fifo`: a ring of 4 and 8 writes between resets: pointers wrap twice, every
  combination of the three valid bits meets every depth.
* `replay`: two queues, RAMs of 5 cells, FIFO rings of 2, so `nearly_full` stops
  the reader in the middle of every trace. A trace of three words, the end mark
  and the empty cell after it fill the RAM, so the write address wraps.
  `EngineAssumption` wants a ring of more than one cell, since a ring of one could
  be nearly full and empty; the source's has 64 (2000 bytes of 32). The scripts: load and run in one call and in two, run again, another trace,
  clear in between, both ports together, a run while the last one drains.
* `registers`: two callers, `MaxTag` requests (4, or 2 when timeouts multiply
  the states): enough for a read after an abandoned or early one, and for two callers
  that meet at every step of the protocol.
* `capture`: three packets of two or four words, FIFO rings of 5, a lookup of
  2 edges and a tuple of 1. `DepthAssumption` states what the proportions of
  the source (256 words against 9 edges and 4) give: the FIFO holds more than
  what arrives while a decision is on its way. The FIFO does fill up.
* `monitor`: two rules of two columns, counters modulo 2 and up to two packets of 3
  bytes, so that both counts wrap between two displays; two programs. The mutant of
  `RateRight` fails on the wrap.
* `generator_tools`: two ports. A typed delay of 10 ns is one tick, which the
  window shows as 6 ns, which is no tick; 50 ns come back whole. `MCPlans` are
  the situations: two uses of any control, one with a refused access, two calls
  with a refused access, a typed count beside a call, two programs clearing at
  once. Registers start at 0 or as an earlier session left them,
  with stamped traces in all memories.
* `latency`: three packets asked for, up to four sent, among them a repeated
  time, a packet too short and a negative latency, and up to three lost or
  stale ones. Both pauses are taken to be long enough for what they are there
  for (the guards of `FirstPause` and `SecondPauseAndCalc`); `CaptureAssumption`
  says that packets are sent in the order of their times.
* `cutter`: words of 4 units, a hash of 2 and a least cut of 8 are the
  proportions of 32, 16 and 64 bytes. Three packets of two, three or six words; cuts
  of 5 (too short without hash), 10 (the hash just fits, and a packet of 12 is longer
  by no more than the hash, or ends in the last word of the cut) and 20 (the hash needs
  a word of its own). At the start the registers are as an earlier call left them, so
  that one operation while packets pass gives every change from one setting to
  another. The run has packets joined by a stale count or sent with a word twice, and
  packets cut as set after them. `MCCutterLimits.cfg` has other lengths and two
  operations.
* `shaping`: FIFOs of 2 words and traces of 4 and 3, so both FIFOs fill up; rate
  1, delay 3, stamps of 1, 3 and a second (4 ticks); two operations at any time.
  Of the FIFOs the ring is modelled, not the output registers (`FallthroughFifo`
  shows what they are good for). In the block RAM variant the engine clears the
  user bits, so its stamps are 0: a constant delay of 0, which is among the values.

Fairness. The clock of the card never stops (`WF` on the edge). A port or the
next core is ready again and again, and the DMA channel delivers what it has
(`Delivery`, `Departure`, `Arrival`): the runs that use them ask what the core
does to its traffic, not whether a cable is plugged in. The host goes on with
its script. In `RegisterAccess` each step of the card, the interrupt handler and
the return of each caller are weakly fair, the latter because every wait has a
timeout; starting a call is not fair. A caller with `Patient` TRUE has no
timeout, so its return rests on the card alone. `MonitorHost` and
`GeneratorTools` have only safety properties and no fairness. In `PacketCutter`
and `Shaping` the clock runs, the sender behind the core takes a word that stays
on offer, the engine offers a refused word again, and a program that has begun
to write goes on. In `LatencyCapture` the programs are scheduled and a packet
that is not lost arrives; nothing makes another terminal start the generator.

## 6. Disagreements found

Runs, listed in `PROJECT.json` with the line that says otherwise:

1. Clear in the middle of a replay resets neither the FIFO nor the output
   machine; the rest of the old trace precedes the next one.
2. `load_pcap_ts` stamps a packet with its distance to the one before; the delay
   module applies a stamp to the packet after. Every distance comes one packet
   late, behind a first one of a second.

Further ones, with a configuration of their own beside the modules, each found
violated when it was written:

| Configuration | Property | What the code does |
|---|---|---|
| `MCReplayBothInOneCall.cfg` | `OwnTraceOnly` | with two traces in one call only the interface the loop of `load_pcap` ended with gets `wr_done` (`generator.py:304`); the other queue records both |
| `MCReplayOverflow.cfg` | `ReplayExact` | a trace longer than the RAM overwrites itself; the check in `generator.py:268` is commented out |
| `MCReplayStop.cfg` | `NothingSent` | Stop Replaying pulses the start registers (`generator.py:446`) |
| `MCReplayMonitorCall.cfg` | `ReplayCompletes` | a call without `-rpn` sets all replay counts to 0 under a running replay |
| `MCReplayDrops.cfg` | `ReplayExact` | the driver drops packets of a trace when busy and reports success |
| `MCRegistersEarlyWake.cfg` | `OwnAnswer` | a read is woken when the card has read its scatter/gather list (`sume_riffa.c:734`), which may be before the answer is in the buffer |
| | `CallsReturn` | the read so woken is done before the end of its transfer is reported; that report is dropped, the card waits for it to be read, and the next read is never woken but by its timeout |
| `MCRegistersStuck.cfg` | `ChannelFreed` | a read that gives up its second wait never frees the channel (`sume_riffa.c:738`); every later ioctl gets EBUSY |
| `MCRegistersGivenUp.cfg` | `OwnAnswer` | the late answer of an abandoned read is returned to the next one; the wrong tag is only logged |
| | `WriteDone` | a write that timed out returns 0 |
| `MCCaptureMisstep.cfg` | `InStep` | `force_drop` cleared at the last word of a dropped packet puts the output machine out of step with the decisions for good (`core_monitoring.v:446`) |
| `MCCaptureFragment.cfg` | `WholePackets` | `force_drop` cleared in the middle of a dropped packet forwards its tail |
| `MCMonitorShow.cfg` | `FilterIsWanted` | every call of the command line tool clears the filter on the card (`monitor_cli_lib.py:57`) |
| `MCMonitorDrop.cfg` | `DropWhileUpdating` | `set_rules` lifts the drop before it writes the rules, against the comment at `monitor.py:171` |
| `MCMonitorReset.cfg` | `RateRight` | after Reset Stats the smaller count is taken for a wrap |
| `MCMonitorTwoReaders.cfg` | `SnapshotUnlessRefused` | there is one `stats_freeze` for all programs; of two that read the statistics the first to be done lifts it for both (`monitor.py:218-230`), and the other's counts are of different instants with no access refused |
| `MCGeneratorToolsAgain.cfg` | `NoTraceMisplayed` | a call with `-rpn` for a port whose stamped trace an earlier call loaded, and no `-ifpt`, sets the gap of all ports to the register (`osnt-tool-cmd.py:194-199`): the stamps are sent as packets |
| `MCLatencyReport.cfg` | `AverageBetween` | the tcpdump version divides the sum by one too many (`timestamp_capture_cli_lib.py:310`); its average may be below the least latency printed beside it |
| | `LpnPackets` | the tcpdump version counts what the port counts, earlier, filtered and lost packets included, and reports on fewer than asked for |
| `MCCutterLimits.cfg` | `DisabledIsOff` | without hash the cutter cuts whatever `cut_en` says: the window shows N/A and packets are cut |
| | `NeverJoined` | without hash, a packet that ends in the word its cut ends in, or a length written meanwhile, makes the cutter run into the next packet (`packet_cutter.v:308,410`) |
| | `NeverTwice` | without hash, the valid output does not look at the FIFO in state `CUT_PACKET` (`packet_cutter.v:405`): when the next word is late, the last one goes out again |

Where a configuration has several properties TLC stops at the first; remove the
others from it to see the one in question.

Noticed while reading, without a property:

* The limiter passes one part in 2^rate + 1, as `generator.py:549` displays; the
  comment at `rate_limiter_simple.v:41-44` says 10G/2, 10G/4, 10G/8.
* Disabling the limiter in a gap or in a packet keeps its ticks; the gap of the
  next packet is too long (`steady` in `GapAsShown` leaves it out).
* `set_ipg` enables the delay before it says where the delay comes from; a packet
  that starts in between takes its stamp (`generator_cli_lib.py:88-90`).
* The byte masks of `packet_cutter.v` for a rest of 6 and of 17 bytes have a digit
  too few; a packet longer than the cut by no more than the hash is hashed but
  claims its old length; `hash_en` = 1 turns the hash off.
* `-cs` of `osnt-tool-cmd.py:68` is read and never used.
* A position typed into the window goes back to its value of the start of the
  window with the next refresh.

## 7. Proofs

The theorems hold for every value of the constants that the named assumptions of
the modules allow. Where one needs more, the hypothesis stands in the theorem and
TLC evaluates it in the MC module for the instance of the runs.

`FallthroughFifo_proofs`, from `MAX_DEPTH >= 1` and `Zero \in Data` only:
`FifoTypes`, `FifoOrder`, `FifoKeepsAll`, `FifoImplementsQueue`. `InOrder` is not
inductive: that dout is right after an edge depends on the word behind it. The
invariant `FifoInv` says where each unread word is: the registers hold the next
ones (`RegistersInOrder`), slot rd_ptr + i of the ring the i-th after them
(`RingInOrder`), and depth and valid bits add up (`NothingLost`). The proof is a
case split on which register each edge loads. For the refinement of
`AbstractFifo` the same cases say what an edge does to `Contents`: it drops the
first word, appends one, does both or leaves it alone.

`PacketGenerator_proofs`, first part: `OwnTraces`, for any queues, traces, sizes of RAM and
FIFO, dropped packets and any timing, for scripts that load the queues in turn
(`LoadsInTurn`): a port sends words of its own traces. All write machines listen
to one stream, and one in `WR` takes whatever passes, so the property rests on an
order kept across host, channel and card. A queue is `Open` while it is in `WR` or
words for it are on their way; `InTurn` says that all words on their way are then
its own, and that it will be closed before another is sent to: the script has a
pause and the write of its `wr_done` before the next foreign packet (`Awaits`),
or that write is next and the channel empty (`Closing`), or it has been done and
the next edge leaves `WR` (`Closed`). `Stored` follows the words from there to the
port. Without the hypothesis it is false (`MCReplayBothInOneCall.cfg`).

`PacketGenerator_proofs`, second part: `EngineTypes` (no hypothesis), `ExactReplay`
and `StartsTaken`, for any number of queues, any traces that fit, any counts, RAM and
FIFO sizes, and any timing of ports, channel and host. Hypotheses: the driver drops
nothing (`~Drops`) and every script uses the engine in order (`UsesInOrder`), which TLC
evaluates for the scripts of `replay`. Without them they are false:
`MCReplayDrops.cfg`, `MCReplayOverflow.cfg` (a trace too long), `MCReplayMonitorCall.cfg`
(the count of a running replay rewritten), `MCReplayClearMidway.cfg` (a reset in a
replay). `ReplayExact` is far from inductive: whether the next word is right
depends on the RAM, on words still on their way to it, and on what the host may do
next. The invariant `ExactInv` says that there is a stage for each queue such that
the rest of the script is in order from there (`ToDo`), the words on their way are
those of the one queue that is loading (`InStage`), and for each queue:

* `Writer`, by stage: the RAM, with the write under way (`Eff`), holds the first n
  words of the trace and the others are on their way (`Taken`); then all of it and
  the end mark (`Ending`); then also an empty cell behind (`Kept`), which is what
  stops the prefetch at the end of a replay from entering the FIFO.
* `Reader`: outside a run the read machine is `Quiet`, with no pulse pending that
  could start it. In a run it rests (`Resting`: all that was promised is on the
  `Line`, FIFO and port together) or plays (`Playing`): the line is a beginning of
  what is promised and its length says which round and which word comes next
  (`At`), and that word is the one on the RAM's output or about to be read (`Shows`),
  also across a pause of the FIFO.

The proof splits an edge by machine (`WriterEdge`, `RestingEdge`, `PlayingEdge`) and
a host step by what it does to a queue's stage (`HostUse`, `HostInStage`,
`HostWriter`, `HostReader`). `Repeat` gives what a replay owes by position, word
((i - 1) % length) + 1 at place i, so no induction over data is needed (`Rounds`,
`RoundWord`). `StartsTaken` follows from the same invariant: a queue that has sent all
it owes and is pulsed rests with an empty FIFO, so `nearly_full` is low.

`RegisterAccess_proofs`, for any set of callers and any `MaxTag`:

* `RegisterTypeOK` and `OneCaller` with timeouts, signals and late answers.
  `OneAtATime` is inductive because it has the second part: while a caller is
  inside, the channel is not IDLE.
* `ReadsOwnAnswer` and `WritesReachCard`, with timeouts, signals and answers at any
  time: as long as no caller has given up, a successful write has reached the card,
  and a read has its own answer unless it took the value before the card had written
  it; a read that did so hands no wrong answer to those after it. Once somebody has given
  up both are false (`MCRegistersGivenUp.cfg`), and without the exception for
  early reads the first is (`MCRegistersEarlyWake.cfg`).
* `BufferHoldsStill`, if no caller gives up (`Patient`).

  The last three rest on `TransferInvariant`. Its
  `TransferInv` follows one request through the system: `RxPhase` relates the
  driver's send state to the card's receive machine and the pending causes,
  `ReadPhase` says where the request or its answer is (bounce buffer, inbox,
  answers, memory) and how far the answer's transfer is, also when its reader has
  left with a value that was there before (`TLeft`), `CallerPhase` ties the
  sleeping caller to both, `WritePhase` says when a write has left the buffer.

`CoreMonitoring_proofs`, for any number and lengths of packets (two words and
more), any match, any FIFO sizes and pipelines within `DepthAssumption`, any timing
of input, flag and output. `CaptureInvariant` (`Inv`): `pkt_fifo` is a stretch of
the traffic that ends where the stream begins (`Line`), the parser is where the
stream is (`Parser`), and the packets from the one to be decided next
(`ToDecide`) to the one whose header comes next (`ToParse`) are, each once and in
order, in the FIFO of decisions and then in the lookup pipeline; likewise the
tuples (`Results`). That the flush branch is dead needs distances: a packet in
stage i of a pipeline had its second word put into `pkt_fifo` i edges ago, so it is
among the last i words there, and every packet has two words. From `Inv`:
`StaysInStep`, `DecisionsInTime`, `DecisionsFit`, and with `Left` (what has left is
what the decided packets owe) `OnlySelectedLeaves`. An edge of the output machine
either stays, begins a packet, drops a word or goes on (`Stays`, `Begins`,
`DropsWord`, `GoesOn`). Hypotheses: the host does not clear `force_drop`
(`DropStays`; without it `InStep` is false, see `MCCaptureMisstep.cfg`), and for
the last one leaves the tuple mode alone (`TuplesStay`).

`Shaping_proofs`, for any traces, FIFO depths, rates, delays and number of register
writes:

* `OrderKept`: words leave in order unless a core was disabled with words in its
  FIFO. That the words in the two FIFOs are in order is not inductive: a core that
  is enabled again must find its FIFO empty, and the word on offer must come after
  all of them. `PortInvariant` says so: the line from the wire through limiter and
  delay rises and ends before `next`, and the FIFO of a disabled core is empty. A
  clock edge is up to three moves along that line, one lemma each (`WordLeaves`,
  `WordMovesUp`, `WordComes`), in the four combinations of enabled cores.
* `WordsOnce`: each word that came is in exactly one place, a reset included.
* `GapKept`: the limiter's timer against the rest of the gap of the last packet on
  the wire (`TimerTrue`), while the registers are left alone.
* `PacketsSpaced`: with the limiter off, packets begin on the wire at least the
  delay apart that was in force when the earlier one began. `DelayInv` says what
  the machine of the delay knows of the word at its output: its FIFO holds
  consecutive words, so that the state tells whether the next one begins a
  packet. Hypothesis: the words of the file follow one another as packets
  (`InPackets`).

`LatencyCapture_proofs`: `CaptureTypes` and `ReportsComplete`, for any number of
packets asked for, any traffic in the order of its times, and any loss. The
invariant `CaptureInv` has the order of the packets from the generator to the
results (for the different times) and, in the tcpdump version, that each packet
counted since the clear is missed, caught or on the wire (for their number).

`PacketCutter_proofs`, for any lengths of packets, cuts, words and hash (a hash
smaller than a word, a word smaller than the least cut), any number of packets and
any register writes:

* `PacketsApart`: until a cut without hash has met one of its limits, every packet
  leaves as one, in order. The invariant `CutterInv` speaks of the line of words
  still to come, in the FIFO and behind it: they are packets in order, none of
  which ends before its length says (`Input`); the next word belongs to the packet
  at the output, or to the one after it, as the state has it (`Output`); and a
  packet being cut does not end before the word its cut ends in (`Cutting`), which
  is what the counter of words alone does not tell. `WordTaken` says what becomes
  of the line when a word is taken, `PacketEnters` when one is begun; then there
  is one lemma for each state of the machine.
* `CutToLength` and `ClaimsItsLength`: a packet that passes while the host writes
  nothing leaves cut to the length set, with the hash behind it, or whole, and
  claims that length, after packets that ran together too. Left out are packets
  whose own cut begins at a stale count, and for the first those cut though the
  cut is disabled, for the second those with a word sent twice and those longer
  than the cut by no more than the hash (section 6). `LengthInv` (`LengthsHold`) says what the host has still to
  write and that otherwise words, offset and bytes of the cut fit each other
  (`Pending`), and in each state of the machine how the units out, the counter
  and the bytes free account for the packet at the output (`Stage`). Hypothesis:
  packets of at most 2048 words (`LengthFits`), which the length field of 16 bits
  implies; the counter is set to 2048 where nothing is cut.

`MonitorHost_proofs`, for any programs and scripts of the kind their hypotheses
name, any rows and columns of the filter, width of the counters, length of packets
and traffic, with accesses refused:

* `SnapshotHolds`: what one `get_stats` has read belongs to one instant, if the
  program's freeze stays in force until it lifts it itself: whatever was refused, and
  however many programs read. Hypothesis `ReadsFrozen`: each reads between its two
  writes of `stats_freeze`. That another program may lift the freeze is not ruled out;
  then nothing is promised, and nothing holds (`MCMonitorTwoReaders.cfg`). `SnapInv`:
  while a program in `freezers`
  reads, the counters stand (`Reader`), what it has read so far are counts of that
  instant (`Reading`), and bytes are packets times length modulo the width
  (`Sized`).
* `DisplayRight`: a display shows the packets that came since the one before or
  since the reset, though the counters wrap. Hypothesis: the scripts never reset
  (`NeverResets`), or one program is alone, ends its resets and freezes, reads
  before it shows and starts again between a reset and a display
  (`StartsAfterResets`). `RateInv`: the count is that of the packets since its base,
  modulo the width (`Counting`), and for a program that is alone, what the rest of
  its script will still do about a reset, a freeze and a reading that has begun.
  A window that resets between two refreshes does not start again, and the theorem
  is false for it (`MCMonitorReset.cfg`).
* `FilterLoaded`: when all programs are done and no access was refused, the card
  holds the filter asked for last, and so do the tables read back. Hypothesis
  `LoadsFilter`: one program sets the filter, after `InitMCli` or in a window, while
  others show statistics (`SetsFilter`); it fills the columns of a row right before its address
  (`WritesRow`), reads back only what it has written (`ReadsBack`), and at the end
  each row of the last filter is the last chosen in its tables (`Chosen`) and the
  last it wrote (`Stored`). Other programs' accesses fall between any two of its
  steps. `FilterInv` relates the part of the script that is done (`Left`) to the
  state: its tables (`OwnRows`), the card's (`CardRows`), the columns waiting in the
  write port (`Collected`), the row in the read port (`Fetched`), what was asked
  (`Asked`). `MCMonitorShow.cfg` is a call outside the hypothesis: it clears the
  filter and does not load it again.
* `RulesSpared`: no rule in force is replaced while packets pass, with accesses
  refused or not. Hypothesis `SparesRules`: a row is written before it first holds a
  rule of a file, or for the first time with one; or by a program that is alone, under the drop or where it had cleared the row. Also
  from `FilterInv`: a row not yet written is as at power-on (`Unwritten`), and a
  program that is alone keeps the drop until it writes the register (`LoneState`).

Only model-checked, and why:

* all liveness (`FallsThrough`, `ReplayCompletes`, `CallsReturn`, `ChannelFreed`,
  `CaptureCompletes`, `EndsWhenEnough`, `Drains`), which the prover cannot state;
* `LabelsTruthful`, `CallAsAsked`, `TimedIffStamped`, `RefreshHarmless`: they depend
  on the very order of the steps of every operation, which are flattened
  sequences, and facts about those need induction over data. For the same reason
  that the scripts of `monitor.py` meet the hypotheses of the theorems of
  `MonitorHost_proofs` is checked by TLC, on the scripts of `MCMonitorHost`;
* `EngineReleased`: within reach, not done.

Every named assumption is evaluated by TLC: each module that has one is
extended by the module of a passing run.

## 8. Not modelled

* Values with no influence on control: header fields, addresses, time stamps
  (but in `Shaping` and `LatencyCapture`), text. The mapping tables of the tools
  are their effect on registers.
* `load_pcap_only`, which no program calls; the host programs of osnt-extmem,
  which are copies of osnt's but for six lines of `axi.py`.
* The engine's bypass (`conf_path`), a register no host tool writes.
* Metastability and clock domains: each core has one clock here.
* Resets of the whole card in operation; only the FIFO's reset is modelled.
* Transfer sizes and scatter/gather lists beyond one element: the driver uses one.
* Vendored RIFFA internals beyond the ports the driver talks to, generated
  memory and MAC cores, board start-up, simulation models and build scripts.

## 9. Plan

1. Proofs: `EngineReleased` of the generator tools (which frame of the window has
   the write of the reset still to do).
2. `PacketChannel`: transmit and receive machines of the driver's channel 0 and
   `sume_rx_build_skb`, composed with the card's ports as in `RegisterAccess`;
   abstract specification: a lossy queue per port.
3. `InputArbiter` and `OutputQueues`: whole packets, no starvation; the receive
   queue of the 10G ports, which drops whole packets.
4. The conversions of the host tools (filter fields, delays, rates) as functions
   against reference definitions; the monitor window's refresh.
5. `tuple_pkt_en` changed between packets in `CoreMonitoring`; the external
   memory engine with its stamps.
