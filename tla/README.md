# Formal models of 74HC-Chiptune

This directory holds TLA+ models of the digital logic of 74HC-Chiptune: sound
chips built from 74HC parts, programmed by a host over a bus, and a CPU built from
the same parts. They follow the Verilog, register by register and clock by clock, and
abstract the data (byte width, envelope depth, ROM contents, programs) to parameters.

Run a model with `tlc -workers 2 -config X.cfg M`, check a proof with `tlapm M.tla`.

## 1. The system

### 1.1 Components

| component | source | state | operations | hard behaviour |
|---|---|---|---|---|
| SPFM front end of `wt_ram` | `rtl/wt_ram.v:115-145, 205-210` | transparent latch, two 2-stage synchronisers with edge detector, `reg_addr` | host opens / closes a strobe; clock; reset | two unrelated clocks; the byte is taken four clocks after the strobe opened, from a latch that the next strobe overwrites |
| host registers and mailbox of `wt_ram` | `rtl/wt_ram.v:147-256, 428-532` | `host_ch`, parameter shadows, `spfm_pending/op/ch/phase` | eight register writes; ten phases of a note_on; note_off | one-entry mailbox, no handshake back to the host; service only in idle clocks; a note_on is cut in two by a sample boundary |
| sample clock of `wt_ram` | `rtl/wt_ram.v:86-96, 193-197, 268-271` | `sample_cnt`, `ustep` | tick | decides when the microprogram or the mailbox owns the RAM |
| microprogram of `wt_ram` | `rtl/wt_ram.v:98-113, 271-427` | working registers, RAM address, `mix_sum`, `dac_out`, `ch_active` | 20 microsteps per channel in 32 slots | pipelined RAM reads, byte-wise 16-bit addition, registers shared by the channels, reset in mid-pass while the RAM has no reset |
| read-back of `wt_ram` | `rtl/wt_ram.v:156-159, 258-265` | `data_out` | read registers 00, 06 | `ch_active` is a copy of the envelope state that not all writers of the state keep |
| `wt_rtl` | `rtl/wt_rtl.v` | that of `wt_ram` plus `step_lo_r`, `step_hi_r` | the same | when the step registers latch |
| v1.4 bus | `rtl/wt3_spfm_bus.v`, `wt3_spfm_ram.v` | 373, 174 (3 + 2 stages), 377, 62256 | host strobes; clock; reset | delayed levels instead of pulses |
| v1.4 core | `rtl/wt3_core.v`, `rom/gen_wt3_microcode.py` | step counter, operand registers, accumulators and parameters in RAM, DAC register | 16 microcode steps per channel; bus writes; reset | `CS_n` switches address, data and /WE of the RAM and disables the registers, on a clock of its own, while the counter runs on |
| v1.4 shared RAM board, full v1 core | `rtl/wt3_spfm_mux.v`, `wt3_top.v` | parts of the above | | the same parts in other combinations |
| ROM-decoded bus | `rtl/wt_spfm_bus.v` | 373, 377 of the register number | bus writes | no synchroniser: the level of the strobe enables the registers |
| square-wave chip | `rtl/sq_top.v`, `tb/sq_tb.v` | frequency bytes, four 161, 74 at the output | bus writes; count; reload | torn frequency word; an output clocked by a rippling carry |
| MiniGlow CPU | `miniglow/rtl/miniglow_top.v`, `miniglow/sim/miniglow_sim.c` | program counter, 374s, segment, SRAM, coprocessor window | one instruction per clock; the host's MODE and RST_n; download | RTL against simulator; stopping, resetting and starting at any moment |
| PSG3 v0.5: bus and wave channel | `psg_voice/PSG3 v0.5/rtl/psg3_top.v` | address and data 374s, period counter, CD4029, 112 | port writes of the FT232H, pin by pin; rising and falling edge of the crystal | clocks made of gates from pins that move one after the other; a direction flip-flop on the other edge |
| other voices and boards | `psg_voice/` (PSG1 to PSG4, WSG3 v0.6, FM6), `wsg3/` | the same bus; other counters | | |
| earlier cores | `rtl/wt_top.v`, `wt_wsg.v` | parts of the above | | superseded |
| other CPUs | `Glowworm-1/`, `39040cpu/`, `fsm_player/` | program counter, registers | instructions | tables and compilers |
| tools | `rom/*.py`, converters | none | tables, files | none |
| vendored | `iverilog-master/`, `ice-chips-verilog-main/`, `Glowworm-1/compiler/` | | | third party |

### 1.2 Interaction

The host strobes (A0, D, /CS, /WR) on its own clock. The front end turns two
strobes, register number and datum, into a one-clock write of a register. Writes
to registers 00-05 fill shadows; 06 and 07 post a command into the mailbox. The
sample clock gives the RAM to the microprogram for `TOTAL_STEPS` clocks per sample
and to the mailbox for the rest. The two never access the RAM in one clock, but they
interleave between clocks: a note_on that starts late in a sample is finished in
the next, with a microprogram pass over the half-written record in between.

The v1.4 core has no mailbox: /CS takes the RAM from the microcode for as long as it is
low. The square-wave chip's registers are read by a counter that reloads whenever it
ends, also between the two bytes of a word. The PSG3 board has no bus clock at all: an FT232H moves
the port a byte at a time, and gates make the edges of the registers. MiniGlow shares nothing with
its host while it runs; the host stops it, resets it, takes its SRAM and downloads.

### 1.3 What makes each part correct

* Front end: every write takes effect exactly once, in order, with its own byte,
  before the host may send the next one; it always takes effect.
* Mailbox: no command is overwritten; a started channel has the parameters the
  host had written when it asked; every command is served.
* Envelope: whatever the RAM held before, a started channel stays in its four
  states, sustains at full level, is off at level 0, and fades out when released.
* Microprogram: the steps of a channel together do what one atomic pass would,
  resets included; the DAC shows the sum of the sounding channels.
* `wt_rtl`: the same as `wt_ram`.
* v1.4 core: a turn of a channel that the bus leaves alone adds the phase step to the
  accumulator exactly once, whatever was disturbed before; parameters keep what the host wrote,
  whenever it wrote it, but for one collision (3.3).
* Square wave: what the counter reloads is the host's word, or for the time between its two
  bytes a torn one, and the host's word is played in the end; the counter runs for the documented time, to the clock, and the
  output flips at its end.
* MiniGlow: a clock of the chips is an instruction of the simulator, exactly one while the CPU runs;
  when it does not run, nothing changes but what `Halt` of `MiniIsa` names.
* PSG3: a write reaches its register and no other in every order of the pins; the triangle turns
  without a jump; no register content stops the wave.

The hazards behind these, with their lines, are in `PROJECT.json`.

## 2. Modules

| module | what it is |
|---|---|
| `SpfmSpec` | abstract bus: a write in flight takes effect once, before the next |
| `SpfmHost` | the host's side of the bus: strobes of at least `Hold` clock edges, pauses of at least `Gap` |
| `SpfmSync` | front end of `wt_ram`; implements `SpfmSpec` (`ExactlyOnce`) |
| `SpfmSyncProofs` | proofs about `SpfmSync` |
| `Wt3Chain` | v1.4 front end: latch, delay chains, register number |
| `Wt3Bus` | `Wt3Chain` and a RAM write; implements `SpfmSpec` |
| `Wt3Core` | v1.4 core: `Wt3Chain` and the microcode at one RAM |
| `WtHost` | host registers, mailbox, sample clock of `wt_ram` (shared by the next three) |
| `WtSynth` | `wt_ram` with each channel's pass atomic: the abstract synthesiser |
| `WtSynthProofs` | proofs about `WtSynth`: pace, notes, envelopes |
| `WtMicro` | `wt_ram` microstep by microstep; implements `WtSynth` (`Atomic`) |
| `WtMicroProofs` | proofs about `WtMicro`, the refinement among them |
| `WtRtl` | `wt_rtl` on top of `WtMicro` |
| `Wt3BusProofs`, `Wt3CoreProofs` | proofs about `Wt3Bus` and `Wt3Core` |
| `SqTop` | square-wave chip behind its ROM-decoded bus |
| `SqProofs` | proofs about `SqTop` |
| `MiniInstr` | instruction formats, memory and coprocessor of MiniGlow (shared by the next two) |
| `MiniIsa` | `step()` of the C simulator, the pins by which a host stops and resets it, and what a clock does to a stopped CPU: the abstract machine |
| `MiniGlow` | the chips of `miniglow_top.v`; implements `MiniIsa` (`Lockstep`) |
| `MiniGlowProofs` | proofs about `MiniGlow` |
| `PsgTop` | bus and wave channel of the PSG3 v0.5 board |
| `PsgProofs` | proofs about `PsgTop` |
| `MC*` | TLC instances |

    SpfmSpec <== SpfmSync, Wt3Bus                        (SpfmHost: both environments)
    SpfmHost <-- SpfmSync, SqTop, Wt3Chain
    Wt3Chain <-- Wt3Bus, Wt3Core
    WtSynth  <== WtMicro <-- WtRtl                       (WtHost under all three)
    MiniIsa  <== MiniGlow                                (MiniInstr under both)
    X <-- XProofs <-- MCX                                (where both exist)

`<==` is refinement, `INSTANCE` with the abstract specification as a PROPERTY; `<--` is EXTENDS.

### 2.1 Correspondence

* Bus. `Open`/`Close` are the host's edges of /CS and /WR, `Clock` is one
  `posedge clk`. A host transition falls between two clock edges, so every
  phase relation is a behaviour. `age` and `tail` count clock edges since the
  strobe opened and closed. `inflight` and `regw` are history: the write that is
  still on its way, and the last register write with an alternating bit, so that a
  doubled write is a visible step. The host does not strobe while it holds /RST.
* `Clock` of `WtSynth`/`WtMicro` is the whole `always` block: one possible data
  write (`DataWrite`), the divider and step counter (`Tick`), and one branch of the
  sequencer. Verilog's nonblocking assignments are simultaneous: every right-hand
  side is unprimed, and where two assign the same register in one clock (`spfm_pending`,
  `spfm_phase`) the later in the text wins: `Served` is built over `Posted`.
  `mail.phase` survives a note_off, as `spfm_phase` does.
* A data write is any clock's pulse with a register number and a byte, at the pace
  of the host: `Wait` clocks between commands, and the parameters of the channel just
  commanded are left alone for as long. `quiet` and `asked` are history variables:
  clocks since the last command, and the parameters at the last note_on.
* RAM. The address is registered, a read is combinational, and the write of a clock
  is committed at its negative edge (`tb/wt_ram_tb.v:47-62`): a byte addressed at step s is latched
  at s + 1, and a write is visible in the next clock. An asynchronous reset between the two
  edges of a clock suppresses that write, which is a reset before that clock. RAM is
  not cleared by reset and arbitrary at power-on (`PowerOn`).
* The ROM is a parameter (`Rom`), byte widths, envelope depth and channel count are
  constants. `phase[12:6]` becomes the same bits of a smaller phase (`Index`).
  `mix_sum` is 16 bits in the code and cannot overflow: at most CHANS bytes.
  `env_rate_r` is latched but never read, and is left out.
* `settled` (in `WtMicro`) is the RAM as it was before the pass under way: the refinement
  mapping shows `WtSynth` the old record until the pass has written its last byte of
  it (step 17), and the torn record when a reset interrupts. The debug byte `O_DAC_OUT` is
  masked out of the mapping (`NoDac`), and out of the abstract power-on records; no logic reads it.
  `sums` is history too: the signed samples that the records of channels 0 to n - 1 asked for, added up;
  `DacExact` compares the DAC with it.
* `Wt3Core`: `Step` is `posedge STEP_CLK`, `Clock` is `posedge SPFM_CLK`, and `clk` counts the latter
  between two of the former (3 or 4 in the testbench, 10 MHz against 3.072 MHz). `ram_we`, `ram_addr`,
  `ram_di` are the 157s, with /CS as their select. A falling /WE starts a write (`WriteEnable`), from
  whichever source and also when /CS itself moves; `Commit` stores it 55 ns later at the address and datum of that
  moment. Clock edges wait for `Commit`: a microcode word reaches the RAM 55 ns after its edge, both
  clocks are slower than that, and the chain is empty when a strobe opens, so the edge and the store
  commute. `Latch` samples the RAM; until 55 ns after /CS has risen it takes any byte (`Read`).
  `params`, `host_reg`, `spoilt`, `start` and `clean` are history.
* `WtRtl` differs from `WtMicro` only in the second input of the adder.
* `SqTop`: `Open` puts the next of the four strobes of `write_freq` on the bus (`turn`), `Clock` is
  one `posedge` with every register that the decode ROM enables at that level. `/RST`
  masks the ROM and resets no register, so there is no reset action: to the chip it is a host that does not
  strobe. The output flip-flop is clocked by the last carry. The four
  chips do not change at one instant, so when chip i arrives at its end as the lower ones leave theirs, the
  carry may be up in between: `MayPulse` makes the extra clock of the 74 a choice.
  `word`, `prev`, `loaded` and `since` are history.
* `MiniGlow`: `Clock` is `posedge CLK`: the 374s, the counters, the SRAM write in the middle of the clock and
  the coprocessor. `Pins` are the host's moves of MODE and RST_n between clocks, with the asynchronous
  clear of counters and segment. The refinement mapping is the identity but for the program counter, which is the
  value of four chips. `MiniIsa` gives the instruction set its meaning from the C code, with 8-bit arithmetic modulo
  `DIGIT` squared, in `Run`. The simulator knows a running CPU only. What one clock does to a CPU with MODE or RST_n low is `Halt`, an
  exact description too and not a set of things allowed: no register changes; the program counter moves only outside reset and only if it stands
  at a jump that is taken; a write at which it stands goes to the coprocessor again, and to SRAM again while MODE is 1.
  `tick`, the parity of the clocks, is in both machines: a clock of the chips cannot pass as a stutter of the simulator,
  so a running CPU that loses a clock violates `Lockstep`.
  SRAM is a partial function: what was never written reads 0, as in the simulator.
* `PsgTop`: `Command` is one port write of `_bus_write`, `Pin` one pin of port D arriving; the driver sends
  the next command when the pins are there. `Edges` derives the clock edges from the gates. `Rise` and `Fall`
  are the edges of the crystal. `Reset` is the driver's pulse of RST_n between two writes. `folding` is history. Left out: volume,
  duty and mode, which reach neither counter, the square and noise channels, and the comparator.

## 3. Runs

| run | instance | shows | states |
|---|---|---|---|
| `sync` | Hold 3, Gap 1, three byte values | `ExactlyOnce` (refinement of `SpfmSpec`), `Delivered`, the proof's invariant `IInv` | small |
| `wt3_bus` | Hold 3, Gap 3 | the same for the v1.4 bus | 11 k |
| `wt3_bus_doc` | Hold 3, Gap 1 | *violation*: the documented pause of one clock is too short | |
| `synth_env` | 1 channel, two steps, resets, two power-on contents | `PaceInv`, `MailboxFree`, `NoteIntact`, `EnvelopeSane`, `ActiveTrue`; `Answered`, `FadeOut` under fairness | 119 k |
| `micro` | 2 channels, all 20 microsteps, 3-bit bytes, three families of RAM contents, resets, notes | `Atomic` (refinement of `WtSynth`), `DacExact` | 2.0 M |
| `rtl` | 1 channel, phase 0, step 1 | *violation*: the phase never advances | |
| `core_pass` | 1 channel, phase step written at any moment, resets | `CleanPass`, `ParamsKept` | 11.0 M |
| `core_doc` | 2 channels, strobes of 5 clocks, volume writes only | *violation* of `OwnStep` | |
| `sq` | 2-state chips, five words | `ReloadsWord`, `Pitch`, `InTune` under fairness | 171 k |
| `mini` | 3-state chips, families of programs | `Lockstep` (refinement of `MiniIsa`) | 780 k |
| `mini_doc` | the same | *violation* of `StoppedHolds`: a stopped CPU jumps | |
| `psg` | counter of four states, four levels, three registers | `Landed`, `OnlyTarget`, `Turns`, `Sounds` under fairness | 459 k |

Every passing run also checks the type invariant of its module.

### 3.1 Bounds, and why they are enough

* Bus: edge counts saturate at `Cap` = Hold + Gap + 4, beyond the longest chain and every
  guard, so nothing that the logic can tell apart is lost; the proofs hold for every Hold and
  Gap that their assumptions admit. Hold 3 is the documented minimum; three values distinguish a
  byte, another and the reset value.
* `synth_env`: a pass of two clocks and a sample period of 13 (T + 11) put every clock of a
  ten-phase note_on against every position of the sample boundary. `Wait` = T + 12 is tight: one less violates
  `MailboxFree`. In the device it is 140 clocks; the project's README asks for 312 between
  note_ons (3.3). With one channel the host has no other note to prepare while a command waits; that what it writes for another channel
  does not reach the note under way is the theorem `SynthNoteIntact`, for every number of channels. Envelope levels 0..2 have a bottom, a middle and a top;
  rates 0 and 1 fire at once and later. Power-on contents: cleared, and
  an undefined state with level and counter at their maximum. More channels and steps are covered by the proofs.
* `micro`: bytes of three bits keep carry, wrap-around and undefined states; the microprogram is not
  shortened. A step of 36 in a phase of 64 visits sums with and without a carry in both bytes. TLC starts from
  three families of RAM contents (`MCInit`): two voices to mix, on and off, loud and soft; every envelope state
  beside a channel that moves; and a cleared or wild record on which the host plays notes. The host plays only
  beside a silent neighbour (`Played`): that a neighbour does not matter to a note is the other families' result. SAMPLE_DIV
  has the T + 11 clocks that a note_on needs.
* `core_*`: bytes of two values, so a channel has four phases, and the two
  steps the host switches between carry and wrap; the microcode is not
  shortened. `MaxHold` bounds a strobe: in `core_pass` three or four clocks, with two or three to a microcode step, so
  a strobe hides one step, two, or falls between two; in `core_doc` five, as in the testbench. In `core_pass` the host
  opens /CS at any moment, also in the 55 ns in which a microcode write is under way: the write then
  ends on the host's side of the multiplexers. Under a data strobe it stores the host's own datum a little early. Under an
  address strobe it stores the number on D in the register named before; `spoilt` records that register until
  the host writes it again, and `ParamsKept` is claimed of all others, and of it from then on. The circuit offers the host no way to avoid it, and no host
  assumption in run or theorem does. `Polite` (no such opening) and `Settled` (no sample of undriven
  outputs) are TRUE in `core_doc` only, where they narrow the host so that the counterexample uses nothing but skipped registers.
* `sq`: chips of two states make a word of four bits with all three carries. The words are 0 (longest), 6 (a
  carry through the third chip), 13 and 14 (the shortest that sound) and 15 (the silent one); strobes
  and pauses of one clock are the shortest, so a reload falls between any two strobes, and torn words add others. `since` saturates at `Long`,
  the longest half period, which it never reaches.
* `mini`: with chips of three states a byte has nine values, which is the least that holds an address of eight
  registers and one beyond them, and all four chips carry and wrap. The programs set segment and low address, load
  both operands and then run every instruction of one set and one of another, so that every source, destination, window
  and branch meets; `Long` runs the program counter through its carries to the wrap. The theorem has no such bound.
* `psg`: a period of two times two states, four levels (two ends and two in between). Every data byte has the bits of all the
  addresses set, the worst that the address register can catch. The wave forms are down, triangle and one of the
  up-counting ones, which the channel's two counters cannot tell apart.

### 3.2 Fairness

`FairSpec` of `SpfmSync`, `Wt3Bus`, `WtSynth` and `SqTop`, and `RtlSpec`, have weak fairness of the clock action, `Spec` of
`PsgTop` of its two edges: the oscillator never stops. An edge never waits for the host, so weak fairness
says no more than that. Nothing is assumed of the host: it may hold a strobe for ever, or never
send; every liveness property has the host's or a reset's interference as an alternative outcome.
`Answered` and `FadeOut` hold with resets: a reset cancels the command or stops the fade, and that ends the
obligation. `InTune` ends when the host goes on to another word, `Sounds` when it writes or resets again and again.

### 3.3 What the models found

* `wt3_bus_doc`: `docs/wt3-spfm-bus.md:29-33` allows a pause of one clock. The 377 of the
  v1.4 bus stays enabled while a delayed copy of the strobe is high, and needs three.
* `rtl`: `wt_rtl.v` latches its step registers one clock early and adds the phase to
  itself; its header and `docs/wt-development.md:311` say it equals `wt_ram.v`.
  The recorded `wt_rtl_ram.csv` agrees with the model: a level that follows the envelope and does
  not oscillate.
* `core_doc`: a bus access hides whatever microcode steps it covers. `docs/wt3-architecture.md:327-329`
  counts missed DAC edges only; the operand registers are missed too, and then a channel adds its neighbour's
  phase step. The document's result at line 338 shows it: an odd accumulator with an even step, from 0.
* `mini_doc`: the comment at `miniglow_top.v:369` says that in MODE 0 the program counter and the registers hold and
  no instruction is executed. `pc_load` (line 333) does not wait for `cpu_run`, so a CPU stopped at a jump takes it. With RST_n
  low as well, as a download has it, the clear of the counters hides this.

Met on the way, without a run of their own:

* `wt_ram`: the pace that `synth_env` and its theorems assume, T + 12 = 140 clocks between commands in the device, is needed. README.md:167-169
  says that the host can drive the bus asynchronously and asks for a wait between note_ons only, and the release sequence of
  `tb/wt_ram_tb.v:162-168` sends its note_off commands 126 clocks apart: a note_off that arrives at the start of a pass
  is overwritten by the next one. `Wait` = 126 with the device's constants violates `MailboxFree`.
* `wt3_core`: the collision that `spoilt` records. An address strobe that opens within 55 ns of a microcode /WE puts the new register
  number into the register named before it. Nothing in `docs/wt3-core.md:54-60`, which lists the multiplexers, mentions it, and nothing denies it.

* `wt_ram`: an `env_cnt` of 1 above a rate of 0 is reachable when a
  sample boundary splits a note_on between phases 6 and 9. `EnvelopeSane` names it; the
  next comparison is `>=`, so it disappears with the next sample.
* `sq_top`: with word 65535 the last carry stays up and the output is silent; `docs/sq-design.md:25`
  gives it half the clock frequency ("65535 | 1 | 894 kHz"), which the circuit contradicts: `sq_q` has no edge to flip at. `Pitch`
  makes no claim about that word, neither the document's nor the circuit's; all others it covers.
  A torn word may sound for one half period, and a carry between chips may add an edge (`MayPulse`) where `Pitch` says.
* `miniglow_top`: the write strobes of SRAM and coprocessor (line 304) do not wait for `cpu_run`
  either: a CPU stopped, or held in reset, at a write repeats it at every clock, which `Halt` states. With MODE raised before RST_n, the order of `miniglow/docs/ft232h-comm.md:259`,
  the first instruction writes SRAM during reset if it is a write. A source that no chip drives
  floats in the RTL and reads 0 in the simulator; `IsProgram` leaves such instructions out.
* `psg_voice`: `uni_sim.c:62-68` reloads its counter at 4095 and not after it, so its period is one clock shorter than its comments
  (lines 6-10 and 61) and the circuit have it. It also turns the direction only in the triangle, where the
  112 of the circuit toggles in every wave form; what the triangle starts from differs. A triangle selected
  between a falling and a rising edge may wrap once before it folds; `Turns` has the exception.

### 3.4 Mutants

Every property of a passing run is broken by a mutant of a mapped definition: a
missing edge detector, a history stage fed too early, a forgotten reset list, a
divider off by one, a note_off that is never struck from the mailbox, a command that finds the phase of the one
before and starts in the middle, a counter that is not cleared, a lost carry, an attack without top, a muted channel that is
mixed, a second write without an edge of /WE, an undecoded register number, a reload one count
early, a counter enabled by the wrong carry, an output that is never clocked, a write enable or a count enable without its gate, pins that move in
another order, a turn at one end only, and so on. They stand before the definition they change.

## 4. Proofs

| theorem | says | for |
|---|---|---|
| `SyncTypeOK`, `SyncIInv` | `Spec => []TypeOK`, `Spec => []IInv` | every `Val`, and Hold + Gap >= 4 |
| `SyncExactlyOnce` | `SpfmSync` implements `SpfmSpec` | same |
| `Wt3TypeOK`, `Wt3ExactlyOnce` | `Wt3Bus` implements `SpfmSpec` | every `Val` and Hold, Gap >= 3 |
| `SynthTypeOK` | `Spec => []TypeOK` | every channel count, width and depth |
| `SynthPaceInv`, `SynthMailboxFree` | no command is overwritten | SAMPLE_DIV >= T + 11, Wait >= T + 12 |
| `SynthNoteIntact`, `SynthEnvelopeSane` | notes carry their parameters; envelopes stay sane | same, every power-on content |
| `SynthActiveTrue` | no channel reported as active has its envelope off | same |
| `MicroInvariant`, `MicroTypeOK` | what every microstep finds; the widths of its registers | every channel count, width, depth, wavetable, power-on content and host; SAMPLE_DIV > T |
| `MicroAtomic` | `WtMicro` implements `WtSynth` | same |
| `MicroDacExact` | the DAC shows the signed sum of the samples | same |
| `CoreTypeOK` | `Spec => []TypeOK` of `Wt3Core` | every channel count, width, wavetable, clock ratio |
| `CoreParamsKept` | parameters that no address strobe has spoilt hold what the host wrote | Hold >= 2, Gap >= 3, strobes at any moment of a write |
| `CoreCleanPass` | an undisturbed turn is exact | `MinClk` >= 1, any host that satisfies the above |
| `SqTypeOK`, `SqReloadsWord`, `SqPitch` | what is reloaded; that a word below the highest runs SIZE - FREQ clocks and flips the output before each reload | every digit width, word set, Hold and Gap |
| `GlowTypeOK`, `ChipsLockstep` | `MiniGlow` implements `MiniIsa` | every digit width >= 3, download, and program of the instructions that simulator and chips both define (`IsProgram`) |
| `PsgTypeOK`, `PsgLanded`, `PsgOnlyTarget`, `PsgTurns` | the bus writes what it should; the triangle does not jump | every width, number of levels and datum |

*Front ends.* `ExactlyOnce` is not inductive: it says nothing of the flip-flops. `IInv` says
that every stage of the chain of the current strobe is determined by `age` and
`tail` (`Open0`-`Open3`, `Stage1`, `Stage2`), that the other chain only drains
(`Drains`), and that a write is in flight exactly while `age` < 4 (`Flight`). With Hold +
Gap >= 4 a strobe can open only when the previous one has been taken: that is where
the assumption is used. The theorem is wider than the documentation's pulse of three
clocks: a pulse of one is enough if the pause makes up for it. For the v1.4 bus `ChainInv` gives every flip-flop in closed form
(`Reached`): a request is in flip-flop i when its strobe opened at least i clocks ago and closed fewer than i ago. There
the pause alone counts, because the 377 stays open for three clocks after the strobe, however long it was; run
`wt3_bus_doc` shows that the bound cannot be left out.

*Mailbox.* `Left` counts the clocks until the mailbox is empty: what is left of the microprogram,
the phases still to serve, and a whole pass more if they do not fit in what is left of
the idle period. `InTime` says that clocks since the command plus `Left` never exceed T + 12, and
`InStep` ties the step counter to the divider, without which `Left` could grow at
a sample boundary. A command that is due at `Wait` >= T + 12 therefore finds the mailbox empty.
The type theorem needs a lemma per byte of a pass, as `Pass` does modular arithmetic
over a byte width that is a parameter.

*Records.* `NoteIntact` alone is not inductive: of a note_on under way it says nothing. `NoteUnderWay` adds that the bytes already
written are the host's, and that the host's parameters are those asked for; it is preserved because the microprogram writes
no parameter byte (`PassKeepsParams`) and the host leaves a commanded channel alone while its command waits, which is
`PaceInv`. `SynthEnvelopeSane` rests on the same lemmas and on what a pass does to state, level and counter.

*Activity bit.* Phase 9 of a note_on sets the bit without looking at the state, which phase 5 wrote, perhaps a pass earlier.
`ActiveUnderWay` fills the gap: from phase 6 on the state is ATTACK or SUSTAIN, which no pass turns off (`PassActive`), and no other
command gets in between, which is `PaceInv` again. The converse of `ActiveTrue` is false: after a reset the
bit is 0 and the envelope runs on until its next pass; and a note_off for a silent channel makes the next pass
report it as active until the release, from level 0, has ended.

*Microprogram.* Neither `Atomic` nor `DacExact` is inductive: they say nothing of the registers between two steps. `MicroInv`
says what each microstep finds. `RamInv`: the RAM is the settled one but for the first `WrittenAt` writes of the pass under way,
which is `Torn`, the record that `WtSynth` allows a reset to leave. `AddrInv`: the address on the pins is that of the step
before, so a read returns what the pass found (`ReadsFound`); this needs that no byte is read after the pass has written
it. `PhaseInv`, `EnvInv` and `ToneInv` say what accumulator, carry, envelope registers and ROM address hold, in terms of the record the pass
found; `PassBytes` shows that two additions of bytes with a carry between them are the addition of words in
`Pass` (`WordSum`, for every byte width), and `EnvelopeStep` that step 14 is `NextState`, `NextLevel` and `NextCnt`. Then only step 17
changes the abstract record (`PassWritten`, `PassSilent`), and a reset leaves `Torn` (`ResetRefines`). `MixInv` is the argument for the DAC:
the unsigned mix exceeds the signed sum by one `BYTE` for every negative sample, so the two agree modulo `BYTE`, and the clamp comes after the DAC
has its byte; `BoundInv` bounds the mix by the samples in it, which the type of `mix_sum` needs. `InStep` keeps a sample from starting in
the middle of a microprogram. That is where `PeriodAssumption` is used, the only one beyond types and ranges: the period is longer than the
microprogram, 312 clocks against 128 in the device (`wt_ram.v:86-96`).

Because `WtMicro` implements `WtSynth` with the host half unchanged, what is proved of `WtSynth`'s records holds of the settled RAM of
`WtMicro`, under the pace assumptions of those theorems. This last step is an instance of the theorems of `WtSynthProofs`, which this prover
cannot take from a module it instantiates; for the same reason the facts about the host half stand in both proof modules.

*v1.4 core.* `HostInv` follows a bus write through the chain: a request is in its own chain only and drains in the pause
(`Requests`), the 377 has the host's number four clocks after its strobe (`Named`), a write under way
is the microcode's, to an accumulator byte, or the host's, to the number it named, or the microcode's under an address strobe,
to a number that is in `spoilt` (`Writer`), and the RAM agrees with the host but for the cell of a data strobe that the RAM has not stored
yet and the spoilt ones (`Agrees`). When a strobe opens over a microcode write, the chain is empty and the 377 has settled, so the write
goes on and ends at the number the host named before. Hold >= 2 makes the host's own store fall
into the strobe, Gap >= 3 empties the chain before the next one. `TurnInv` says
what each of the 16 steps of an undisturbed turn has left in the three registers and in the accumulator's two bytes, before
and after each write; with it the adder shows the sum from step 10 on. The first read of a turn needs the
bus to have been closed for 55 ns, which `MinClk` >= 1 and the step before it provide.

*Square wave.* `WordInv` has the content of the strobe, of the register number and of both bytes at each of the four
turns, before and after the strobe has met a clock; the reload is then one of three words. `PlayInv` says that the four chips, read as
one number (`Reading`), stand at `loaded` + `since`. It is inductive because four chips, each enabled by the carries below it, count
as one (`CountReads`, from `Count2` for a pair of chips), and because a load of digits is a load of their number (`LoadReads`). The last carry is then up
exactly at the highest number, and `PulsePlaces` has the three readings at which a carry between chips may add an edge.

*MiniGlow.* The refinement is a step-by-step simulation; the work is arithmetic over any base: two adders with complemented
operands are subtraction modulo the square of the base (`TwoDigits`, and the lemmas after it), and four counters
enabled by the carries below them are one counter. `OffStep` does the clocks of a CPU that does not run: `Halt`, conjunct by conjunct.

*PSG3.* `PinsInv` says that each pin is where the last command or the one before it wants it, so the edges of address and datum
can only arise in commands 1, 3 and 7; `BusInv` what port and registers hold from each command on. `WaveInv`
is the half-clock argument: between the falling and the rising edge a folding triangle is never at an extreme that it would wrap.

The assumptions are those of the modules (`HostAssumption`, `SynthAssumption`, `CoreAssumption`, `SqAssumption`,
`DigitAssumption`, `GlowAssumption`, `PsgAssumption`: types and ranges of the constants) and, for the
results about pace, `PaceAssumption` of `SpfmSyncProofs` and of `WtSynthProofs`, `PeriodAssumption`, `ChainPaceAssumption`, `ReachAssumption` and
`ClocksAssumption`. The runs `sync`, `synth_env`, `micro`, `wt3_bus` and `core_pass` extend these modules and evaluate them.
`MicroAssumption` is met by the device: 32 slots per channel for steps 0 to 18, bytes in RAM and ROM. `AbstractParameters` shows that the
instance of `WtSynth` satisfies the assumptions of `WtSynth`.

### 4.1 Only model-checked

Liveness (`Delivered`, `Answered`, `FadeOut`, `InTune`, `Sounds`) is beyond the prover: it needs ENABLED for fairness. Every invariant and every
action property of the passing runs, and the four refinements, are proved. TLC has also evaluated `MicroInv` as an invariant of
the instance `micro`, before it was proved; with it the run takes four minutes, so it is not listed in
`MCWtMicro.cfg`. `PsgTop` and `SqTop` refine no abstract module; their properties are actions.

## 5. Plan

1. Done: the front ends and their refinement proofs; mailbox, sample clock and records with their proofs; the
   microprogram and its refinement; `wt_rtl`; the v1.4 core with the proofs of both its invariants; the
   square-wave chip and MiniGlow with the proofs of all their safety properties; bus and wave channel of PSG3 v0.5.
2. Next: the square and noise channels of PSG3, whose counters are those of `PsgTop`; the
   composition of `SpfmSync` and `WtSynth`.
3. Then: the Glowworm-1 CPU as MiniGlow was done, from `Glowworm-1/rtl` and its simulator.
4. Proof: whatever these add; all safety properties of the modules that exist are proved.

## 6. Not modelled

Metastability beyond the choice of the clock edge that sees a strobe; propagation delays, except that
a 62256 write happens after the 377 has settled and takes time in `Wt3Core`, that carries ripple in `SqTop`
and that pins move one by one in `PsgTop`; analogue mixing; the contents of the ROMs; bus reads;
chips whose model is one gate.

Most lines of the repository are not its own logic. `iverilog-master/` (a Verilog simulator), `ice-chips-verilog-main/` (a chip library) and the
compiler trees under `Glowworm-1/` (among them the C++ of `compiler/`) are third-party code that the project
carries along: they are tools, not parts of the sound chips, and nothing in the circuits calls them. The project's own C and Python
generates tables and audio files, without state beyond a loop. So the modules cover the Verilog of the
boards and the simulator of MiniGlow, and a line count over all languages shows little of it.

The remaining components and the reason for each are in `PROJECT.json`.
