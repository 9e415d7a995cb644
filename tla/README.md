# Verification of the modular control system

TLA+ modules for the RTL peripherals and drivers of the repository (`src/`), the
TLC configurations that check them on small instances, and theorems proved with
TLAPS for every value of the constants.

## The system

A DE10-Lite FPGA holds a Nios V processor and a set of peripherals. Each
peripheral is an AXI4-Lite *wrapper* in front of a *register block*, which drives
a protocol *core* or pins. The wrapper turns the five AXI channels into one
internal MMIO channel (`req_*` / `rsp_*`, valid/ready, one access outstanding).
C drivers (`src/sw/drivers`) read and write the registers by polling. There are two
programs: the motor application (`src/sw/app/src/main.c`) steers two motors from the
switches; the bring-up program (`src/base_main.c`) configures two sensors and then
drives the motors and shows measurements.

| Part | State | Operations | Talks to |
|---|---|---|---|
| `axi_lite_i2c.sv`, `axi_lite_spi.sv` | one held beat per request channel, one staged request, B and R registers | capture, stage, issue, answer | bus master, register block |
| `axi_lite_gpio.sv`, `axil_lite_seg7_debug.sv` | held beats, seven-state machine | same | same |
| `axi_lite_pwm_motor.sv`, `..._raw.sv` | nine-state machine, payload registers without valid bits | same | same |
| `pwm_subsystem_motor.sv` and below | shadow and active registers, H-bridge masks, pending APPLY, counter, response routing | register writes, APPLY, commit, count, compare, drive the bridge | wrapper, motor pins |
| `spi_regs.sv` and the vendor `spi_master.v` | control, sticky status and interrupt bits, pending START; shift core state, half-bit counter | START, clear, byte transfer | wrapper, device, interrupt |
| `i2c_regs.sv`, `i2c_master_core.sv` | sticky results and faults; phase machine, tick counter, divisor, shift registers | command, abort, phases, faults | wrapper, open-drain bus |
| `gpio_regs.sv`, `gpio_regs.c` | output, direction, synchroniser, edge flags, polarity | W1C, edge detection, driver calls | wrapper, pins, interrupt |
| `seg7_debug_*` | control, software value, points, blanking | register writes, display | wrapper, digits |
| `uart_*`, `sync_fifo.sv` | baud counters, shift registers, FIFO, output stage | send, sample, queue, offer | wire, reader |
| `hd44780_*` and the rest of `src/rtl/common` | command sequence; combinational helpers | — | — |
| drivers `spi_regs.c`, `i2c_regs.c`, `pwm_regs.h`, ... | program counter, local buffers | polled transfers with bounded waits (I2C) or unbounded ones (SPI) | register blocks |
| `main.c` | last switches seen | poll, stop the motors, write a setting, show it | PWM, switches, display |
| `base_main.c`, `adxl345.c`, `i2c_mpu6500.c` | what was read of the sensors' configuration, commanded duties, counters | configure, poll, command, show, move the LEDs | sensors, motor driver, display |

What is hard in it: five channels that move independently over one request
channel; responses that wait while the next access runs; configurations spread
over several registers that must take effect as one; sticky bits set by hardware
and cleared by software in the same clock; software that polls a status while
the hardware below moves on; clock stretching, aborts and timeouts on the I2C
bus; programs that are restarted over peripherals and sensors that are not; two baud
clocks that are not in step. There is no dynamic memory and, in the application, no second thread and no
interrupt handler; concurrency is between clocked blocks, the bus master and
the outside world.

`PROJECT.json` lists the components, the hazards at their lines, and the map
from each definition to the lines it stands for. Of the wrappers that are copies of
one another (GPIO and seven-segment, motor and raw PWM) the map names the lines of
one copy for some definitions and of the other for others; they are the same text.

## Conventions

- One step is one rising clock edge. Combinational signals are operators with
  their RTL names; registers get their next value from the values before the
  edge, and when a clocked block assigns a register twice the later assignment
  wins, as with nonblocking assignments.
- Data is abstracted to what the properties tell apart: an address is a model
  value, a payload (data and byte strobes together) another. A response is its
  data and one error bit.
- `NoBeat`, `NoReq`, `NoRsp` stand for a register whose valid bit is 0; the stale
  payload behind a cleared valid bit is never used by the RTL and is left out.
- Reset is the initial state; there is no reset while running.
- An operator preceded by "Faulty variant" is a plausible mistake in the
  definition it stands next to. No specification uses it; substituted for its
  neighbour it makes the property that guards against the mistake fail.

## Modules

- `AxiLiteBus`: the bus master (external: the Nios V data manager and generated
  interconnect are not in `src/`) and the register file as an access sees it. The
  master is any master that follows AXI4-Lite: it holds VALID until READY, and it
  leaves at most `MaxOutstanding` beats of a kind unanswered. AW and W move on
  their own, so half a write may be there for ever.
- `AxiLiteSlave`: **the abstract promise of a wrapper.** AW and W beats are queued
  apart and paired in order; a write is executed once, after both were taken; a
  read returns the register at its execution; each executed access puts one
  response in its queue, which only the master removes.
- `MmioTarget`: the register block as a wrapper sees it.
- `AxiLiteHold` (I2C, SPI), `AxiLiteGpio` (GPIO, seven-segment), `AxiLiteMotor`
  (PWM): the three wrapper designs, each shown to implement `AxiLiteSlave` by a
  refinement mapping (`Promise == INSTANCE AxiLiteSlave WITH ...`). The last two hold
  the same registers in different state machines; `AxiLiteMachines` puts either of
  them behind its bus master.
- `PwmPromise`: **the abstract promise of the motor PWM** to software: register writes
  change nothing until an APPLY, which makes all of them take effect together, at
  once or later.
- `PwmMotor`: the motor PWM subsystem with its registers, commit logic, timebase,
  comparators, bridge outputs and response routing. Masks are sets of channels.
  `PwmMotor` implements `PwmPromise`.
- `MotorApp`: `main.c`, one register access a step, over `PwmPromise` and `Seg7`. The
  switches change at any moment and the program can be started again at any moment.
- `Seg7`: the seven-segment registers as functions from record to record, and what
  the core lights; used by both programs.
- `GpioRegs`: the GPIO block clock by clock, with any pins changing, and the calls of
  `gpio_regs.c`, whose accesses may be any number of clocks apart. All registers are
  sets of pins. INPUT_POL and IRQ_MASK, which no call writes, are written by software
  at any time.
- `Sensors`, `BringUpMath`, `BringUp`: the bring-up program, one driver call a step: the
  configuration of the sensors, the integer arithmetic of the display, the sweep and
  the LEDs, and the loop. `mpu6500.h` and the signed motor driver it includes are not
  in the repository; their calls are external, modelled from how they are used: they
  do what `i2c_mpu6500.c` and the comments at the calls say, or fail without effect.
- `Uart`: transmitter, wire, receiver, FIFO and output stage, clock by clock, each side
  with its own baud generator, between a peer that sends when it likes (while there
  is room) and a reader.
- `SpiRegs`: the SPI register block with the vendor core under it. A step is a
  clock in which the wrapper may make any request. The core is its FSM, clock
  divider, half-bit counter and flags; a byte is a value that goes in when it is
  taken and comes out when it is complete, so the shift registers, SCLK and MOSI
  are left out, and the device answers with any byte.
- `SpiDriver` EXTENDS `SpiRegs` by the functions of `spi_regs.c`: `pc` is the next
  register access, and any number of clocks may pass between two accesses. A read
  sees the registers in the clock that accepts it, as the read mux does. The
  application calls in any order the functions named in `Calls`; `adxl345.c` uses
  `spi_init` and `spi_transfer_byte_blocking` only.
- `I2cCommands`: **the abstract promise of the I2C core** to the register block: a
  legal command runs while `cmd_ready` is low and ends in HOLD, in IDLE after a
  STOP, or in the recovery.
- `I2cMaster`: `i2c_master_core.sv` clock by clock, synchronisers, filters, watchdog
  and divisor included, on an open-drain bus with one device; shown to implement
  `I2cCommands`. The register block launches any command or abort in any clock.
- `I2cDriver` EXTENDS `I2cCommands` by the registers of `i2c_regs.sv` and the blocking
  calls of `i2c_regs.c`, one register access a step. A call is a row of commands
  (`Command`), each of which goes through the same accesses. It runs on the promise,
  not on `I2cMaster`: the core may take any time, fail at any point of a command, and
  be in any state when `i2c_init` starts.
- `MCBringUp`, `MCUart`: the samples, bytes and rates of the runs.
- `AxiLiteHoldProofs` (all the wrappers), `PwmMotorProofs`, `MotorAppProofs`, `GpioProofs`,
  `BringUpProofs`, `SpiProofs` (register block, core and driver), `I2cProofs` (core and
  driver), `UartProofs`: theorems and proofs.

How state corresponds: variables have the names of the RTL registers they stand
for. In `AxiLiteHold` a `*_hold_valid` / payload pair is one variable
(`aw_hold = NoBeat` is `aw_hold_valid = 0`), as is `req_pending` and its fields, and
the register block's `rsp_valid`, `rsp_rdata`, `rsp_err` (`rsp`). In `PwmMotor` the
records `shadow` and `active` hold the registers of `pwm_regs_common.sv`,
`hb_shadow` and `hb_active` those of `pwm_regs_hbridge_ext.sv`. `applied`,
`undisturbed` and `high` are history variables: no action reads them. In
`SpiDriver`, `wire` (the bytes exchanged since the call began) and `owed` (STARTs
written whose byte is not complete) are history too; only the assumption `Patient`
reads `owed`. In `I2cMaster`, `scl_line` and `sda_line` are the two synchroniser flops
and the three history flops of a wire, `tx_reg` and `rx_reg` are sequences of bits in
the order of the wire, a wire or output is TRUE when it is released; `loaded` and
`seen` are history (what a byte command loaded, the wire at each SCL pulse of the
byte) and `disturbed` says that the device has moved SDA during a pulse, which it may
do once in a byte. In `I2cDriver` `phase` is what `cmd_ready` and `bus_idle` tell of the
core, `sticky` the set of latched results, and a byte to write is known by its place
in the call; `gave_up` and `wire` (the commands carried out in this call) are history.
In `AxiLiteMachines` `state` is `state_reg` or `current_state`, and `aw`, `w`, `ar` are the
held beats of the one and the payload registers of the other. In `MotorApp` `written` is
what the PWM's registers hold, `running` what drives the motors, and `pc` the next
access. In `GpioRegs` `before`, `risen`, `fallen`, `known`, `view` and `differed` are history:
the levels one clock ago, the edges since their flags were cleared, and what
`read_port` has returned since then. In `BringUp` `asked` and `applied` are what the
motors were told and what they do, `tick` is both `motor_tick` and `led_step`;
`failed`, `sweeping`, `swept` and `shown` are history. In `Uart` `sent` holds the bytes sent
and not yet read: history, looked at only by `Room`, the condition on the peer.

## Runs

| Run | Shows | Bounds |
|---|---|---|
| `hold` | the I2C wrapper behind a master with two accesses of each kind under way, and the SPI wrapper behind a serial master: no beat lost or answered twice, responses stable on the bus, the promise implemented, every complete write answered, reads not blocked by half a write | one good and one erroneous address, one payload and the reset value, `MaxOutstanding` 2: a beat on the channel, one in the wrapper, and one being answered are all occupied at once |
| `machine_wrappers` | the GPIO wrapper behind the same master, and the PWM wrapper behind a serial one: the promise implemented, every complete write answered, and every read, of the GPIO wrapper once no complete write competes | one good and one erroneous address, two payloads, `MaxOutstanding` 2 |
| `pwm_motor` | with any order and timing of register writes and APPLYs: the counter stays inside the period, each period is high for its saturated duty, what runs is what was applied, the legs switch only between periods, the promise to software is kept, every APPLY takes effect, requests are answered | one channel (channels share only the counter), default period 5, periods {1 (clamped to 2), 4}, duty {5} (above and below the period), two bridge masks |
| `motor_app` | switches flipped and programs restarted at any moment: the motors never run a mix of two settings, they end up running what the switches say, and the display tells the setting that was last commanded | two duty positions (duties 200 and 500), both motors and directions, two starts: one that interrupts an update, and the one after it |
| `gpio` | pins that change at any clock, also between the two accesses of a call: no flag without an edge, polarity changes included; a pin that software has read at two levels is named by `read_edge` | one pin: pins share no state but the call under way |
| `bring_up` | over sensors left in any state, one failing call anywhere, wiring that comes loose: the loop runs only over configured sensors, the motors follow the commands and never run apart, pages tell what they name, sweep and LEDs move smoothly, the program starts up | ADXL345 left with DATA_FORMAT 0 or in 3-wire mode with another range, MPU-6500 registers left 0 or with another range, one failure, one sample with full scale and small values of both signs, sweep of 4 ticks for 80 and a wrap at 11 for 2^32, which is not a multiple of the sweep either |
| `bring_up_temperature` | counterexample: at 24 °C the page reads 69 °F | as `bring_up` |
| `uart` | bytes sent at any moment, back to back too, arrive each once, in order and whole, in any phase of the two baud clocks; a spike of one clock on the idle wire is no byte | 16 ticks to a bit as in the code, bytes of 2 bits (first and last; a bit between adds no state), divisors (3, 3), the least at which bytes may follow each other without a gap, and (6, 5), FIFO of 2; a peer that leaves room, a reader that drains the FIFO once it reads. That bytes arrive whole and in order is also proved, for the rates that fit (`UartProofs`) |
| `uart_reader` | counterexample: a reader that takes a byte and then waits loses one | as `uart`, any reader |
| `spi_driver` | each blocking transfer exchanges its byte once, with its own final flag, and returns what the device sent; bursts keep the frame; bytes are handed over one at a time; BUSY and XFER_OPEN tell what the core is doing, a frame ends only with the byte launched as final; every call returns. All but the last are also proved (`SpiProofs`) | the instance of the board: 8 bits, `CLKDIV` 20 (half bits of 10 clocks); two byte values tell a stale or wrong byte from the right one; all calls, where after a `spi_write_byte` the application waits for the byte (`Patient`). |
| `i2c_master` | with any commands and aborts and a device that stretches the clock: each byte is clocked once per bit and sampled as it was on the wire, stretching is never taken for a fault of SDA, SDA carries the loaded bits and is quiet while SCL is high, the promise is implemented, every command ends | one data bit and the acknowledge slot (first and last bit; a bit in the middle adds no phase), counters of 4 bits so that they wrap, watchdog 8, `MIN_DIVISOR` 6: the synchronisers and filters are five clocks deep, and a quarter must be longer for a bit to settle (100 and 400 kHz at 50 MHz are divisors of 125 and 32). The RTL default is 1: below 6 each high phase waits for its counter to wrap, and that commands still end is not looked at; the safety properties are proved for every divisor (`I2cProofs`). Software writes 0 and is clamped |
| `i2c_driver` | every call, started with the core in any state: the bus is released between calls, no illegal command is written, success means that every byte went out, was acknowledged and came in in order, an error code names the refused byte | buffers of up to 3 bytes (first, middle, last), two byte values; a poll may give up whenever what it waits for is not there, which covers every loop count; codes modulo 256 |

Limits that the properties state as conditions. The SPI wrapper stages a request
without looking at a waiting response (`axi_resp_busy` is in the I2C copy only), and
the PWM wrapper takes a read address in the clock in which it prefers a write and
never issues the read; behind a master with several accesses under way, the one
would replace a response and the other lose a read. The processor's data manager
has one access under way, so `hold` (`Pipelined`), `machine_wrappers` (`Serial`)
and the theorems assume it. A deferred commit copies the shadow registers as they are
at the end of the period, so writes made while an APPLY is pending take effect with it;
`RunsAsApplied` holds for software that does not (`undisturbed`), as `main.c`, which
polls every 20 ms. `PeriodFirst` says that a period is set before the PWM is enabled: an
enabled PWM with PERIOD 0 runs on the default period while the commit logic takes it
for a stopped one, so that an APPLY takes effect inside a period.

The SPI driver is checked for callers that let a byte finish before the next
`spi_write_byte`: a second one in a row finds BUSY still clear while the START of the
first is pending, and replaces its byte. `adxl345.c` uses the blocking transfer, which
waits. A write that clears ENABLE in the clock of a launch is obeyed although the
transaction opens in that clock; nothing in `src/sw` clears ENABLE there. The I2C
properties hold for lengths below 254 (`MaxTx` and `MaxRx` against `StatusValues`): the
code of a refused byte is its index plus a constant in 8 bits, and at index 253 it is
0, `I2C_TX_OK`; `i2c_mpu6500.c` writes two bytes at most.

The UART is checked, and proved, for a receiver that is not slower than the sender. Its bits are
16 ticks from the start bit to the end of the stop bit and it looks for a start bit
only after that, so a slower one falls behind while bytes come back to back: the
default divisor 326 is 0.15 per cent slow against 9600 baud, half a bit in some 34
bytes. Divisors 1 and 2 fail even at equal rates, because the receiver spends clocks
in HOLD and IDLE between two bytes. With the FIFO full the receiver waits in HOLD and
does not hear the wire, and no flag says so; hence the condition `Room`.

The two counterexamples that runs show are bugs. `base_main.c:149` scales the temperature
by 100 where it needs 10000, so the distance from 21 °C comes out a hundred times too
small. `uart_port_ip.sv:162` pops the FIFO again in the clock in which a popped byte is
on its way, and the second byte replaces the first in `out_data`, read or not; a
reader that drains the FIFO does not notice.

What `bring_up` shows of the program is what its properties say and no more. A program
that halts for a sensor leaves the motors as an earlier one left them. A failed update
of the motors is not repeated (`MotorsFollow` speaks of updates in which no call failed,
and of both motors staying alike after one failure). The calls of `adxl345.c` report
OK whether the sensor is connected or not: of its registers only DEVID and DATA_FORMAT are
read back, and unplugged later it shows 0 or -1. When the MPU-6500 cannot be read the page
stays as it was. The sweep peaks at 7825 of 8000 (`triangle_0_to_1000` reaches 975), and
its position jumps where the 32-bit counter wraps.

### Fairness

Wrappers: the clock runs for ever, and the master eventually accepts a response
(`WF` of a clock with BREADY and of one with RREADY; such a clock is possible
whenever any is, so weak fairness is what "the master is ready again and again"
means). Fairness is over the wrapper's own variables: a clock that can change
them must come, and none of them makes the master present a beat, the second half
of a write included. The liveness properties speak of accesses it has presented.
Writes have priority over reads, so reads may starve under endless writes:
`AccessesAnswered` asks that a complete write be answered, and a read once no write is
complete any more, half a write or none; behind the PWM wrapper's serial master,
always.

PWM: the clock runs and the wrapper eventually takes a response, which it does
because it raises `rsp_ready` in its waiting states until the response comes.

Motor application: the program goes on (`WF` of `Program`), and a waiting APPLY takes
effect (`WF` of `PeriodEnds`), which `pwm_motor` checks of the PWM (`ImplementsPromise` has
`EveryApplyTakesEffect`). Between two polls the program sleeps 20 ms, against a period of 1000
clocks, so `usleep` ends with no APPLY waiting. It does not sleep between stopping the
motors and its first update, where an APPLY may still wait. Restarts are bounded, and nothing is assumed of the switches: `Follows` speaks of switches that
stay as they are.

Bring-up: the program goes on (`WF` of `Program`). GPIO: no liveness.

UART: the clock runs. Nothing is assumed of peer or reader: `Arrives` says that a byte
is offered, not that it is read.

SPI: the clock runs (`WF` over the core's variables: the core does what it can do).
For the driver, the processor also goes on with the function it is in and the
wrapper takes responses; the application need not call again.

I2C core: the clock runs (`WF` of the next-state relation). Nothing is assumed of the
device, which may hold SCL for ever, nor of software. `i2c_driver` checks no liveness:
the calls return because every poll is bounded.

## Proofs

`AxiLiteHoldProofs`, for every set of addresses and payloads and every
`MaxOutstanding`, assuming only that the SPI wrapper's master is serial
(`SpiIsSerial`):

- `Accounted`: type correctness and `EveryBeatAccounted`. It is not inductive by
  itself: `StagingInv` adds that the staged request is a copy of the beats still
  held, that the register block holds an answer exactly while the wrapper waits
  for it, and that nothing is staged or running while a response is on the bus.
  The last conjunct is where the I2C copy's `axi_resp_busy`, and for SPI the
  serial master, are needed.
- `Held`: a response on the bus does not change until taken.
- `Implements`: each clock is a step of `AxiLiteSlave` or leaves it unchanged
  (`ImplementsSlave`). The access that the promise executes is the staged request as it
  enters the register block (`Executes`), whose beats leave their queues only then; and
  a queue of responses changes with the register block's answer, which is the new head
  because of `StagingInv` (`PromiseB`, `PromiseR`).
- `MachinesImplement`: so do the two wrappers that are state machines, the PWM one with
  a serial master (`Serial`). `MachineInv` says which payloads a state needs and when the
  register block has an answer, and of the PWM wrapper that all its master waits for is
  on a channel or in the machine (`OnlyOne`): an address of each kind taken in one idle
  clock would lose the read. Every queue then has at most one entry (`Queues`), which
  leaves, or comes into an empty place (`Moved`).

`PwmMotorProofs`, for every set of channels, periods and duties:

- `CounterStays`, `Whole`: `CounterInPeriod` and `WholePulses` under `Disciplined` (deferred
  APPLY, no zero period applied while enabled). The invariant relates `high` to the counter:
  so far in this period channel c was high for `min(cnt, duty)` clocks if enabled.
- `LegsSwitch`: the bridge legs switch only between periods.
- `AsApplied`: `RunsAsApplied` from `APPLY_ON_PERIOD_END` alone.
- `KeepsPromise`: every clock is a step of `PwmPromise` or leaves it unchanged. Only its
  liveness is left to TLC.

`MotorAppProofs`, for any duty positions in use and any number of starts:

- `Whole`: `WholeSetting`. What runs is good whenever it was good to let what is written
  take effect, and that is so in three cases: no APPLY waits (`WaitingInv`); the APPLY that
  waits disabled the PWM, and half-written registers drive nothing (`StartInv`,
  `OffInv`); or the update is complete (`UpdateInv`, which counts what each access has
  written). A restart leaves the registers as they are, and the program's first
  write to the PWM clears the channel enables: from then on they drive nothing.
- `Displays`: `DisplayTells`. `ConfiguredInv` says how far the display has been set up at each
  access, `FollowInv` that between two updates the registers of the PWM are those of the
  remembered position, running unless an APPLY waits, and the display shows its duty.

`GpioProofs`, for any set of pins:

- `FlagsTellEdges`, `EdgesAreTold`: `NoFalseEdge` and `EdgesTold`. `PrevInv` says
  that the previous level is kept in the polarity now in force, which is why a change
  of polarity is no edge;
  `ViewInv` that a pin whose level differs from what software saw has a flag;
  `HalfInv` what `read_edge` holds between its two reads.

`BringUpProofs`, for any old contents of the sensors and any number of failed calls:

- `Ready`: `LoopReady`. `AdxlInv` and `MpuInv` say for each call of the configuration what it
  leaves behind once it has been passed. Of the ADXL345 it is known only while it is
  connected, except its identity: a byte read that is neither 0 nor 255 came from it.
  The writes to the MPU-6500 are a table; that no register occurs twice in it
  (`SetupDistinct`) keeps a later write from undoing an earlier one.
- `Obeyed`, `Together`: what the motors do. Whatever number of calls fails, an update of
  which none failed is in force (`MotorInv`); `MotorsFollow` asks in addition that the
  motors never run apart, which is so as long as at most one call ever fails
  (`MaxFailures <= 1`, as in the run): with two, an update and the coasting after it, one
  motor may go on turning while the other rests. `EvenInv` says that what was asked is
  uneven only after the one failure, and that every later update asks both motors.
- `Tell`: `PageTells`, for every sample the sensors can measure (`Measures`: what 10 and 16
  bits hold). `PageInv` says what is on the digits and points of each page; lemmas on the
  integer arithmetic bound the error of an axis and show that the magnitude fits.
- `Smooth`: `MovesSmoothly`, for the sweep of the program (`SweepPeriod = 80`) and any width
  of the tick counter. The bound of one step depends on the period: half of 80 divides
  1000, the scale of `triangle_0_to_1000`; with 12 ticks, say, rounding exceeds it.

`SpiProofs`, for every byte width, clock division and set of bytes, and any writes:

- `Busy`, `Open`: `BusyWhileInFlight` and `OpenWhileSelected`. The status registers
  and the core never look at each other; both follow the launch and the received
  byte. `InStep` adds what keeps them together: the half-bit counter stands at its
  end only behind a complete byte, the core waits there only after a byte that was
  not final, and is in EXIT only after one that was.
- `FrameEnds`: `FrameEndsWithFinalByte`, for half bits of at least two clocks. With
  one clock to a half bit the core leaves EXIT while the byte is being stored.
- `DriverImplementsSpec`: the functions of `spi_regs.c` are one of the programs for which
  the above is proved, so it holds under them.
- `Transfers`, `Bursts`, `Launches`: `TransferExact`, `BurstKeepsFrame` and `LaunchesWhenDone`
  for any calls in any order, if the application lets the byte of a `spi_write_byte`
  finish (`WaitsForItsBytes`; nothing is assumed where that function is not called).
  `DriverInv` says at each label what holds in every clock until the driver's next
  access: a START written is pending or in flight (`Owes`), `ENABLE` is in every word
  written back (`Enabled`), nothing is owed where a byte is prepared (`Free`), RX_VALID was
  cleared before the START it is polled for (`Prepared`), and the byte in flight is the
  one of this call with its own qualifier (`Exchanging`, `Returned`).

`I2cProofs`, of the core, for every byte width, counter width, divisor and watchdog:

- `Implements`: the core implements `I2cCommands`. Every clock is a step of the promise
  or none; `PhaseOfCommand` adds that the phases of a STOP run only under the command
  STOP and the other busy phases never do, so that the last phase ends in the state
  the promise gives for `cmd_reg`.
- `OnWire`, `Quiet`, `Bytes`: `BitsOnWire`, `QuietWhileHigh` and `ByteExact`, for every divisor from
  1 up, also where the bus is too fast for the filters. `RegsInv` says where the
  registered outputs and the shift register are, one clock behind the phase, and that
  what is left in it is the rest of what was loaded. `ByteInv` follows both wires through
  the synchronisers: three low samples of SCL in a row stand before any high ones of the
  pulse before, so an SCL that the filter has seen high has been high since it rose in
  this bit, each pulse is counted once, and the samples of SDA are the bit seen there.

and of the driver, for buffers of every length, any byte values and any status width:

- `BusReleased`, `CommandsLegal`: `Released` and `NeverIllegal`. Neither is inductive: the
  invariant `IInv` says at each label of the driver where the core can be, for example
  that it is in HOLD before every command but the first, and that while a result is
  awaited the command running is the one written. That is the argument for the aborts
  on every error path.
- `OkIsDone`, `NackTells`: `OkMeansDone` and `StatusTellsByte`, for buffers whose codes fit the
  status byte (`MaxTx + 2 < StatusValues`; see the limits above). `WireInv` relates the
  commands carried out in this call, a history, to the place the driver is at: up to
  there each is the one the call asks for, and was acknowledged.

`UartProofs`, for any bytes, byte width, FIFO depth and number of ticks to a bit from 4 up, a
reader that drains the FIFO once it reads (`Drains`; without it the run `uart_reader`
finds a byte lost) and a peer that leaves room:

- `Offers`: `OffersNext`, for divisors that fit each other (`RatesFit`). The receiver is not
  slower than the sender, a baud tick is at least three clocks (it is in HOLD and IDLE
  between two bytes), and what the receiver gains over the bits up to the last one,
  with the clocks by which it may be early or late in its first, leaves the last
  sample inside the last bit. With 16 ticks and 8 data bits this is 128 (d1 - d2) <= 7 d2 + 1
  for divisors d1 of the sender and d2 of the receiver: about 5 per cent.
- `EqualRates`: that for the same divisor on both sides, from 3 up, all of `RatesFit` holds.

Time is measured on either side as the clocks left to the end of its bit. Inside a frame
both go down by one in each clock and come back by the length of a bit, so the drift
stays the same from the start bit to the stop bit (`SameDrift`); it says in which bit of
the wire each sample falls (`Sampled`), that the receiver has reached its stop bit before
the sender leaves its own (`FirstToEnd`), and that it listens again when the next start
bit comes (`CallingStep`). `Link` puts these together as four phases of a byte on the
wire: none, calling for the receiver, being received, ending. Behind the receiver, the
bytes sent and not yet read are those in the output register, popped, in the FIFO, in the
receiver and on the wire, in this order (`Store`), and while nothing is offered at most one
of them waits to leave the FIFO unless the reader goes on (`Limits`), which is why none is
replaced in `out_data`. The room that the peer leaves keeps the FIFO from being full when
a byte is complete (`FullWaits`).

Type correctness is part of each invariant and is not listed apart.

Every invariant of the runs is proved, and every action property. Only model-checked are
the liveness properties (`AccessesAnswered`, `RequestsAnswered`, `Follows`, `StartsUp`,
`CommandsEnd`, `CallsReturn`, `Arrives`, and the liveness part of `ImplementsPromise`), which are
outside the prover's reach. The theorems about the UART say nothing of a receiver slower
than its sender, which needs pauses between bytes.

## Not modelled

- Clock domain crossing and metastability, and reset while running: TLC's steps are
  whole clocks from one reset.
- The RDATA of the PWM blocks, byte strobes and the error responses of the register
  blocks (the wrappers pass an error on as a value).
- I2C: REG_FAULT, DIVISOR and `i2c_set_divisor`, `rd_last` in the driver. The fault flags of
  the core stay set until reset and set the sticky fault again in every clock; no
  driver call reads them. A phase that misses its tick (a divisor below the depth of
  the filters, or a clock stretched past it) waits for its counter to wrap: the bus is
  slow and no more.
- Seven-segment FREEZE, SNAPSHOT, read-back registers and glyphs: no caller, and a
  table. `motor_pwm.h`: the functions of `pwm_regs.h` for one base address, no caller.
- The conversions to floats in `i2c_mpu6500.c` and `adxl345.c`: no caller but printing.
- The LCD controller (`hd44780_*`): not instantiated by any top level.
- The raw PWM subsystem as an instance of its own (its registers and core are those of
  `PwmMotor` without a bridge), `pwm/obsolete` (replaced), the empty quadrature and servo
  files, pin assignments (`src/rtl/top`, `src/rtl/platform`), printing.

## Plan

1. A peer of the UART that pauses between bytes: how long a pause a receiver slower than
   its sender needs, checked first, then as a weaker `RatesFit`.
2. Modules when the code comes to use them: the LCD controller, a register block for
   the UART, REG_FAULT.
