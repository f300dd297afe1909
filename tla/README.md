# A TLA+ model of rp2350-tz-tee

The repository shows memory isolation on the RP2350 on both of its core types. Two small programs
are its own code: `examples/minimal-tz` (Arm Cortex-M33: a Secure and a Non-Secure image) and
`examples/minimal-pmp` (RISC-V Hazard3: M-mode and U-mode). `reference/` holds files of the TF-M
port for study, `scripts/` a script that judges a test run over SWD. This directory models the
programs in TLA+, checks them with TLC and proves the central results with TLAPS.

## 1. Inventory

| Component (source) | State | Operations | Status |
|---|---|---|---|
| Secure boot (`secure/tz_config.c`, `secure/main_s.c`, `include/tz_layout.h`) | SAU (RNR, eight regions, CTRL), AIRCR.BFHFNMINS, DMA MPU (mpu_ctrl, eight regions), ACCESSCTRL window and GPIO masks, the copied image | `tz_sau_config`, `tz_dma_mpu_config`, `tz_accessctrl_open_ns`, copy and branch of `launch_nonsecure`, reset | modelled: `TzLayout`, `TzConfig` |
| Secure gate (`secure/secure_service.c`, `secure/secret.c`) | memory, `s_key`, `s_counter`, the stack buffers of a call | `secure_get_counter`, `secure_sign` | modelled: `SecureService`; for a client without handlers `SerialGate`, `AtomicGate` |
| Non-Secure program, fault handler, mailboxes (`nonsecure/main_ns.c`, `isr_hardfault` of `main_s.c`) | mailbox in Non-Secure RAM, `s_result` in Secure RAM | `ns_main` (clear, claim, two counters, one signature, the illegal read), `isr_hardfault` | modelled: `MinimalTz` |
| M-mode services (`svc_sign`, ecall half of `trap_dispatch` in `minimal-pmp/main.c`) | `g_prot` (counter, key, secret) inside memory, the loop | `SVC_GET_COUNTER`, `SVC_SIGN`, unknown number | modelled: `PmpGuard`, `PmpServices` |
| minimal-pmp as a whole (`minimal-pmp/main.c`) | PMP entries, PMPCFGM0, mscratch, mtvec, mepc, mcause, registers, trap frame, `g_mb`, `g_stage`, `challenge` | `main`, the Xh3pmpm self-test, `u_mode_entry`, `trap_entry`, `trap_dispatch`, reset | modelled: `MinimalPmp`, `PmpSetup` |
| TF-M platform set-up (`reference/target_cfg.c`) | SAU, ACCESSCTRL with its lock, DMA channels, DMA MPU, the error of the read-backs | `sau_and_idau_cfg`, `bus_filter_cfg`, `dma_security_config`, reset | modelled: `TargetCfg` |
| TF-M isolation HAL (`reference/tfm_hal_isolation_rp2350.c`) | the Secure MPU, `n_configured_regions`, the handles, CONTROL.nPRIV | `tfm_hal_set_up_static_boundaries`, `_bind_boundary`, `_activate_boundary`, `_memory_check`, `_boundary_need_switch` | modelled: `TfmIsolation`; promised in `TfmPromise`, shown in `TfmBoot` |
| TF-M layout headers (`reference/flash_layout.h`, `region_defs.h`) | the settings of a build | the areas, the partitions, every `#error` | modelled: `TfmLayout` |
| SWD verdict (`scripts/read_tfm_results.sh`) | two tables of test results in SRAM, read at any instant | `judge`, the verdict | modelled: `SwdVerdict` |
| Linker scripts, build files, `pico-sdk.patch`, udev rules, documents | none at run time | | not modelled |

How they interact. The boot fixes what the SAU lets through; every access of the Non-Secure program
goes through it; the gate is the one way in; a refused access raises a SecureFault that escalates to
`isr_hardfault`, which copies the mailbox of the client into `s_result`. In `minimal-pmp` the PMP
takes the place of the SAU, `ecall` and the trap vector that of the veneers, and one mailbox in RAM
serves both worlds. The only reader of any mailbox is a debugger that may stop the chip at any
instant. In the TF-M port the HAL sets up SAU, bus filter and DMA MPU, then the Secure MPU; binding a
partition takes its devices back from the Non-Secure world, in ACCESSCTRL, and opens them to the
partition, in the MPU; the secure partition manager (SPM, not in this repository) calls all of it.
The layout headers give the addresses that the HAL writes into the units. The SWD script stops the
chip and reads what the test framework (not in this repository either) has left in SRAM.

What is hard in this code:

- **Reset in the middle.** RAM, and depending on the kind of reset the SAU, the DMA MPU and
  ACCESSCTRL, keep what an earlier boot left half written. A unit may be enabled while it is
  programmed.
- **Order.** Regions, then enable; isolation, then hand-over; results, then the stage that announces
  them.
- **Preemption.** Non-Secure handlers run, store and call the gate while a Secure body is in
  progress.
- **Address arithmetic.** Inclusive limits, overlapping buffers, checks of a range by its ends,
  sums that wrap.
- **Tables that must agree.** Three units say what is Non-Secure; ACCESSCTRL and the MPU say together
  who reaches a device; a switch of boundaries may be left out if nothing would change.
- **Limits.** The MPU has eight slots; a bind may fail half way.
- **Sizes that come from outside.** The build system sets the sizes of images, storage and
  provisioning data; a handful of `#error` lines decide which of them are a layout.
- **Results that outlive their run.** SRAM survives a reset, and the script reads whenever it likes.
- **Traps.** The register frame, the swap of stacks through `mscratch`, and a handler that computes
  how long the instruction was it has to skip.

`PROJECT.json` lists these under "hazards", each at its line with the properties that watch it.

## 2. Modules

```
Attribution     the SAU and the DMA MPU as functions of their registers
  TzLayout      the memory map of minimal-tz
    TzConfig    the Secure boot, register write by register write
      MinimalTz minimal-tz as a whole, implements IsolationDemo        -> MinimalTzProofs
  TargetCfg     the TF-M platform set-up, register write by register write
    TfmIsolation  Secure MPU, binding, scheduling, memory check
      TfmBoot   TfmIsolation implements TfmPromise, and gets on        -> TfmPortProofs
SecureService   the gate under any client, memory access by access
  SerialGate    ... under a client without handlers, implements AtomicGate
                                                                       -> SecureGateProofs
PmpGuard        the guard of svc_sign in machine arithmetic
  PmpServices   the M-mode services under any U-mode program           -> PmpServicesProofs
  MinimalPmp    minimal-pmp as a whole, implements IsolationDemo       -> MinimalPmpProofs
PmpSetup        pmp_isolate_secret, CSR by CSR, with the NAPOT code    -> PmpSetupProofs
TfmLayout       the layout headers as functions of the build           -> TfmLayoutProofs
SwdVerdict      the SWD script, and the test run it judges             -> SwdVerdictProofs
IsolationDemo   what both examples promise
AtomicGate      what the gate promises a client without handlers
TfmPromise      what the isolation HAL promises the SPM
MC*             instances for TLC (MCLayout, MCTargetMap: the addresses of the two maps)
```

Definitions whose comment starts with "Variant" are deliberately wrong forms of the definition that
follows. Nothing uses them; putting one in the place of its original must make a property fail.

**Attribution, TzLayout, TzConfig.** An address is the number of a 32-byte granule, the finest thing the two
units can tell apart: the code masks every bound with `~0x1F`. Each action is one register write, or
the copy of one block: `SelectRegion`, `WriteRbar`, `WriteRlar`, `EnableSau`, `RouteFaults` are
`tz_sau_config`; `DmaMpuCtrl`, `WriteBar`, `WriteLar` are `tz_dma_mpu_config`; `CfgReset`,
`GpioNsMask`, `OpenPeriph` are `tz_accessctrl_open_ns`; `CopyImage` is the loop of
`launch_nonsecure`. `pc` and `idx` are the program position. `ProcessorReset` may come between any
two, and each unit is then either reset or kept. The SAU may come out of reset on or off, with or
without a region of the boot ROM's in region 7 (`target_cfg.c` turns one off under that name).

**MinimalTz** adds the Non-Secure program, the fault handler, both mailboxes and `s_counter`.
It is the run that checks the boot as well, through the resets that cut the client off.
Whether an access passes is decided by the SAU as the boot left it (`NsMay`, `MayCallGate`), never
assumed: the branch in which the secret leaks is in the model and must turn out unreachable. A gate
call is one step here, and `SerialGate` is why it may be. `isr_hardfault` is taken word by
word.

**SecureService** has a memory of bytes, `depth` calls in progress and a frame for each: arguments,
loop index, the two stack buffers, result. Only the innermost call runs, as with handlers that
preempt. `secret_next_counter` is a load and a store. The copy loops move one byte per step. The
client stores any byte to any Non-Secure address at any time. `cmse_check_address_range` is modelled
by what the toolchain's function does: no wrap, and first and last byte in one and the same
Non-Secure region. `orig` and `alone` are history variables: memory at the call, and whether anybody
else has stored since.

**AtomicGate, SerialGate.** A client without interrupt handlers, like the one the example ships, cannot
tell `secure_sign` from a function that works at one instant: `SerialGate` leaves out the steps of
`SecureService` that come between, and hides the bytes of a half-copied result. `AtomicGate` says what
is left: the first reason for a refusal that applies, or the transform of the challenge as it stands.

**PmpGuard, PmpServices.** All sums are taken modulo the size of the address space, as in C.
`svc_sign` transforms in place, one byte per step; the key is read from memory at each byte, so a
store into `g_prot` would show. Every address is memory here; the faults of a pointer that names none
are left out.

**MinimalPmp** names instructions by labels, and `mepc` holds a label: `Skip` yields the next one
only if the handler adds the size of the instruction that trapped, and otherwise leads nowhere,
which `PmpTypeOK` excludes. The self-test's load is the compiler's choice: `opcode`, the first halfword of a load
of 2 or of 4 bytes, is drawn once. `Length` is the handler's test of that halfword, `Size` the length the
hart fetched it with; nothing but the code makes them agree. `before` remembers what a trap
interrupted: place, mode and registers. Registers that a C function may spoil are spoilt by `trap_dispatch`. `Allowed` is
the PMP: the lowest matching entry decides, M-mode is bound only where PMPCFGM0 says so. Its set-up is
one step there and its two regions have names.

**PmpSetup** justifies both: `WriteAddr0` to the last CSR of `pmp_isolate_secret`, one write per step,
with the value `pmp_napot` computes and the decoding of the PMP applied to it, for every aligned place of
`g_prot`. `Held` is what the register keeps of a word: a limited width, and the bits below the
granule of the PMP as ones (32 bytes on the Hazard3, by the example's README); `Region` is the block that a NAPOT word names. The
powers of two and the machine's bitwise OR are parameters (`Powers`, `BitOr`), and so is the granule. It runs once: no reset comes in between, as the
registers a reset leaves are the ones it starts from (`Junk`).

**IsolationDemo** is what the READMEs of both examples promise: boundary up, two counters, one
signature, one trespass stopped, one full report with nothing leaked, and, once no reset comes any
more, the end reached. `MinimalTz` and `MinimalPmp` implement it under refinement mappings stated at
their ends. In both, the mapping says that the boundary is up in terms of the unit that makes it, the
SAU or the PMP, so that a service given without it is no step of the demonstration.

**TargetCfg** follows `target_cfg.c` in the same way: `SauRbar` (RNR is written just before RBAR and
is part of it), `SauRlar`, `SauEnable`; `AcCfgReset`, `AcGpio`, one `AcPeriph` per register of the
three lists with its read-back, `AcLock`, which is also where an error ends the set-up; `DmaChannel`,
`DmaCtrl`, `DmaBar`, `DmaLar`. A broken part is a set of registers that refuse what is written to
them. ACCESSCTRL settings are sets of bus actors. Built without the multi-core topology.

**TfmIsolation** goes on where `TargetCfg` stops. `build` is how the system was built: isolation
level, whether the metadata region exists, number of MPU slots, the partitions in load order with
their assets. `MpuCheck`, `MpuClear`, `MpuSet`, `MpuEnable` are the rest of
`tfm_hal_set_up_static_boundaries`; `SkipAsset`, `RefuseAsset`, `BindAsset`, one asset each, and
`BindDone` are `tfm_hal_bind_boundary`; `Schedule` is what the SPM does with `NeedSwitch` and
`tfm_hal_activate_boundary`; `MemoryCheck` is a function of the units' state. External, and modelled
by what this code relies on: the SPM, which after a failed bind either stops or goes on without the
partition; `cmse_check_address_range`, which compares what the TT instruction says of the two ends of
a buffer; the Non-Secure MPU, which only the Non-Secure OS sets.

**TfmPromise, TfmBoot.** What the SPM may rely on, without registers, slots or a device at a time: set-up
takes everything or stops; a partition is bound whole or refused, and refused only for an asset that
is not of the platform, not on granules, or one more than the regions left; whoever runs does so at
its own privilege; and set-up and binding end. `TfmBoot` maps `TfmIsolation` to it: `Phase` from the
program position, the free regions from `n_configured_regions`, those of a bind in progress given back
(`GivenSoFar`). A refused bind shows its cost there: regions given before the obstacle stay given, and
the partitions behind have fewer.

**TfmLayout** has no program: its state is a build (number of images, bootloader or not, linked for
which slot, sizes), and a step changes some settings. A build that runs into an `#error` does not
exist. Areas and partitions are operators with the names of the macros; sizes and addresses are in
granules of 32 bytes. Settings the build system supplies, such as image header and trailer or the
provisioning bundle, are settings here.

**SwdVerdict** models `judge` and the verdict as functions of the words in SRAM: the loop stops at the
first struct that is past the window or does not start with a pointer to flash, so what it has counted
are the structs before which there is none (`Judged`). The test framework is
external: initialised data sets up a table per world (one `test_suite_t` of five words per suite, a
suite of zeros at the end), Secure before Non-Secure; suites of a world run in turn, each fills in its
list size when it starts, and its result while it runs is anybody's. A reset may come at any time and
keeps SRAM; other firmware may be in flash afterwards. The properties hold at every instant, as the
script reads when it likes.

## 3. Runs

| Run | States | Question |
|---|---|---|
| `tz_dma_mirror` (violation) | | Does the DMA MPU mirror the SAU? |
| `minimal_tz` | 380,334 | Is the boundary right at every instant of the boot, and complete at the hand-over, whatever the units held? Do client, handler and debugger ever act on stale or half-written state? Is it the promised demonstration, and does it get to its end? |
| `secure_service` | 252,784 | Are results, refusals, isolation and termination of the gate right, with calls after and within one another and stores by a handler? |
| `counter_preempted` (violation) | | Does each call bump the counter by one when calls preempt calls? |
| `serial_gate` | 63,094 | Is a call that nobody preempts one step of `AtomicGate`, for every pair of buffers, and is it served? |
| `pmp_services` | 45,524 | Is the guard exact, and the protected block untouched? |
| `minimal_pmp` | 2,562 | Is the trap path transparent whatever load the self-test traps in, the boundary up, the record honest, the end reached? |
| `pmp_setup` | 1,020 | Is U-mode denied every byte of `g_prot`, and no others if it is a granule or more? M-mode only during the self-test? |
| `swd_verdict` | 12,181 | What does ALL PASSED mean, whenever it is printed? Is a run that passed reported? |
| `tfm_layout` | 1,824 | Do the `#error` lines leave only builds whose areas and images do not meet? |
| `tfm_dma_mirror` (violation) | | Does the DMA MPU of the TF-M port mirror the SAU? |
| `tfm_isolation` | 76,818 | Is anything Secure given away during the TF-M set-up, is a refused write noticed, do the units agree? Are slots, devices and privilege right through binds that fail, an MPU that runs out, any order of scheduling and resets? Is the memory check sound? Does the HAL do what `TfmPromise` says, and does every boot reach scheduling or stop? |

Properties worth a word:

- `SecureStaysSecure` and `DmaStaysOut` hold at *every* state, not only at the end: between RBAR and
  RLAR, and with half of an earlier boot's registers.
- `HandOverReady` is the other half: what the client needs is there. Too little is caught as well as
  too much.
- `MailboxConsistent` is what a debugger may rely on that stops the chip at an arbitrary moment,
  also in the middle of a later boot.
- `SignsTheOriginal` holds for buffers that overlap either way: it is the reason for the two Secure
  buffers of `secure_sign`.
- `GuardExact` says the test in `svc_sign` refuses neither too much nor too little, for every pointer
  and every length up to past the limit, wrap included.
- `FilterHonest`: the read-back loops go on after an error, and the set-up must fail all the same.
- `ImplementsDemo` has a liveness half: left alone after its last reset, each example ends in its
  fault handler with the full report. A fault before the illegal read, a loop that does not end, or a
  client that reads across the boundary, all break it.
- `UnitsAgree` relates three tables written in three places.
- `DevicesBound` takes ACCESSCTRL and the MPU together: a device is reached by the partition it is
  bound to at the privilege the partition has, and by no one of less. Where two partitions name one
  register, the one bound last decides.
- `KeepsPromise` judges a bind by its cause, not by its code: neither a region too many nor one too few
  is handed out, through failing binds and resets, and a boot that nothing is wrong with gets to
  scheduling.
- `IsAtomic` says that no difference between the gate and its atomic specification can be seen without
  a handler, the error code of a request with several faults included.
- `AllPassedMeans` states the limits of the verdict as well as its worth. "ALL PASSED" may be about an
  earlier run, as a reset keeps SRAM; it may be printed while the last suite of a world still runs; but
  no suite in the windows has failed or was never started, and the two worlds' results are of one run.
  Of suites past the window it says nothing.
- `DeniesExactly` speaks of blocks on both sides of the granule. One that is smaller is denied as well, as the
  example's README says ("the NAPOT region still covers the secret"), but the region is then wider
  than the block, and only from the granule up does it say that nothing else is denied.
- `MemoryCheckSound` asks for every address between the ends of a buffer. It speaks of unprivileged
  handles and of Non-Secure memory. For a privileged handle on Secure memory the check proves nothing
  of a read-only region between two ends outside all regions, and nothing claims it does.
- `TrapTransparent` compares what `mret` resumes with what the trap interrupted: the same registers, but for
  the result of an ecall in `a0`, the mode, and the place, which is that of the next instruction.

Bounds, and why they suffice. `minimal_tz` uses the addresses of `tz_layout.h`; `Addr`
is the granules on both sides of every bound of the map, and every region bound is one of those, so
nothing can change between two of them. The ACCESSCTRL window has 2 of its 54 registers and the copy
2 blocks: the loops treat all alike, and first and last differ. `MaxResets = 2`: a reset can keep
what a reset boot left. `SecureService` has eight bytes, two Non-Secure regions that touch Secure
bytes at both ends, lengths 0 to one past the limit of 3, key length 2 (the index wraps) and bytes of
one bit; `CounterRange` is 2 so that two calls make the counter wrap (8 in `counter_preempted`, where
it must not). Depth 2 and two calls are the least at which calls preempt one another, or see what the
one before left. `tfm_isolation` uses the addresses of `region_defs.h` for the build with the bootloader and a Non-Secure
image (`MCTfmLayout` checks that they are those of `TfmLayout`'s shipped build);
two or three registers stand for each list of `bus_filter_cfg`, as its loops treat all alike; the six
systems of `tfm_isolation` have an MPU with slots to spare, with exactly enough, with one too few for
the devices and too few for the static regions, both isolation levels, an asset that is not named, not
listed or not on granules, a device shared between privileges, and a Non-Secure agent of either
privilege. One reset is enough to meet what any instant of a boot left behind; the proofs have
no bound on resets. `PmpServices` has twelve bytes, with
`g_prot` in the middle and both ends reachable by a buffer that wraps. `MinimalPmp` has no data to
bound but resets; its three loads are one of 4 bytes and two of 2 bytes that
differ in the bit above the low two, which a mask too wide would take in. `PmpSetup` has addresses of eight bits, the granule of 32 bytes and blocks of 8 to 64 bytes
in every aligned place: the NAPOT code treats all bits alike, and the special cases are the blocks below,
at and above the granule and those at the ends of the map. `tfm_layout` tries, around the shipped sizes, sizes on both sides of every check. `swd_verdict`
has a window of two suites, tables of one, two and three, and two resets: a table that is shorter than
the window, fills it and goes past it, and a run that overwrites what two others left. `serial_gate` has
the memory of `secure_service`, all pairs of buffers, and two calls. `CHECK_DEADLOCK` is off wherever the program ends in a loop that does nothing or
the number of calls is bounded.

**Fairness.** `MinimalTz` and `MinimalPmp` assume weak fairness of the processor's own step: it
executes, as nothing in either program sleeps or waits. `SecureService` assumes it of the gate's
step: handlers end, as their calls and stores are bounded. `SerialSpec` assumes the same. `BootSpec` assumes weak
fairness of the processor's next step up to scheduling, which waits for nothing. Resets are bounded, so
some boot is the last, and nothing more is assumed of them or of any client.

## 4. Where the code and its documents disagree

1. **`DmaMirrorsSau`** (`tz_dma_mirror`). "DMA-MPU config: mirror the SAU" (`tz_config.c:86`). DMA
   region 2 runs from the start of Non-Secure RAM to the PPB without a gap, and so covers 0x20080000
   to 0x3FFFFFFF, which the SAU leaves Secure: SCRATCH_X and SCRATCH_Y with the Secure stacks
   (`linker_s.ld`) are open to Non-Secure DMA channels. `DmaStaysOut` therefore speaks of Secure
   flash and Secure RAM only.
2. **`EachCallBumps`** (`counter_preempted`). "Each call bumps it by one" (`secret.h:19-22`) is
   `return ++s_counter` (`secret.c:29`), a load and a store. A Non-Secure handler that preempts the
   body and calls `secure_get_counter` gets a value that the preempted call returns once more. The
   shipped Non-Secure image has no such handler; with serial calls the property holds
   (`SerialCallsBump`).
3. **`DmaMirrorsSau`** (`tfm_dma_mirror`). "Configure DMA MPU to mirror SAU settings"
   (`target_cfg.c:281`). DMA region 1 runs from the base of the Non-Secure flash partition to the limit
   of the veneers (`target_cfg.c:295`), which lies below that base: the region is empty, and the
   partition, Non-Secure for the processor, is closed to Non-Secure DMA. The other half of mirroring,
   that nothing Secure is open, holds (`SecureNeverOpen`, `UnitsAgree`).

Two remarks, which no run states.

- `pmp_napot` is for a "size a power of two >= 8" (`main.c:95`), and the example's README gives the PMP a
  granule of 32 bytes (`examples/minimal-pmp/README.md:115`). Of a block of 8 or 16 bytes more is
  denied to U-mode than the block: the rest of its granule, and where the word's own bits go on with ones above
  the granule's, a region of several granules. `DeniesExactly` says of such a block that it is
  covered. The shipped `g_prot` has 64 bytes.
- MCUboot's tables are as long as the Secure partition is large (`flash_layout.h:16`, `:86-91`), rounded
  down to whole scratch areas. With two images and a larger Non-Secure partition, or with slots that are not whole scratch areas,
  they are too short for a slot, and no `#error` says so. The shipped partitions are equal and whole scratch areas.

## 5. Proofs

Proved by TLAPS for every value of the constants that satisfies the modules' assumptions
(`LayoutAssumption`, `ConfigAssumption`, `ValueAssumption`, `GateAssumption`, `GuardAssumption`, `ServiceAssumption`,
`PmpAssumption`, `CodeAssumption`, `ObjectAssumption`, `SetupAssumption`, `TargetAssumption`, `SectionAssumption`, `BuildAssumption`,
`FlashAssumption`, `SwdAssumption`), hence for any layout with the header's
order, any number of resets, any memory size, any set of requests, any depth of nesting, any lists of
ACCESSCTRL registers, any partitions and number of MPU slots, and any sizes of a build. Three of the
assumptions are about where things lie: `ObjectAssumption`, that `challenge` and `g_prot` are two
objects of one C program; `SectionAssumption`, that the linker's sections do not meet;
`BuildAssumption`, that a device lies in none of them and no two unprivileged partitions name one.
`SetupAssumption` says of the powers of two that twice the lesser divides the greater, and of the bitwise
OR that it adds where no bit meets another; `MCPmpSetup` puts the powers and the OR of the community module in
their place, and TLC evaluates it of them. The last also gives the proofs what the provers do not know.

- `MinimalTzProofs`, first half. `ConfigInv` = `CfgTypeOK /\ SauPartial /\ DmaPartial`: at any instant each
  of the SAU regions 0 to 3 is off or equals its entry of the table in full, also while its registers
  are being rewritten, 4 to 6 are off, and 7 is as the boot ROM left it; inside the window RNR selects
  the region being written, and RBAR has been written before RLAR. A DMA region that is enabled
  likewise equals its entry. It is needed because
  `SecureStaysSecure` alone says nothing of registers that are written but not yet enabled. From it
  `TypeCorrect`, `SecureAlwaysSecure`, `DmaAlwaysOut`. `Progress` adds how much of each table *this*
  boot has written as a function of `pc` and `idx`; at the branch that is all of it, and with
  `TableDisjoint` (no address in two regions) it gives `HandOverAlwaysReady`. These theorems are about
  the boot on its own (`CfgSpec`).
- `MinimalTzProofs`, second half, carries them to the whole example (`TzSpec`). `BootInv` is what the boot leaves:
  the units' half of `ConfigInv`, which a reset keeps whatever program it cuts off (`ResetUnits`), and
  `Progress`, by which the SAU is programmed in full once the boot is over. So every access of the
  client is decided (`Crossings`): its RAM, mailbox and the veneers open, the Secure RAM closed.
  `RunInv` says what the mailbox, the counter and `s_result` hold at each place of `ns_main` and of the
  handler; zeroing the magic first is what keeps `MailboxConsistent` inductive over the junk of an
  earlier run. From these `TzTypeCorrect`, `RunStaysIsolated` (which, of DMA, says nothing of the scratch banks: section 4), `EveryHandOverReady`, `MailboxNeverLies`,
  `RecordIsOfThisBoot`, and step by step `DemoRefined`, the refinement of `IsolationDemo` without its
  liveness.
- `SecureGateProofs`, about any client. `GateInv` = `TypeOK` and `Checked` for every frame: past a check, what the
  check established still holds, as nothing rewrites a frame's arguments. `CmseCoversRange` turns the
  check of the ends into a statement on every byte. From these `GateTypeCorrect`,
  `RangesAlwaysNonSecure`, `SecureBytesAlwaysKept`.
- `SecureGateProofs`, about calls nobody disturbs. `ResultInv` = `Shape /\ Sound`: of a call that met no foreign store, as long as
  it copies in, memory is as it was at the call and the buffer holds the part of the challenge read so
  far; as it copies out, memory differs from that only in the part of `out` written so far. Two
  overlapping buffers are why the first half must end before the second begins. From it, for calls
  nested to any depth, `SignsAlwaysTheOriginal` and `RefusalsAlwaysInert`; and with `SerialInv` (one
  call, nobody disturbs it) each step maps to a step of `AtomicGate` or a stutter: `SerialIsAtomic`.
  `SerialCallsBump`: without handlers the counter does what `secret.h` says of it.
- `PmpServicesProofs`. `GuardSound`: a request the guard lets through touches no byte of `g_prot`,
  in modular arithmetic; `GuardComplete`: one of an allowed length that it turns away does. `ServiceInv`
  = `TypeOK /\ LoopGuarded` (the request in the loop is one the guard let through), and from these
  `ServiceTypeCorrect`, `ProtectedAlwaysKept`, `GuardAlwaysExact`. `SignInv` adds how far the loop is:
  the first `i` bytes of the buffer are transformed, the key is the one at the call, all else is as it was. The
  bytes of a buffer are distinct although their addresses wrap (`NthDistinct`), as it is no longer than
  memory: `AlwaysSignsInPlace`.
- `PmpSetupProofs`. `SetupInv`: what each CSR holds after its write. For a block of a granule or more the
  masking changes nothing, and the number that `pmp_napot` makes ends in a row of ones as long as the block is
  large, with a zero above it because the block is aligned to its size (`RegionOfRow`). For a smaller one the word
  keeps to its granule when its low bits are set (`HeldInGrain`), so the row is at least the granule's, however far
  it goes on, and its region takes the granule in (`RegionHasGrain`). Hence `NapotProt`, `NapotAll`
  and `AlwaysDeniesExactly`.
- `MinimalPmpProofs`. `PmpInv` is indexed by `Point`, the instruction that runs or was interrupted: the
  units, the counter, the challenge and the mailbox are functions of it, also while the handler runs.
  `PlaceOK` says that five instructions trap and no other does; it rests on what the PMP of that moment
  allows (`AllowedBefore`, `AllowedAfter`), so an access that traps by accident, or one that does not, breaks it.
  `RegsOK` follows the interrupted registers into the frame and back, and `TrappedOK` says that what the last
  trap interrupted is the instruction `mepc` was taken from. From it `PmpTypeCorrect`,
  `StacksAlwaysApart`, `MailboxAlwaysConsistent` and `TrapsTransparent`; and step by step
  `PmpDemoRefined`, the refinement of `IsolationDemo` without its liveness: the whole trap path is
  invisible to it but for the one step that serves.
- `TfmPortProofs`, the set-up (`TargetSpec`). `TargetInv` has the same shape as `ConfigInv` for the TF-M port's two tables,
  and `FilterSoFar`: without an error, every register the loops have passed holds its setting, in any
  list. An error survives the successes after it, so past the bus filter there was none:
  `FilterAlwaysHonest`, next to `TargetTypeCorrect` and `SecureAlwaysClosed`. `SauProgress` and
  `DmaProgress` (what this boot has written) give `UnitsAlwaysAgree`.
- `TfmPortProofs`, the whole port (`IsoSpec`, `BootSpec`). `IsoInv` has seven parts. `UnitsInv` takes `TargetInv` past the set-up, where
  binding rewrites ACCESSCTRL but not SAU or DMA. `MpuInv` and `SlotsInv`: up to the slot the loops have reached, the slots
  are cleared, then static; afterwards each one that is on belongs to one asset of one partition
  that has been dealt with (`OwnedBy`), which is why a new region meets none of those there are.
  `PlaceInv` and `HandleInv`: the partition being bound has no handle yet, those before it have their own,
  and `nPRIV` is the opposite of the running one's privilege. `DevicesInv`: what a partition was given it
  has, unless a later one was given the same register (`LastGiven`). `CountInv`: a bind in progress has
  taken a region for each unprivileged device so far, and not one more. From it `IsoTypeCorrect`,
  `PrivilegeAlwaysRight`, `SecureClosedThroughout`, `SetUpHonestThroughout`, `SlotsAlwaysSound`,
  `DevicesAlwaysBound`. `MemoryCheckAlwaysSound`: if both ends lie in one region, all addresses do, as
  regions are intervals; and `BootRefinesPromise`: every step is one of `TfmPromise` or a stutter, where
  a bind that ends maps to the whole of what it gave, and `CountInv` names the obstacle of a refused one.
- `TfmLayoutProofs`. `LayoutInv`: the build is one that the checks accept. `Chain` and `Order` walk the
  areas from the start of flash to its end, each where the one before ends; whole sectors add up, and
  an even number of them has halves (`HalvesAreWhole`). From these `AreasAlwaysApart`,
  `ImagesAlwaysFit`, `OnlyNonSecureAlwaysOpens`.
- `SwdVerdictProofs`. `SwdInv`: the words of a table tell the fate of each suite of the run that set it
  up, no pointer to flash follows the last, and suites of a world end in order (`TableOK`); and the two
  tables are of one boot unless no Secure suite has been started (`OneBoot`). So what the script counts
  are the suites in the window (`SeenIsJudged`) and those it counts as passed have passed or are
  running (`ShowingFacts`): `CountsAlwaysRight`, `AllPassedAlwaysMeans`, `PassAlwaysReported`.

Model-checked only: liveness (in `ImplementsDemo`, `CallsReturn`, `IsAtomic`, `KeepsPromise`), which is
out of the prover's reach. The violations that section 4 lists are counterexamples, and nothing is
to be proved of them.

## 6. What is not modelled

`printf` and `stdio_init_all`; caches and barriers (a write is visible at once: the code issues
DSB/ISB after each group); the Non-Secure MPU (the code leaves it off); privilege inside the DMA MPU
(every region the code opens has the same P bit); NMI and faults inside Secure code, so the mark of
`isr_hardfault`, which any HardFault would leave, is only ever that of the client's fault; U-mode
pointers that name no memory, whose fault inside a service would be recorded as a caught isolation
fault; the misaligned fault that a 32-bit read of the opcode could take (the code reads 16 bits). Of the TF-M port: memory attributes, PXN and execute-never bits; a multi-core topology; a build
without TrustZone, without memory protection or without a Non-Secure image. Two unprivileged
partitions that name the same device are excluded (`BuildAssumption`): their two MPU regions would
overlap, and whether that can happen is decided by tools outside this repository. Of the layout
headers: the lengths of MCUboot's tables (section 4), names of drivers, heap and file-system sizes handed to other sources. Of the SWD script: a
failing OpenOCD, which prints no verdict.

The linker scripts, of the examples and of the port, place sections and do nothing else; what the
code depends on of them appears as constants (`TzLayout`, `TfmLayout`). `pico-sdk.patch` changes
third-party code, and the build files, the udev rules and the documents have no behaviour at run time.

## 7. Plan

Every part of the repository that behaves is modelled, and every safety property that a run checks is
proved, the safety halves of the four refinements included. Left to do: theorems that join components, as that the two
halves of `minimal-pmp` (`MinimalPmp` with its set-up in one step, `PmpSetup` with the set-up alone) are one
program, and that a layout which `TfmLayout` accepts satisfies `TargetAssumption`.
