# A TLA+ verification of Veron

Veron is a Linux system built from a bootstrap ladder (stages 0 to 4: from a
hand-encoded assembler to a C compiler and a kernel) and a package set (stages 5
and 6) that ends in a bootable image. This project models the parts that carry
state of their own or whose mistakes are silent: how a person's factors are
stored and verified, how the boot, the session and the lock screen depend on
them, removable media, flashing and growing disks, the browser's window and its
URL field, the package builder's checkpoints, and two parts of the C compiler
that everything is compiled with.

Paths below are under `src/`. VA is `spikes/stage5/packages/veron-auth/files`,
VS is `spikes/stage5/packages-amd64/veron-system/files/etc`, WP is
`spikes/stage5/packages/wpe-platform-veron/files`, VB is
`spikes/stage5/packages/veron-browser/files`, MC is
`stages/3-micro-c/micro-c`, PB is `spikes/stage5/tools/veron`.

## Inventory

| Component | State | Operations | Hard behaviour | What makes it correct |
|---|---|---|---|---|
| factor store: VA/enroll.c, wrap.c | `/persist/veron-auth`: auth.conf lines, `master.N.wrap`, `totp.wrap` | `veron-enroll keyfile, totp, card, autologin, remove` | several file writes per command, so crashes between them; failing writes; sticks swapped while a command runs | no line without a wrap; an armed gate has a key; an enrolment does not cost another key |
| verifier: VA/verify.c | `totp.state`, read-only otherwise | `veron_verify` from lock, greeter and console | several processes share one file without a lock; clock changes; enrolment meanwhile | a code twice only through a race that can be named; no enrolled factor skipped |
| session lock: VA/lock.c | slots of outputs, keyboard, entry, flags | Wayland handlers, `try_unlock`, exit | asynchronous events about outputs that come and go on every VT switch; failed allocations; a rival or dead locker | protocol order, all outputs covered, honest exit status, a factor always unlocks |
| console login: VA/login.c | none | prompt loop | | as the verifier |
| idle locker: VA/idle.c | none | idle and resume notifications | reads configuration at each event | an armed machine locks when idle |
| boot gate: VS/dinit.d/scripts/session-gate, greeter-session, labwc-session, VS/xdg/labwc*/autostart | `/run/greeter/passed`, `/run/veron-boot-authed` | gate loop, greeter, session start | shell scripts of crashed greeters go on running; polling; compositor restarts | no session without a verified factor; a factor opens the gate |
| removable media: VS/dinit.d/scripts/media-mount, hotplug-handler | mount table, dinit's service state | start, stop, uevents, kicks | background processes in any order; unmounts that fail; stale mounts; dinit's idea of STARTED | no dead mount is overlooked; a yank releases the service; a stopped service mounts what is there |
| flashing: VS/dinit.d/scripts/flashd, veron-flasher, veron-maintenance-init, stage 6 veron-boot.c | request FIFO, status file, one-shot marker, disks, the /persist bank in RAM | FLASH, STREAM, INSTALL, RESTORE-PERSIST, GROW-PERSIST, ARM-MAINTENANCE; the window's follow-ups; boot and pivot | power loss anywhere; equal PARTUUIDs on every image; a kernel with the old table; two requesters, one status file | marker used once; verified means intact; the running and the internal disks are safe; what was kept comes back |
| veron-growpart | GPT at both ends of the disk, ext4 size | read, five writes, fsync, re-read, resize2fs | kill and power loss between writes; a busy kernel; retry at boot | a table always reads; the file system stays inside |
| window: WP/wpe-toplevel-veron.c, wpe-view-veron.c, wpe-veron-shm.c, VB/chrome.c | sizes, the page's buffers and callbacks, the strip's two buffers | configure, render_buffer, frame, release, redraw, dispose | replies of a slow compositor in any order, after disposal too | no use after free, no redraw lost, the page draws on |
| URL field and seat: WP/wpe-veron-seat.c, VB/chrome.c, main.c | focus twice, repeat timer, caret, selection | pointer, key, touch, paste, navigation | focus changes, and a seat that loses its keyboard, while keys or fingers are down; byte offsets into UTF-8 | one owner of the keyboard; caret between characters; a key that is up repeats only after such a loss |
| package builder: PB, stages/5-user-space/build.sh and its workflow | recipes, `dest/`, its marker, the release asset, the build root | build with --resume and --upto, checkpoint, publish, merge | rounds that fail, time out or vanish; recipes edited between them | nothing stale or partial is built upon or shipped; rounds add up |
| micro-c preprocessor: MC/cc_macro.c | token list, definitions, conditional stack, expansion bound | directives, expansion | recursion, nesting, edits of the list being walked | what C prescribes; a run-away expansion is stopped on its line |
| micro-c code generator: MC/cc_core.c, cc_emit.c | symbol lists, break and continue targets, label counter, registers of the emitted code | statements, expressions, calls, functions | no tree and few registers: every construct saves what an outer one needs | the code does what C says |
| veron-pinentry, powerd, veron-vm, PID 1, image tools, veron-efiboot, the other programs | per process | | none that interleaves | not modelled |
| the rest of the ladder, CI | files | batch | none | not modelled |

Interactions: `veron-enroll` writes the store, `veron_verify` reads it;
`veron-lock` calls `veron_verify` and is called by the greeter's autostart, the
user's autostart, Super+L and `veron-idle`; `session-gate` starts the greeter
through dinit and learns of success only by a file; dinit starts labwc when the
gate has exited 0 and again whenever labwc ends; `veron-lock`, `veron-login`,
the gate and the hotplug handler ask dinit to start `media`, which makes the key
file reachable. The flasher talks to flashd through a FIFO and learns of results
by lines of a file; flashd runs `veron-growpart`; the marker flashd writes is
read by the loader at the next boot. The strip and the page of the browser share
one window of the platform and one keyboard. The builder compiles the packages
above with the toolchain the ladder ends in.

## Modules

| Module | Models | Notes |
|---|---|---|
| `KeySlots` | abstract: a set of factors and an armed flag | Enrol, Replace, Revoke, Arm, Disarm |
| `FactorStore` | enroll.c and wrap.c, one action per file write | implements `KeySlots` |
| `Verify` | verify.c, an attempt split at each access to a shared file; `enroll totp`, `card`, `remove` beside it | |
| `Locker` | abstract: a run of veron-lock as its caller sees it: who holds the session, whether the factors were proved, the exit status | Start, Decline, Take, Prove, Unlock, Fail, Lost |
| `SessionLock` | lock.c, one action per Wayland handler | implements `Locker`; the compositor's side of ext-session-lock-v1 is external |
| `BootGate` | session-gate, both autostart scripts, labwc-session, idle.c | `veron-lock` enters by its contract `Locker`: status 0, and with it the touch, only after a proof |
| `Media` | media-mount, hotplug-handler | dinit is external |
| `Flash` | flashd's loop, the flasher's thread, the marker, the loader's choice, the pivot | composes four programs over the FIFO, the status file and the disks |
| `Growpart` | veron-growpart from the read of the table to resize2fs, and the retry at boot | one action per write; page cache and medium are two copies |
| `Window` | toplevel, page view, shared memory and the strip's buffers | compositor, WebKit and weak pointers are external |
| `UrlBar` | the seat's routing and the URL field | compositor and page are external |
| `Builder` | the driver's build, checkpoint and merge, and the rounds of build.sh | what one step of a recipe does is external |
| `Preprocess` | the walk over the token list, one action per directive or expansion | uses RECURSIVE operators: TLC only |
| `Codegen` | the code generator as operators, and the machine that runs what it emits as actions | uses RECURSIVE operators: TLC only |
| `MC*` | the instances for TLC; `MCPreprocess` and `MCCodegen` also hold the reference meanings in C | the other components need no module of their own: the configuration named for them gives their constants |
| `FactorStoreProofs`, `VerifyProofs`, `SessionLockProofs`, `UrlBarProofs`, `WindowProofs`, `BuilderProofs` | the theorems of the module they are named for | |
| `BootGateProofs` | the theorems of `BootGate` and of `Media`, the service the gate kicks | |
| `FlashProofs` | the theorems of `Flash` and of `Growpart`, the program flashd runs | |

How state corresponds to the code is said at each variable. Data is abstracted:

- A key file is a member of `Keys`, a master secret the number of its
  generation; AES-GCM is "opens for exactly the bytes that made it". A TOTP code
  is `<<seed, step>>`; two steps never share a code (in the code, once in a
  million).
- The lock's entry is its length, one byte per key; `erase` is BackSpace or
  Escape. Text on the screen, keymaps and `failed_attempt` are left out.
- A removable disk has one partition. Equal `dinitctl` calls in flight are one.
  Any unmount may fail (an open file); a mount over one that stayed stacks on it
  (`under`), and `stuck` remembers the dead ones that umount refused.
- Files of the store are renamed into place, so a write happened or did not;
  nothing there models a disk that reorders writes (the code does not fsync).
- `Flash`: an image on a disk is whole, partial or absent; a persist partition is
  the token of what it holds; status lines are kinds with a device.
- `Growpart`: sectors are scaled (2 sectors of entries instead of 32); a CRC is
  "header and entries are of the same table".
- `Window`: a size is its height. Pixels are `fresh` or not.
- `UrlBar`: a byte is a letter, a separator, or half of a two-byte letter; a
  click's coordinate is a choice of a boundary. The keys that stay down long
  enough to repeat are `HeldKeys`.
- `Builder`: a tree is none, partial, whole, or tainted (whole, but built on a
  partial one), with the set of recipes and the sysroot it was made from; SHA-256
  is the identity on those. A build reads only
  what its recipe declares, the assumption PB states itself (`package_keys`).
- `Preprocess`: a token is a tuple of fragments, so `##` is concatenation. The
  numerals of an `#if` are 0 to 9 and its bitwise operators work on 15 bits.
- `Codegen`: an expression arrives as its tree; a value is an integer of one
  size; two of seven architectures, chosen because one pushes return addresses
  and the other links and jumps through a register.

## Runs that pass

**store** (2 slots, 2 paths, 2 keys, 2 masters, enrolment writes may fail).
Two of each are what the cases need: a spare under the same path, a spare under
another, a stick absent during an enrolment (second master), a full slot table.
`EnrolledHasWrap`, `GateHasKey` and `TotpHasSeed` hold through every crash;
`OtherPathsKept` says what an enrolment may cost; `ImplementsKeySlots` is the
refinement to the abstract store.

**verify** (two callers that run as veron, 2 time steps, 2 seeds; 3,981,000
states). Attempts overlap each other and every enrolment, a write of totp.state
fails or is torn between its truncation and its bytes, the power goes and the
clock is set back. verify.c reads, compares, truncates and writes without a lock,
so a code can be accepted twice (VerifyReplay.cfg below). `ReplayNeedsRace` says
exactly when: another attempt stood between its own comparison and its write as
the code was recorded, or since then an attempt read the file while a write had
left it empty, or used a seed replaced meanwhile. Everything else the step
counter stops. Two steps give the last accepted one and a later or an earlier
one; two seeds give a code of a replaced seed. `NoFactorSkipped` holds while lines
of auth.conf are added and removed during an attempt.

**session_lock** (2 outputs and 2 slots, 2 sizes, entry buffer of 3, 2 events in
flight, 1 death; 309,000 states). With as many slots as outputs, a slot must be used again after
one VT switch. Events in flight are what make the client's view stale; two are
enough for a configure to arrive for an output whose removal is already queued.
`NoProtocolError`, `EveryOutputCovered` and, under fairness, `FactorUnlocks`.
`KeyboardReturns` is what `FactorUnlocks` needs of `seat_caps`: with every event
handled and our VT in front, the client holds a keyboard that delivers.
`ImplementsLocker` is the contract with whoever started the program: the session
a run locked is opened only by that run, after it verified the factors; every end
before that leaves it locked and is not status 0. A connection lost after the
proof and before the unlock's roundtrip is the one exception (`Locker!Lost`): the
session may be open or locked, and the status is 0 (SessionLockLost.cfg below).
The touch that follows status 0 in the greeter still rests on a proof. The
compositor routes keys to a lock surface only after it has sent `locked`; the
client never reads `locked_ok`, so an unlock before `locked` is prevented by the
compositor alone.

**boot_gate** (3 faults, 1 reboot). `SessionVerified` with greeters that crash
between the unlock and the touch, whose script then touches the file of the next
round or kills the next greeter. `GateOpens` under fairness.

**media** (boot disk, two sticks, one with a foreign file system; a wait of 2
instead of 12 seconds; 22,000 states; every umount may fail). `StaleMountNoticed`
(safety): a mount whose disk is gone has its removal still to be handled, or
umount was tried and refused. `YankReleases`: the service is stopped all the
same, or a disk that is there is mounted. `StoppedMounts` is what re-inserting and a
kick repair: a stopped service mounts a stick that stays, over whatever dead
mounts are left. A service held STARTED over nothing is not repaired by a kick,
which is what MediaInsert.cfg below shows; hence the premise.

**flash** (the boot stick, another Veron stick, an internal disk; 3 requests;
816,000 states). Three requests are a flash with a second one before or after
it, or an arming and a flash in maintenance mode. `OneShot` counts maintenance
boots against markers written, and deletions of one that the firmware refused,
through crashes of the arming, the boot and the pivot;
`VerifiedHolds` follows a verified disk through grows and restores when the
kernel still shows the old table; `SacredDisks` is an action property about
every write; `Preserved` (liveness) is the window's promise to restore, and
`RestoreNotForgotten` its safety core: at every moment between the write and the
restore one of the window's note, the window's thread, flashd or a line the person
will see carries it. `calm` is true while no request was typed by hand, none
overlapped, no disk moved and the window stayed open.

**growpart** (disks of 9, 14 and 16 sectors, so that nothing, too little and
enough is free, with a growth so small that zeroing the old backup reaches into
the new one's entries; chosen sizes that fill, fit, shrink and exceed; 174,000
states). The protective MBR is one of the writes.
`TableSurvivesKill` is why the backup is written before the primary;
`FsInsidePartition` is about what is on the medium after a power loss.

**window** (one shared-memory and one DMA-BUF buffer, a configure smaller than
the default and smaller than the strip; 48,000 states). Two buffers of the page
are what it needs to have one shown and one pending; the strip has its two.
The safety under `BuffersComeBack`, `NoBufferLost`, is proved (see Proofs).

**url_bar** (3 bytes of text, which hold a two-byte letter and a neighbour; one
finger, a pointer, and a keyboard of which a letter and an arrow can be held;
736,000 states). The seat may lose its keyboard and its pointer at any moment, as
on a VT switch. `FocusAgrees` and `CaretOnBoundary`; `RepeatHeld` says that a
repeating key is down in a window that has the keyboard, or was repeating when
the seat lost its keyboard (UrlBarRepeat.cfg below), and that no other order of
presses, releases, leaves and enters does it.

**builder** (3 packages, 2 recipes each that move, remove or close a cycle of
dependencies, or none; the third package has no installs.txt, one recipe is
build-only; 2 sysroots, 2 edits, 1 fault, any number of rounds out of time;
98,000 states). Two edits are a change and its reversal. `RootFresh`: what is
staged was made of the current recipes and sysroot and, where the listings are
committed, is what a build from nothing would have made; `SystemFresh`: so is
what is shipped, and nothing of a package whose recipe is gone; `RelayShips`
(liveness). A listing is what a restored tree is compared with, so a package
without one may be restored partial (BuilderUnlisted.cfg below), and so may
whatever is built on it. Rounds run as the workflow runs them, on a fresh machine
from the published checkpoint, and `--upto` names a package.

**preprocess** (a family of programs with nested conditionals, function-like
macros, stringify, paste, recursion and includes; bound of 20 expansions instead
of 10000, more than any of them needs; 29,000 states). `ExpandsAsC` compares with
a reference written from the C standard's rules, not from the code, on programs C
accepts. Four families on which C has no result, or another one, are named apart:
programs C rejects and the code has a diagnostic for (`Rejected`), lists cut off
inside a directive (`Cut`) and macros that lead to each other (`Loops`, which C
expands) are refused; `Lax` are programs C rejects and micro-c accepts.
`RunawayStopped`: the walk ends, or an argument list that continues on another
line makes it pass a newline, which resets the bound, again and again
(PreprocessHang.cfg below).

**codegen** (1185 programs on two architectures, a stack of 60 words, deeper
than any of them goes; 348,000 states). 450 programs are every way out of every
nesting of two loops, switches and blocks; 729 are every pair of operands that
call, branch or assign in every place of an expression; the rest are goto,
recursion, statics and shadowed names. Each is compiled and run to its end:
`RunsAsC` and, under fairness, `Halts`.

## Where the code and a sentence of the repository differ

Each configuration below checks one property that states the sentence, on the
module its name begins with (`MCUrlBar`, `MCBuilder` and `MCPreprocess` for those
three), and TLC shows it violated: `tlc -config <file> <module>`.

| Configuration | Sentence | What happens |
|---|---|---|
| MediaMaintenance.cfg, `BootDiskNeverMounted` | media-mount:69 "THE BOOT DISK IS NEVER A MOUNT TARGET" | the scan excludes only disks with a line in /proc/mounts; in maintenance mode the boot disk has none and is mounted read-write |
| FactorStoreSpare.cfg, `SpareKeepsOriginal` | VA/wrap.c:3 "enrol a second key file, or a third, without invalidating the first" | media-mount gives every stick the same path, and an enrolment of an enrolled path rewraps its slot |
| FactorStoreFault.cfg, `GateHasKey` | VA/enroll.c:713-717, removing the last factor while armed is refused | `remove` ignores a failed `conf_set`, unlinks the wrap, and later counts the dead line as a factor |
| VerifyGreeter.cfg, `MatchedCodeAccepted` | session-gate:24 "whatever modes enrolment wrote, verification works" | the greeter may not write totp.state, so every correct code is refused there |
| VerifyReplay.cfg, `NoReplay` | VA/verify.c:204 "A second use of an accepted code must be refused" | two attempts that both read totp.state before either wrote it both accept; so does one that reads it truncated |
| SessionLockLost.cfg, `ExitStatusHonest` | VA/lock.c:698 "THE EXIT CODE IS THE CONTRACT, AND 0 MEANS ONE THING" | a connection lost after `try_unlock` and before the roundtrip of the unlock returns `unlocking ? 0 : 2`, 0, with the session still locked |
| BootGateCrash.cfg, `CrashLandsClosed` | labwc-session:19 "every crash, everywhere, now lands on the closed side" | a compositor crash under a locked screen restarts into an open session, since the boot marker stands |
| BootGateIdle.cfg, `IdleLocks` | VS/dinit.d/veron-idle:3 "starts veron-lock when the person has walked away" | idle.c reads `~/.config/veron/auth.conf`, which enrolment does not write |
| MediaInsert.cfg, `InsertionMounts` | media-mount:215 "A real insertion re-triggers media through the hotplug handler." | after a start that found nothing dinit holds the service STARTED |
| FlashOverlap.cfg, `FollowUpAfterVerify` | veron-flasher main.cxx:270-272 "we must restore it AFTER the image lands and verifies" | the window takes the VERIFIED line of another request for its own and sends grow and restore while its flash still waits |
| GrowpartRetry.cfg, `GrowMatches` | veron-growpart:12-13 "the ext4 inside it grows to match" | a grow killed between table and resize2fs is not finished by the retry: nothing is left to grow, so it ends before resize2fs |
| WindowDecoration.cfg, `Decorated` | WP/wpe-toplevel-veron.c:341-345 "SERVER-SIDE DECORATIONS, ASKED FOR EXPLICITLY" | the first paint of the background (:216) destroys the decoration object |
| UrlBarPaste.cfg, `CaretOnBoundary` | VB/chrome.c:266-270 "so the result is always valid UTF-8" | pasted bytes are not validated |
| UrlBarTouch.cfg, `TapStays` | WP/wpe-veron-seat.c:636-637 "a tap in the chrome cannot reach the page" | the surface is kept once for all fingers, so a second finger moves the first one's events |
| UrlBarRepeat.cfg, `RepeatOnlyHeld` | WP/wpe-veron-seat.c "LEAVING STOPS THE REPEAT" | a seat that loses its keyboard capability (:766-772, every VT switch) releases it without stopping the repeat |
| BuilderUnlisted.cfg, `RestoredWhole` | PB:3028-3035 "a broken cache entry, which is the thing worth catching" | six recipes have no installs.txt, so a partial tree of theirs is not noticed and is restored |
| BuilderTypo.cfg, `RootFresh` | PB:1720-1722 "a left-behind dest/ from a different recipe is exactly what `--resume` must never build on top of" | a round whose `--upto` names no package dies before it drops what is stale; the publish step, which always runs, records the restored trees under the current keys |
| BuilderLaptop.cfg, `RootFresh` | build.sh:588-589 "the next --resume restores exactly the complete, still-valid ones and rebuilds the rest" | `checkpoint` reads the recipes again after the build, so one edited meanwhile is recorded as built; so is a leftover of a killed round, and after a refused sysroot change the whole of `dest/` |
| PreprocessHang.cfg, `Ends` | MC/cc_macro.c:1359 "MUTUAL RECURSION IS NOT COVERED BY THE PAINT, AND MUST NOT HANG" | the bound on expansions is reset by every newline (:1482), one inside an argument list included |

Smaller things met on the way, not checked by a run:

- Store and gate: the `require` line enroll.c writes is read by nothing;
  VS/xdg/labwc-greeter/autostart:7 says a refused lock exits 2, lock.c exits 1
  (both are "not 0" for the script); a machine armed after an unarmed boot
  refuses a restarted session until the next boot, which labwc-session calls the
  design.
- Flashing: the backup is skipped silently in preserve mode when it cannot be
  made (maintenance-init 308-315); the bank is in RAM, so a power loss between
  write and restore loses it; a window that is closed, or a grow that is
  refused, never sends the restore; a flashd that restarts truncates the status
  file while the window keeps its offset (flashd:48, main.cxx:299).
- growpart: a power loss before the fsync can leave no readable table (the
  comment at :229 speaks of a kill).
- Window and seat: a touch on the page leaves the keyboard with the strip; a pointer that leaves with its button down leaves a
  selection under way; `set_chrome_height` tests h > 0 where the others clamp.
- Builder: `bank_now` looks for GH_TOKEN in an environment `cmd_build` has
  cleared, so it never uploads; the relay counts restored directories before the
  stale ones are dropped, so a round after a wide edit can look like no progress
  and stop the relay; a round without `--resume` replaces a fuller checkpoint by
  its own.
- Preprocessor: `F(F(1))` is painted; an argument that names a later parameter
  is captured; an empty argument copies to the end of the list; a macro name and
  its "(" on two lines are not a call; the `#if` evaluator groups to the right
  inside a level; `#elif` is evaluated after a branch was taken; `#warning`
  leaves its words; an `#include` on the last line reads past the list; a file
  that includes itself without a guard is read for ever. Checked as `Lax` and
  `Loops` by the run: an unterminated `#if` whose group is taken (1449-1491), a
  second `#else`, too few arguments (1163-1281) and an empty operand of `#if` are
  accepted, and mutual recursion is refused where C expands it.
- Code generator: the variable of `for (int i ...)` stays in scope after the
  loop (6164-6170); bit-field stores and struct copies overwrite REGISTER_TEMP
  inside an argument list (5108, 5173); statics are looked up before locals and
  are not scoped by blocks (207-220); a statement after `break;` in a case is
  refused (5862-5881).

## Fairness

Weak fairness stands for "the process is scheduled": the client's dispatch, the
gate and greeter scripts, dinit, handlers, flashd, the flasher's thread. The
other assumptions:

- `SessionLock!FairSpec`: the relaunch loop of the autostart starts the client
  again; the compositor eventually sends `locked`; another locker is eventually
  satisfied; the person keeps pressing Enter (strong fairness, as VT switches
  disable the key again and again).
- `BootGate!FairSpec`: a person with a factor presses Enter at a greeter. The
  premise `TouchSeen` of `GateOpens` excludes one schedule: a touch that falls,
  round after round, between the gate's last look and its `rm -rf`, two points a
  second of sleep apart from a script that only has two commands left.
- `Media!KickedSpec`: a person who is refused tries again, which kicks media.
  dinit takes calls whenever it is not stopping the service (strong fairness).
- `Window!FairSpec`: events that arrived are dispatched (wpe-veron-source.c
  35-84) and the compositor answers a frame request and releases what it no
  longer shows, as the Wayland protocol has it.
- `Builder!FairSpec`: a dispatched round runs on and another follows it. A round
  runs out of time only after it finished a package; the relay itself stops when
  a round finished none. Failing steps, failing uploads and lost machines are
  bounded by `MaxFaults`. The premise of `RelayShips` is the relay's way to
  dispatch: every round resumes, none stops early.
- `Preprocess!FairSpec`, `Codegen!FairSpec`: the compiler, and the processor
  that runs its output, take their next step.

## Proofs

`FactorStoreProofs`, for every number of slots, paths, keys and masters:

- `TypeCorrect` and `TotpAlwaysHasSeed` without further assumption;
- `LinesHaveWraps`, `GateStaysOpenable`, `EnrolKeepsOtherPaths` and
  `StoreImplementsKeySlots` from `"remove" \notin WriteFaults`, the assumption
  FactorStoreFault.cfg shows to be needed.

`EnrolledHasWrap` and `GateHasKey` are not inductive: between the wrap and the
line, and between a line's deletion and its wrap's, what holds depends on where
the running command is. `StoreInv` says it: a command about to write the line
has its wrap in place, one about to unlink has its line gone, a removal that is
under way on an armed machine leaves a line outside its list.

`BootGateProofs`, for any number of faults and reboots: `TypeCorrect` and
`OnlyVerifiedSessions`. `SessionVerified` alone is not inductive, as the marker
is written from a file that is written by a script; `GateInv` names every piece
of evidence along the way (the file, a live or stale script about to touch it,
the gate past its verdict) and says that each implies a verified factor.

The same module proves of `Media`, for any set of disks, `MediaTypeCorrect`
(media-mount runs exactly while dinit counts the service as starting) and
`StaleMountIsNoticed` on either boot, with unmounts that fail. `StaleMountNoticed`
is not inductive: a handler takes its removal out of the queue and unmounts only
the top of the stack. `CorpseInv` adds that a removal in the queue is of a disk
that is out, that what lies below another mount was refused by umount, and that a
start that waits or scans over a mount has tried to clear it.

`VerifyProofs`, for any number of attempts at once, seeds and time steps, and
without further assumption: attempts and enrolments overlap, writes are torn.

- `FactorsAreChecked`. `FactorInv` follows one attempt: what it owes is still
  enrolled, and one that has come to the card has satisfied the TOTP it owed.
- `ReplaysAreRaces`. `ReplayNeedsRace` is not inductive, as the last accepted step
  is read, truncated and rewritten in different steps. `ReplayInv` says that a
  seed not yet made, or not yet shown, has no used code (`SeedInv`); that
  totp.state covers every used code that no race exposed, except while it is cut
  (`FileInv`); and that an attempt past its comparison holds a code later than all
  of those (`LaterInv`).

`SessionLockProofs`, for any finite set of outputs, any number of slots, any
queue of events: `TypeCorrect` (the entry's and the slots' bounds),
`ProtocolKept` and `OutputsCovered`; `LockImplementsLocker` and
`KeyboardComesBack` below. The
assumptions on the constants are the code's: a finite registry and an entry of
at least two bytes (`MAX_ENTRY` is 256). The difficulty is that the client acts
on an old view: an output may be gone, or gone and back, while the events that
say so wait in the queue. `QueueInv` therefore speaks of a sequence of views,
one per event in flight, that leads from the outputs the client has slots for
to the outputs the compositor has; each event is possible in the view before it,
and a name that was withdrawn does not come back within the queue. From it
follows that a global is added once, removed only when known, and that a
configure reaches the surface it was sent to. `SurfInv` says which surface still
owes its buffer to a configure in the queue (`EveryOutputCovered` only speaks of
an empty queue), `LockInv` where the lock object is.

`LockImplementsLocker` proves the refinement to `Locker` from the same invariant,
one abstract step or a stutter per handler; `unlocking` is the proof, and `LockInv`
places the lock object where a verified run can release it. A connection lost after
the proof maps to `Lost`, with the status lock.c really returns. `KeyboardComesBack`
needs an invariant of its own: `KeyboardInv` says after how many of the queued
events the client has a keyboard, that every capability event changes that, and
that the last one leaves it as the seat is now, so an inert keyboard always has
the event that removes it ahead of the one that brings the next.

`FlashProofs`, for every set of disks and every split into internal and
removable ones, requests typed into the FIFO by hand included:

- `MaintenanceOneShot`: `MarkerInv` counts boots into maintenance plus the one a
  marker on the boot disk still promises, against markers written and deletions
  the firmware refused.
- `VerifiedStays` and `DisksAreSacred`: `DiskInv` says what flashd's checks
  established is still true where it is used: the target of a write is not the
  disk the system runs from, an internal one carries consent, a copy goes to a
  partition whose place the kernel has read again, and a disk about to be written
  is no longer counted as verified.
- `RestoreRemembered`: `RestoreNotForgotten` speaks of the moment after the write,
  and what is true then was decided when the person clicked. `CourseInv` lists the
  stages of an undisturbed request (sent, writing, verified, growing, restoring,
  done, arming, or told of a failure) with what the window, flashd and the status
  file hold in each, and every step leads from a stage to a stage.

and of `Growpart`, for every size of disk, partition, entry array and grow:
`GrowTypeCorrect`, `GrowKeepsFsInside` and `WritesKeepATable`.
`FsInsidePartition` speaks of the medium when a table reads there; `GrowInv`
says more, that the entries in the page cache and those on the medium are each
of a table the file system fits in, since either may be the one that survives,
and what a grow has behind it at each of its places (`JobInv`): parts written, the
MBR among them, medium synced, size rescanned. The resize is safe since it comes after the sync.

`WindowProofs`, for every pool of page buffers and all heights: `NothingTorn`,
`PageAlwaysFits` and `RedrawRemembered`. The heart of `WindowInv` is the same for
the strip's and the page's buffers: one that the compositor reads, or whose
release is still queued, is flagged busy, and never both at once, so handling the
release cannot clear the flag of a buffer that was committed again meanwhile.
`BuffersAccountedFor` proves the converse, `NoBufferLost`: a buffer counted as given
away is read by the compositor or has its release queued. `OutInv` adds that a
buffer WebKit counts as given away still has its view to tell.

`UrlBarProofs`, for every text: `CaretSafe` from `ValidInputs` (what is typed,
pasted and reported as an URL is valid UTF-8, which UrlBarPaste.cfg shows to be
needed), `FocusCorrect` and `RepeatCorrect` without further assumption.
`RepeatInv` adds to `RepeatHeld` that a keyboard that is in the window is one the
seat has. The
caret's proof rests on what the editing operators do to the boundaries of a
string of bytes: deleting between two boundaries, or inserting whole characters
at one, keeps the text well formed.

`BuilderProofs`, for any set of packages and any dependencies: `StagedIsFresh`
and `ShippedIsFresh` from `CleanRunner`, the runner of the workflow: dest/ is not
kept on the machine and `--upto` names a package, as BuilderLaptop.cfg and
BuilderTypo.cfg show to be needed. Nothing is assumed of the listings: packages
without one are in the statement. The core of `BuilderInv` is that a marker vouches
for every directory beside it (`Vouched`), which is what a round inherits, and that
a directory of a running round is missing or made from exactly the inputs of its key
(`MadeFrom`); it is staged only if its install ended or it has no listing
(`Stageable`), and tainted only if something it is built on has none. It rests on
two facts about the operators: package_keys, which follows dependencies for as
many rounds as there are packages, has then reached everything the package is
built on, and topo_order's next package has all its dependencies behind it. Both
are inductions; they are done by least counterexample over the natural numbers
(`LeastNat`, `Induct`), for a set in place of a predicate.

Only model-checked:

- every liveness property, of which only the safety under it is proved where there
  is one (`KeyboardReturns`, `StaleMountNoticed`, `NoBufferLost`,
  `RestoreNotForgotten`) (`GateOpens`, `FactorUnlocks`, `YankReleases`,
  `StoppedMounts`, `StripCatchesUp`, `PageDrawsAgain`, `BuffersComeBack`,
  `RelayShips`, `RunawayStopped`, `Halts`, `Preserved`), since the prover handles
  neither fairness nor ENABLED;
- `Preprocess` and `Codegen`: they are written with recursive operators, and
  `ExpandsAsC` and `RunsAsC` say what a recursion over programs computes.

## Plan

Done, in this order: `KeySlots` and `FactorStore`, `Verify`, `SessionLock`,
`BootGate`, `Media`; proofs of the store and of the gate; `Flash`, `Growpart`,
`Window`, `UrlBar`, `Preprocess`, `Codegen`, `Builder`; proofs of `UrlBar`,
`Flash`, `Builder`, `Window`, `Verify`, `SessionLock`, `Growpart`, `Media`;
`Locker` and its refinement; the safety under the liveness of `SessionLock`,
`Media`, `Flash` and `Window`. Every invariant and action property of the runs is
proved, but those of the two compiler modules.

What could follow: `BootGate` composed with one `Locker` per compositor in place
of its four lock actions; veron-pinentry's line protocol and PID 1's mounts as
small modules; a version of `Codegen` over a grammar small enough to state with
recursive functions, whose break and continue targets could then be proved about.

## Not modelled

- Cryptography and number formats, drawing, terminal and environment handling
  of veron-login, the configuration part of labwc-session, hotplug branches
  other than block devices, two `veron-enroll` processes at once (each rewrites
  auth.conf from its own read), more outputs than MAX_OUTPUTS.
- The flasher's download and decompression; fullscreen, maximise and DMA-BUF
  import of the window; popovers, settings, downloads and history of the
  browser; clipboard pipes.
- Of the builder, the reports and gates that read `dest/` and print, fetching,
  and what the steps of a recipe do.
- Of micro-c, types (sizes, pointers, structs, floats, bit-fields), global
  initialisers, inline assembly, va_arg, precedence, the reader, and five
  architectures.
- The components PROJECT.json lists as not modelled. Most of the repository's
  lines are among them: the assemblers, linkers and C library of the ladder,
  vendored reference compilers, and the image tools are sequential translators
  without state that outlives a run, which the repository checks by reproducing
  its own binaries and by golden files; a transliteration into TLA+ would
  restate them without finding an interleaving to explore.
