# Verification of the Goodix 53x5 / 550c fingerprint driver

These modules model `src/drivers/goodix53x5`, a libfprint driver for two
families of Goodix sensors: the 53x5 ("GTLS", a home-made session over bare
messages) and the 550c ("TLS_PSK", TLS 1.2 with a pre-shared key inside packs).
TLC checks them on small instances, TLAPS proves the main results for every
value of the constants. A module name below is a file of this directory, a
file name such as `session.c` stands for
`src/drivers/goodix53x5/goodix53x5-session.c`.

## The system

Everything runs on one GLib main loop inside fprintd. There are no threads:
what interleaves are *callbacks*, of USB transfers, timers, cancellables, system
sleep, and libfprint's next request. The driver is a stack of state machines
(`FpiSsm`). A handler of a state submits a transfer or a sub-SSM; the callback
of the transfer advances the SSM that submitted it.

| Part | State it keeps | Operations | Talks to |
|---|---|---|---|
| Entry points (`goodix53x5.c`) | the action's cancellable | open, close, verify, identify, enroll, cancel, suspend, resume | libfprint above, the SSMs below |
| Task SSMs (`auth.c`, `enroll.c`) | pending result or error, `action_result_reported`, `verify_wait_finger_up`, images, enroll stage | reinit, capture reference, wait for finger, capture, match or process, finish | scan sub-SSMs, the matcher, libfprint's reports |
| Scan sub-SSMs (`scan.c`) | `blocking_ssm` with its resume and shutdown states | reference capture, finger wait, capture, finger up, deactivate | command sub-SSM, cancellable reads |
| Session (`session.c`) | `usb_interface_claimed`, `needs_reinit`, `suspend_pending`, handshake and heal flags | open SSM, self-heal SSM, reinit sub-SSM, suspend, resume | sensor, PSK and firmware files, TLS engine |
| Transport (`transport.c`) | the reassembly buffer, the outstanding command | send a message in 64-byte chunks, receive one, ACK and reply of a command | libfprint's USB transfers |
| Protocol (`proto.c`) | none beyond the buffer | build, wrap, feed, parse | transport |
| Secure channels (`tls.c`, `crypto.c`) | OpenSSL object; GTLS keys and counters | handshake, decrypt an image | session, scan |
| Calibration, image, match (`calibration.c`, `image.c`, `match.c`, `sigfm/`) | FDT baselines; nothing | arithmetic on frames | scan, auth, enroll |
| Sensor (external) | mode (application or bootloader), committed PSK, application image, finger detection | commands | transport |
| Scripts (`install.sh`, `sysext/`, `tools/`) | files on disk | build and install | nothing at run time |

What is hard in this code: a read without timeout that a cancellation, a
suspend or a finger may end, in any order; results that are decided before the
sensor is shut down and must survive the shutdown's failure; a claim that a
sleep silently invalidates; and a heal that erases the sensor's application
before it writes a new one. `PROJECT.json` lists these hazards line by line,
with the property that watches each.

## Modules

| Module | Models |
|---|---|
| `AuthSession` | one opened sensor and its verify, identify and enroll actions, with cancellation, suspend and resume |
| `AuthService` | the abstract promise to libfprint about one action |
| `MCAuthSession` | fairness, liveness and the disputed statements of `AuthSession` |
| `AuthSession_proofs` | its inductive invariant and theorems |
| `AuthService_proofs` | that `AuthSession` implements `AuthService` |
| `OpenHeal` | the open SSM, the self-heal SSM, their done handlers and the sensor's persistent state |
| `MCOpenHeal` | fairness, liveness and the disputed statements of `OpenHeal` |
| `OpenHeal_proofs` | its inductive invariant and theorems |
| `Provisioning` | the abstract promise of an open about the unit: its PSK, its application, its answer |
| `Provisioning_proofs` | that `OpenHeal` implements it |
| `SensorLink` | commands, ACKs, replies and events as messages over a pipe that keeps what was not read |
| `MCSensorLink` | the runs of `SensorLink` |
| `SensorLink_proofs` | that driver and sensor stay in step on an undisturbed link |
| `MatchDecision` | the loops that score a capture against the enrolled prints, and their verdict |
| `MCMatchDecision` | the galleries of the run |
| `MatchDecision_proofs` | the loop invariant and the verdict, for every gallery |
| `Calibration` | the finger detection's tolerances, baseline and thresholds, and the steps that write them |
| `MCCalibration` | zones, readings and OTP values of the run |
| `Calibration_proofs` | its inductive invariant and theorems |
| `Framing` | messages in USB chunks: splitting, reassembly, and what an abandoned receive leaves behind |
| `MCFraming` | the instance and the disputed statement of `Framing` |
| `Framing_proofs` | its inductive invariant: the buffer's bound, order and wholeness in step, no joining out of step |

### AuthSession

A step is one callback with every SSM handler that runs before the next
transfer is submitted, as on the main loop. `st` names the state whose transfer
is outstanding: the scan states carry the prefix of their sub-SSM (`REF_`,
`FW_`, `CAP_`, `FU_`, `DE_`). A command exchange is one asynchronous operation,
with one outcome; so is the open SSM when it runs as the reinit sub-SSM
(`REINIT`). The variables of the first group are fields of the device struct
under their own names, shortened where `wait_up` stands for
`verify_wait_finger_up`, `pending` for the queued report or error.

The environment: `sys` is the host's way into and out of sleep as libfprint
drives it (a refused suspend makes libfprint cancel the action), `link` becomes
`STALE` when a sleep has invalidated the claim, `sensor` is what the last sleep
or arm command left. A finger may arrive or not. `orphan` is a read that the
resume path abandons while it is still submitted; its completion jumps an SSM
that does not expect it and `st` becomes `DESYNCED`, from where only a restart
of fprintd leads back. `BlockingConsistent` says which SSM is blocked; it does not
count the reads on the pipe, and no property says that there is only one: there is not.
Verify and identify are one action `AUTH`: they differ in how the verdict is found,
which is a free choice here.

`AuthService` has no SSMs: an action decides at most once, delivers that
decision at most once, never ends without an error before it delivered, and
never loses a match. Run `auth` checks that the session implements it (its
variables are the session's variables of the same names).

### OpenHeal

The open SSM of both families, the self-heal of the 550c and their done
handlers, to the level of one transfer per step. `SsmFails` is the done handler
of a failed SSM, which for a failed open of the right kind starts the heal. The
sensor has a mode, a committed PSK, an application, the chunks of the PSK
container and the gap-free bytes of the image written since the last erase;
commands take effect whether or not their reply arrives (`HealCommandFails`).
`Crash` is the end of the daemon or a loss of power at any step. The sensor is
external code: what its bootloader answers to the open SSM is not known from
the source, so it is a constant, `IapOpens`. Likewise the driver does not count the
packs of a TLS handshake; that the sensor ends it after `TlsFlights` of them is an
assumption, which `StepsBounded` and `OpenEnds` rest on. An override is another PSK,
the all-zero one (also what an unreadable file amounts to) or unusable; it does not
change during a heal, which looks at it once, before it starts.

`Provisioning` has no SSMs and no files: a unit is on a foreign PSK, on the
all-zero one, or erased. A 550c loses a foreign PSK only together with its
application and gets the application back only together with the all-zero PSK,
both within an open request; an open succeeds only on a unit with an
application, and a unit is called reprovisioned only if it is. `OpenHeal`
states the mapping (`unit` from the sensor's PSK and application, `request`
from `phase`, `answer` from `outcome`); the crash and the failed command whose
effect took place map to steps of the abstract module, not to stutters.

### Framing

One side of the wire: the sensor sends messages, the receive callback of
`transport.c` feeds chunks to the buffer of `proto.c`. The sensor is taken to
frame as the driver's own send path does (`Frame`), with the last chunk padded
or not. A byte is known by the message it belongs to and its position there; a
continuation marker is the position `MARK`, padding is position 0. So the model
sees exactly which bytes were joined. A header is decoded to its true length
only where the buffer really begins with one; anything else decodes to any
value, and a checksum passes on a whole message and may or may not pass on
anything else. `GiveUp` is a timeout, a transfer error or a cancellation: it
leaves the chunks that were not read in the pipe.

Both framings hold while the receiver is in step (`InOrder`,
`OnlyOversizeRefused`). The buffer limits the chunks and not the message: a bare
message that would fit is refused when the padding of its last chunk does not.
Out of step only bare framing protects itself: a chunk that continues one message is
never joined to another (`BareNeverJoins`). Packs carry no markers, so the
remains of one are read as the header of the next; only the checksums can tell.

### SensorLink

The same scan states as `AuthSession`, one level lower: the state of a command
is `phase`, what `goodix_cmd_ssm_handler` or the cancellable read waits for.
`Enter` sends a command and `Accept`, `AcceptShort` and `Refuse` read one message
with the checks of `transport.c`, `commands.c`, `crypto.c` and `tls.c`. Messages
carry no number of their request: an ACK names a command, a reply its command
family, an event the detection it comes from; only images are numbered, by the
HMAC counter of GTLS or the record number of TLS (`expected`). Chunks are not
visible here: that is `Framing`. A transfer that fails leaves its command with
the sensor, which answers it later; a message may be garbled, the record of an
image be cut short, a wait be cancelled. Nothing empties the pipe but the USB
reset of the open SSM (`LinkReset`). `old` is a history mark: the driver has
sent a later command since.

`InStep` says exactly what the sensor and the pipe hold in every state of the
driver, as long as no disturbance has struck since the reset; `AnswersMatch`
that then no message is refused and none is taken for another's answer. What
the code does after a disturbance is the subject of the two runs that violate a
comment of the source.

### MatchDecision

`GOODIX_VERIFY_MATCH` of `auth.c`: one turn of a loop per step, for an identify
over a gallery and a verify over one print. A stored sample is empty, of no use
to the matcher, or scored; which one is data, and so are the score and whether
the capture has enough keypoints. `exhaustive` is the debug switch that keeps
the loops from stopping early. The reference is declarative: `Expected` is the
verdict of the whole gallery, `NobodyElseScoredBetter` what it means to report
the right person. An early stop is allowed only among the prints of one user,
so it may report another print of that user than the best, never another user.

### Calibration

The finger detection compares each zone with a threshold made from a reading.
The state is the three bases and the event and touch flags of the device struct;
`diff` stands for the five OTP bits the tolerances are computed from. The steps
are those of the open SSM that touch the bases (alone or as the reinitialization
of an action, failing at any point), and of the scan: a down event, its check
against noise, the lift. `parse_otp` clears everything before it fills in
anything, so a reinitialization that fails leaves cleared bases behind; what
keeps a scan from using them is `needs_reinit` alone (`ArmedOnBaseline`). A base
is kept as the byte that its two bytes repeat.

## Runs

| Run | Instance | Shows |
|---|---|---|
| `auth` | both families, two enroll samples | the session's safety: suspend requests are answered by somebody, captures have a claim and a reference, matches are delivered, a failed action is followed by a reinitialization, clean ends leave the sensor asleep; no loop of an action runs without a wait for the finger or the host; refinement of `AuthService`; suspends and cancellations end |
| `open` | both families, image of 3 bytes in chunks of 2, two handshake packs, three failures | open and heal: claim balance, bounded retries and erases, a whole image at the check, success only for a provisioned sensor, handshakes on a verified PSK, no writes without consent, a bounded number of callbacks a request, opens end, an erased sensor is restored; refinement of `Provisioning` |
| `framing` | chunks of 4, buffer of 12, payloads of 0, 3, 4 and 8, three messages | the buffer bound, order and wholeness in step, and no joining of messages out of step in bare framing |
| `link` | both families, two faults of any kind, any number of cancelled waits, actions that start with up to 4 messages left over, 4 images a session | driver and sensor stay in step until a disturbance; answers match their commands |
| `match` | every gallery of three prints with one sample, two with two, one with three; two users and none; scores below, at and above the gate | the verdict is the gallery's; nobody else scored better |
| `calib` | two zones, three readings, OTP values 0, 1 and 31 | scans use settled bases of this session; lift thresholds follow the real touch; tolerances are ordered |
| `find_untimed_chunk` | as `framing`, two messages | violated: after a zero-length read inside an event the next chunk is awaited without a timeout |
| `find_sleep_reinit` | as `auth` | violated: a suspend's forced reinitialization can be forgotten before the host sleeps |
| `find_cancel_sleeps` | as `auth` | violated: a cancellation after the report leaves the sensor armed, since `verify_wait_finger_up` is TRUE then |
| `find_no_way_back` | as `open`, one failure | violated: a heal of an all-zero unit that stops after the erase is never resumed, because later opens see the all-zero PSK hash first |
| `find_self_heals` | as `link`, one failed transfer and nothing else | violated: the failure is in the cleanup after a match, is dropped, and its late messages make two later actions in a row fail with protocol errors, none of which calls for a reinitialization |
| `find_no_error` | as `link`, one partial TLS record and nothing else | violated: the action is failed with a NULL error |

Bounds. Two enroll samples are the least number with a sample that is neither
first nor last for the settle timer; the length of an action is otherwise
unbounded, and the session runs any number of actions, sleeps and restarts.
`staleFails` stops at 2, one more than the property allows. An image of one full
and one partial chunk has every position a chunk can have for `NextWrite` except
a middle one, which behaves as the first. Three failures are enough to break a
heal, the heal that resumes it, and one more open; failures that the sensor may
choose at any time (unsettled FDT readings, a refused handshake, an erase that
does not take) are not counted at all. The payloads of `framing` give messages that
fill a chunk or two exactly, exceed them by a byte, and fill or overflow the buffer, in
both framings; three messages allow one that is abandoned, one that is read out
of step and one more that follows. In `link` two faults allow one that a
reinitialization heals and another after it, or two that meet; `MaxUnread`
and `MaxImages` bound only what an action may start with. In `match` the galleries
have a print before and after the matching one, and a sample before and after
the one that stops the loop. In `calib` one reading differs from another by
less than the halving sees, one by more than some sensors tolerate and less
than others do, and one sum does not fit a byte; a second zone is the least
number for a vector comparison to go wrong in one of them. The proofs of the last
three modules cover every value of these constants.

`CHECK_DEADLOCK FALSE` is said for `link`, whose bounds stop it, and for
`match`, which ends with its verdict.

Fairness. Transfers of commands have timeouts, delays are timers, so a running
SSM takes a step: weak fairness of `Commands`, `ReinitOk \/ ReinitFails`,
`SettleTimer`, and of `OpenSsm \/ HealSsm`. A wait for a finger has no timeout
and no fairness, except that its cancellation is delivered (`SF` of
`ReadCancelled`: an event can win the race only until the next read is submitted
with the same cancelled cancellable). libfprint cancels what it could not
suspend. For recovery the caller is assumed to try the open again.

## Proofs

`AuthSession_proofs` proves `Spec => []Inductive` for both families and every
`EnrollSamples`, and from it the invariants that `auth` checks. None of them
is inductive alone. `Inductive` adds to the type invariant: which flags can be
set in which state (a report is pending only between the match and the end of
the action; `verify_wait_finger_up` goes with the states before the lift), the
shape of `orphan` and `DESYNCED`, that a cancelled or suspended read is in a wait state
whose SSM `blocking` names, and how `staleFails`, `link` and `needs_reinit`
relate (`StaleShape`). The proof has one lemma per action; each first proves
the Boolean typing, then the rest. The temporal steps are by PTL.
`ActionsArePaced` is an action property: `PaceRank` numbers the states between two
waits, and every step from one of them to another goes down. A false event, a
rejected capture, the next enroll sample and a resume all go through a wait, so
none of these loops, which the code does not count, can run by itself.

`AuthService_proofs` proves the refinement (`ServiceRefinement`) from that
invariant. Every way to end an action goes through `Complete`, and
`CompletedView` shows once that it is a `Succeed` or a `Fail` of the service: the
invariant's `DecisionShape` says which decision is still undelivered in which state.
`Match` is the service's `Decide`; the steps libfprint does not see stutter.

`OpenHeal_proofs` proves `Spec => []Inductive` for both families and every
`FwLen`, `FwChunk`, `TlsFlights` and `MaxFaults`, and from it the safety
invariants of `open`. What the invariants lack alone:
`RunShape` ties the SSM that runs to what libfprint waits for; `HealShape` says
that before a heal the open is the first and nothing was erased, and that a heal
keeps the guards it was started with; `WriteShape` says what was written by the
state the heal is in (the offset of the next chunk is the length of what was
flashed, or 0); `KeyShape` ties the handshake's key to the sensor's. A failed
step is the same for every state of an SSM, so `FailKeeps` and
`HealFailsKeeps` are proved once and cited by the lemma of each action.
`WritesAreConsented` is an action property: given the invariant, only the
heal's actions change the sensor's PSK or application.

`StepsAreBounded` is what `OpenEnds` rests on. `StepsLeft` is a natural number
computed from the state of the SSM, the handshake packs and FDT retries to come, the
bytes to flash, and the heal and second open that a first open may still lead
to; every step of an SSM lowers it, and only a change of the operator's files
leaves it. So an open takes at most twice `WholeOpen` plus `WholeHeal` callbacks.
It needs of the invariant that an erase is never attempted twice
(`heal_erased` in the states after it, in `HealShape`) and that the counters keep
their bounds. What it does not say is that the callbacks come: that is the fairness.

`Provisioning_proofs` proves the refinement (`UnitRefinement`): the initial
states map to initial states, and every step to a step of `Provisioning` or a
stutter. It needs more than `Inductive`: `UnitShape` says what the sensor's mode
tells of its image (an application runs only if it is valid; in the bootloader
the image is erased or the PSK all-zero) and that the 53x5's setup is reached with the
all-zero PSK only. That a sensor which is about to accept an image lacks one is
what makes the abstract `Provision` step possible.

`Framing_proofs` proves every property of `framing`, for every chunk size, buffer
size and set of payloads. `FramingTypeOK`, the buffer's bound, is inductive once
the pipe is known to hold sequences of bytes. The order and joining properties need to know
what the pipe holds, and say so chunk by chunk, without an induction over the chunks of a message:
each chunk has a message (`Num`) and an offset (`Off`), `After` is the place where
the next chunk must begin, and `Consecutive` says that it does, from one chunk to
the next and from the last to the next message sent. `Covered` is what
the first chunks of a message hold together; `ChunkCountCovers` is the one
fact of nonlinear arithmetic, that the computed number of chunks covers the
message and one less does not. Three conjuncts tie the buffer to the head of
the pipe: `BareGoesOn` (the buffer of a bare receive is a beginning of one message,
and the next chunk continues that message or begins another), `MarkedIsAlone` (a receive
that began with a continuation ends with it), and `InTurn` (in step the buffer is
the beginning of the message after the last one received). With `Inductive` they are
inductive in `Joining` (`FramingInvariant`).

`SensorLink_proofs` proves type correctness and `InStep` together; their
conjunction is inductive, because `InStep` lists for each phase every content the pipe
and the sensor can have. The proof has a lemma per action; short sequences are
handled by lemmas of their own (`OneMessage`, `TwoMessages`, `AgedMessages`).
`LinkAnswersMatch` is the action property that follows: in step the head of the
pipe is the message awaited.

`MatchDecision_proofs` is a loop invariant: what was counted exists, what was
passed was no match, `match` is good and, unless the loops stop early, the best so
far. When they do stop early everybody in the gallery is the same person, which
gives `BestPersonIsReported`. The samples are quantified over, not folded, so no
induction over data is needed.

`Calibration_proofs` ties the bases to the readings they were made of
(`BaseShape`), and remembers where their absence is known: a reinitialization that
failed after `parse_otp` leaves `needs_reinit` set (`StageShape`). That the
tolerances are ordered for every OTP rests on a numeric fact: `(diff + 5) * 50 div 16` is
never 20, the one value in its range for which `delta_fdt` would reach `delta_up`.

The theorems hold under the assumptions on the constants that `AuthSession`,
`OpenHeal`, `Framing`, `SensorLink`, `MatchDecision` and `Calibration` state,
which TLC evaluates on the instances.

Only model-checked: what needs fairness, which is beyond this prover: `SuspendEnds`,
`CancelEnds`, `OpenEnds` and `ErasedRecovers`. Every other property of the
passing runs is a theorem.

## Not modelled

* The image pipeline (`image.c`) and SIGFM (`sigfm.cpp`): floating point through
  OpenCV, no state; their outcome is a free choice or a score.
* The serialization of templates (`match.c` 56-84, `binary.hpp`): a conversion of
  one buffer with no state and no concurrency, which unit tests reach.
* The ciphers and hashes of `crypto.c` and OpenSSL: arithmetic on bytes; the
  models keep what they accept.
* Of `calibration.c` the OTP hash, the DAC and tcode values, and the patched
  config with its checksum: constants for a sensor that no later step compares.
* The sub-headers of `proto.c` 346-475 and the payload layouts of
  `commands.c`.
* The scripts, which run once by hand. GObject and logging.

## Plan

Done: `AuthSession` with `AuthService`, `OpenHeal` with `Provisioning`, `Framing`,
`SensorLink`, `MatchDecision`, `Calibration`, and their proofs. What is left:

* the composition of `SensorLink` with the abandoned read of `AuthSession`: two
  readers of one pipe after a resume;
* what an action does after a disturbance, once the code resets or drains the
  pipe: `SelfHeals` would then become an invariant of `link`.
