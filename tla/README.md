# A TLA+ verification of bluetti-modbus

`bluetti-modbus` is an asynchronous Python client for BLUETTI power stations
over Modbus. It decodes registers into named fields, polls a device through a
connection it shares with other tasks, and writes a handful of settings. What
is hard in it is not the decoding: it is that several holders share one link,
that a poll retries, times out, is cancelled and tears that link down, that a
device confirms a write at another address, late or not at all, and that
reading one register too many makes a device go silent. The repository also has
the scripts with which owners of unsupported devices find out what theirs
serves and takes: they meet the same devices with less known of them.

This directory holds TLA+ modules of that behaviour, TLC configurations that
check them on small instances, and TLAPS proofs of the safety properties for
all values of the constants. `PROJECT.json` maps every definition to the lines
it models, and lists the hazards, the runs, the mutants that show each property
can fail, and the findings. Paths below are relative to the package
(`src/bluetti_modbus_lib`) unless they say otherwise; `bluetti_device.py` is
`base_devices/bluetti_device.py`.

    tlc -config retry_poll.cfg MCUpdateRetry      # one run
    tlapm UpdateRetryProofs.tla                   # one proof module

## 1. The system

| part | state it keeps | operations | status |
|---|---|---|---|
| Poll with retries (`bluetti_device.py` 332-400) | position in the retry code, the loop variable, the last error | `async_update_with_retry` | modelled, proved |
| Update under a budget (`bluetti_device.py` 316-330, 402-431) | block being read, time spent; the pacer's queue and the link, of `modbus_connection` | `_async_update_with_timeout`, `async_update` | modelled |
| `read_values` (`modbus/read.py`) | position in the call, decoded values | disconnect, poll, disconnect, return | modelled |
| Setting writes (`bluetti_device.py` 209-314, 434-463; `scripts/bluetti_modwrite.py` 167-207) | position in the call, looks made; the device's registers | `write_register`, `write`, `write_field` | modelled, proved |
| Register access (`bluetti_device.py` 144-207) | none; a computation over the profile | `readable_ranges`, `read_registers`, the planner's blocks | modelled, proved |
| Device profiles (`devices/*.py`) | none; generated data | - | modelled as data |
| Battery packs and the factory (`devices/battery_pack.py`, `devices/getter.py`) | none | restricted components, unit numbers, class by id | restricted profiles only |
| Field codecs (`fields/custom_fields.py`) | none | words to values | widths only |
| Profile generator (`import.py`) | none; offline | writes `devices/*.py` and their `register_ranges` | the ranges only |
| Client (`modbus/client.py`) | the connection | constructor checks, `read`, `aclose` | `read` is `read_values`; the rest is not modelled |
| Command line (`scripts/bluetti_modwrite.py`, `bluetti_modread.py`) | none | refusals, prompt, look after a write | the look only |
| `script/probe_unexplored_registers.py` | position in the candidates, failures in a row, attempts to recover, the report | `run`, `probe_one`, `_read_words`, `_cross_check`, `recover`, `sanity` | the run, proved; the choice of candidates is not modelled |
| `script/write_probe.py` | position in the write-restore cycle, the value found; the device's setting | `run`, `read`, `write` | modelled, proved |
| `script/balco_modes_probe.py` | position in the jobs, the report | `run`, `read_one`, `write_single`, `write_period`, `recover`, `alive` | modelled, proved |
| `script/tou_codec.py` | none | records to registers and back, byte order, the app's calendars | modelled, proved |
| Enumerations, exceptions, exports | none | - | not modelled |

**How they interact.** A coordinator (or `BluettiModbusClient.read`, or the
command line) calls `read_values`, which calls `async_update_with_retry`, which
awaits `_async_update_with_timeout` up to three times, which awaits the blocks
of the read plan under `asyncio.timeout(30)`. Every block goes through the
pacer of `modbus_connection`, which lets one request at a time on the wire, and
the backend, which connects on demand. All devices, packs and units at one
address share that link: `ModbusUnit.disconnect`, called by the retry code and
by `read_values`, closes it for all of them. Writes go over the same link and
are followed by raw reads of the register, which keep to `readable_ranges`.
There is one event loop: steps interleave at every `await`, and only there.

The three probe scripts use `modbus_connection` directly, with nothing of the
library's retries, and each runs alone: its docstring asks the owner to stop
everything else. They meet each other through the device only - one run leaves
a silence behind, or a write nobody confirmed, and the next one finds it.

**What is hard.** Interleavings at the awaits (`disconnect` before `raise`, the
poll between two disconnects of `read_values`, the sleep between a write and its
read-back); timers over a shared queue (a budget that runs while others have
the wire); a cancelled or timed-out request that must leave the queue; writes
whose confirmation is lost but which the device still applies; and two
computations of what may be read, in two packages, that must agree.
In the scripts: a device that falls silent over a register it does not serve,
for longer or shorter than a script waits; a field that is served in part; a
link that is lost in the middle of a recovery; a write-restore cycle that can
stop at any step with the setting changed; and a byte order that is guessed
from the data.
`PROJECT.json` lists 40 such hazards at their lines, with the properties that
would catch each or the reason none does yet.

**What makes each part correct.**

* Poll with retries: an attempt follows only a failure a retry can cure; the
  shared link is torn down only after a full run of transient failures, and is
  gone before the error is raised; the poll ends; what is raised is the last
  failure.
* Shared link: an attempt that ends in any way leaves nothing in the queue;
  disconnects thrown by one device are absorbed by the retries of another; a
  link the device no longer answers on is replaced; polling devices get values
  again after faults stop.
* `read_values`: an S Meter's zeros are not returned as measurements; values
  come from this call.
* Writes: success means the device took this value; an applied write is seen to
  be applied; registers change only as the profile declares.
* Register access: what a poll reads, a raw read may read; every field can be
  read raw; nothing reaches into registers the device may not serve.
* `probe_unexplored_registers.py`: every candidate is in the report once, with
  the status the device gave it; nothing is asked of a device that has not
  answered since it failed; the limit on failures in a row holds; a silence the
  recovery waits out does not end the run.
* `write_probe.py`: exit code and last words are true of the setting.
* `balco_modes_probe.py`: every job is recorded, whatever the recovery came to;
  a table is told as the device stores it.
* `tou_codec.py`: unpacking undoes packing; the byte order is found, where it
  can be.

## 2. The modules

    PollPromise         what a poll promises               (abstract)
      ^ refined by
    UpdateRetry         the retry code, one attempt a step
      ^ refined by                ^ extended by
    SharedLink                    ReadValues
    blocks, queue, timers         the S Meter's reads

    SettingWrite        writers and a device
    RegisterAccess      readable runs, planned blocks   <- Profiles (data)

    HardwareTest        an owner's session: the scripts, one at a time
      | extends
      +-- RegisterProbe --+
      +-- WriteProbe -----+-- ProbeDevice    the device and the link to it
      +-- ModesProbe -----+
            +-- TouCodec                     scheduler records, bit by bit

    UpdateRetryProofs <- SharedLinkProofs, ReadValuesProofs
    SettingWriteProofs, RegisterAccessProofs,
    TouCodecProofs, RegisterProbeProofs <- HardwareTestProofs
    MCUpdateRetry, MCSharedLink, MCReadValues, MCSettingWrite,
    MCRegisterAccess, MCHardwareTest

### PollPromise and UpdateRetry

`PollPromise` is the contract of `async_update_with_retry` with everything
about how it is kept left out: at most `MaxAttempts` updates, one result, and
the link torn down only by a poll that spent every attempt on curable failures.

`UpdateRetry` is the code. `stage[d]` is where a call stands: `"first"` (the
`try` of lines 381-384), `"afterBusy"` (386), `"retry"` (the loop, `attempt[d]`
its variable), `"dropping"` (before the `disconnect` of 399), `"dropped"`
(before the `raise` of 400). An attempt is atomic here; what it came to is
drawn from the failures the code tells apart: `"busy"` (Acknowledge and
ServerDeviceBusy), three transient causes (corrupted reply, no reply, lost
connection: `_TRANSIENT_CAUSES`), `"permanent"` (any other `ModbusError`), and
`"budget"` (the `TimeoutError` of 30 s). Each `except` clause is an action:
`BusyRetriedOnce`, `EnterRetryLoop`, `RetryAgain`, `RetriesExhausted`,
`RaiseAtOnce`. `DropLink` and `RaiseExhausted` are two steps since there is an
`await` between them. `CancelPoll` can come at any await. `failures`, `linkOf`
and `dropped` are history: they are written and never read by a guard, except
that `RaiseExhausted` names the last failure, which is the exception at hand.

### SharedLink

Extends `UpdateRetry` with how an attempt gets to its end. `queue` is the
pacer's: its head has the wire. An update reads `NumBlocks` blocks, each queued
anew behind the others; a request is answered, refused, lost, cut by another's
disconnect, or times out `RequestTimeout` ticks after it was sent; the update
is given up `Budget` ticks after it began, whether it was on the wire or still
waiting. `stuck` is a link the device no longer answers on; it ends with the
link. Faults outside the code are the members of `Faults`, at most `MaxFaults`
of them. `Tick` is the clock: time does not pass while something that takes no
time is due. A tick stands for more than the half second `disconnect()` waits
for a request on the wire, so a disconnect takes no tick.

The pacer, on-demand connecting and the cut of a request belong to
`modbus_connection`. They are modelled from how this repository relies on them
(the comments of `bluetti_device.py` and `pyproject.toml`, the tests' fakes) and
marked external. Where versions differ the model allows both: a request that
waits across a disconnect reconnects (`Send`) or fails (`ConnectFails`).
Of an update that is cancelled by its budget with a request on the wire, the
backend may make an error of its own; `BudgetExpires` allows all three
outcomes.

### ReadValues

`read_values` around the poll of `UpdateRetry`, for S Meters: `Call` (drop the
link first if it is open), `Update`, `UpdateFails`, `Return` (drop it after).
`used` says whether the present connection has been read over; an S Meter
answers measurements on its first read and zeros afterwards. A failed attempt
may or may not have been a read to the S Meter, whose reply was corrupted, late
or lost (`FailedRead`); a busy reply is a refusal that read nothing and leaves
`used` as it was. `OtherReads` is another holder of the connection. Abstracted:
the two blocks of an S Meter's poll are one read. `disturbed` is set by every
failed attempt, busy ones included, so that `UndisturbedReadIsLive` claims
nothing of a refusal of the second block after the first has been read.

### SettingWrite

`Accepts` is what the checks of `write_register` (the table, the profile's
field, its bound) and of the library's `write` let through. A call is then
`"sent"`, and the device answers: it takes the value and confirms it, at the
register or at the setting's internal address (`_write_confirmation_address`,
`_written_word`); takes another value and confirms that; refuses; or nothing
readable comes and the write was taken, is taken later, or never. `write` ends
there, the others `Settle` and `Look` up to `READ_BACK_ATTEMPTS` times
(`write_field` of the command line looks with the same constants). `held` is
what the device applies and `shown` what it serves, which may lag for `Lag`
settle periods; all callers that sleep share a period. Values are numbers in a
small set; the scale of a field is left out, since nothing here depends on it.
The device clamps only to values its own register accepts, and confirms only
what it took: that is the assumption under which success means anything.

### RegisterAccess and Profiles

`readable_ranges` and the planner are loops over the sorted spans of the
fields; a step is one round of one of them. `phase` says which loop runs,
`todo` holds the spans it has not come to, `last` the run or block at the end
of its list. `JoinRun`/`OpenRun` are the two branches of the loop at lines
178-182, `ExtendBlock`/`OpenBlock` those of the planner, `ReadRegisters` and
`ReadRefused` a call of `read_registers`. The planner is external, and known
from what it must have produced: with `max_gap` 5 the model plans the twelve
blocks that `import.py` wrote into FP's `register_ranges` for the data area, and
the fifteen blocks that the comments give a Balco 260's update.
`RangesAreGenerated` makes the first a check.

`Profiles` holds all eleven profiles as spans, the components restricted to
pack or aggregate registers, and FP as it is before `import.py` adds its
ranges. A field whose type is a 16-bit number occupies one register whatever
`count` the schema gives it: `field()` ignores it there, on purpose
(`tests/test_wide_uint_fields.py`).

### ProbeDevice and HardwareTest

`ProbeDevice` is what the scripts talk to. `hush` counts the ticks for which the
device answers nothing (`MaxHush`: it never answers again); a request of such a
device times out, or fails at once when the connection is not open. Out of the
blue a request may time out, come back corrupted, meet an exception response or
lose the link (`Fails`), at most `MaxFaults` times in a run. A register the
device does not serve may also silence it (`FallsSilent`), as the Transfer Hub
and FP do according to `SILENT_ON_UNSERVED`; that costs no fault. `held` is the
setting `write_probe.py` works on and `late` the writes the device has received
and may still take (`TakesLate`) or drop.

`HardwareTest` composes the scripts: each is a process that starts, runs and
exits, any number of times in any order, against the same device. Only
`write_probe.py` starts with writes of an earlier run still out; before the
other scripts, which do not look at the setting, the device has got to them or
dropped them.

### RegisterProbe

`Prober.run` of `probe_unexplored_registers.py`. `stage` says which request is
next: the first liveness check, a candidate's words one by one (`word`) or all
at once (`batched`), the cross-check with a documented register, the reopening
and the liveness check of `recover()`, the last check. `bad` is
`consecutive_bad`, and `serves` says how many leading registers of each
candidate the device serves. `WordRead`, `Rejected`, `ProbeException`,
`ProbeUnreadable` and `ProbeLost` are the ends of `_read_words` as `probe_one`
tells them apart; `Proceed` and `Stop` are its two results. `alive` and `since`
are history.

### WriteProbe

`WriteProbe.run`, one request a step, in the order of lines 155-203: each
`return` of the code is a `Return` with the exit code and what was said of the
setting. A write is confirmed, refused, unanswered (and then taken, taken later
or not: `MayTake`), or loses the link, which the script does not catch. A device
may settle on another value than the one it confirmed, unless it is the one it
holds. `origin` and `leftover` are history.

### ModesProbe and TouCodec

`ModesProbe` is the run of `balco_modes_probe.py`: its jobs are what the
arguments ask for (`Jobs`), each read word by word or written, and each failure
that is recovered from is recorded after the recovery (`failure` carries it).

`TouCodec` is the codec, bit by bit: a register, and each field of a record, is
the set of its one bits, so shifting and masking are sums and differences of
bit positions and nothing is as wide as 80 bits. `DecodeTable` finds the byte
order as the code does, from the calendar masks (`Plausible`). What a device
emits for a plan, and what `read_one` makes of it, are functions of the plan
(`Emitted`, `Decodings`); they are not part of the state.

## 3. The runs

Each property has a mutant in `PROJECT.json`: a plausible bug in the modelled
code with which TLC finds the property violated under the same configuration.

| run | asks | bounds |
|---|---|---|
| `retry_poll` | Does the retry code keep its promise, between two devices that tear each other's link down? `RetriesOnlyTheCurable`, `DropsOnlyWhenExhausted`, `ExhaustionReplacesLink`, the refinement of `PollPromise` with fairness, `PollEnds` | 2 devices, the code's 2 retries |
| `link_refines` | Is every way an update can end one the retry code reckons with, and does every update end (`ImplementsRetry`: `SharedLink` refines `UpdateRetry`, fairness included)? Is a stuck link replaced where budgets expire (`StuckLinkReplaced`)? | 2 devices, 2 blocks, budget of 3 request timeouts as in the code, 2 faults of any kind |
| `link_heals` | Does the system recover? `QueueIsTheAttempts`, `CleanPollDelivers`, `HealsItself` | 2 devices, 2 blocks, budget of 5 request timeouts, 3 faults of any kind |
| `read_undisturbed` | Are zeros ever returned by a call nobody disturbed, or old values? | 2 S Meters and other holders, 1 retry, 2 failures in all |
| `write_settings` | `SuccessWasTaken`, `TakenIsSeen`, `SettingsChangeAsDeclared` | 2 callers, 1 register of 3 values, 3 looks, lag 3 |
| `hardware_test` | Are the reports and the last words of the scripts true of the device, whatever it does and whatever an earlier run left behind, and does every run end? `EveryCandidateOnce`, `StatusIsTheDevices`, `ProbesAfterLiveness`, `BadRunsBounded`, `ShortSilenceSurvived`, `CleanExitRestores`, `NothingChangedIsTrue`, `EveryJobRecorded`, `TableDecodedAsStored`, `EveryRunEnds` | 3 candidates of 2, 1 and 1 registers, one cross-checked; limit 2; silences of 4, 5 and 6 ticks, 6 for ever; 2 faults a run; 2 settings; 1 register, 1 input register and the table; plans of all three calendars |
| `register_access` | Do runs and blocks agree, on the real profiles and on all small ones? | every profile; every 1 to 3 fields of 1, 2 or 4 registers at 7 addresses, `max_span` 7; `max_gap` 5 |

Why the bounds are enough. Two devices suffice for interference: what a third
could add is a second cause of the same event, a link closed under a poll -
except for waiting times, which is what `link_three_holders` is about; and for
the safety properties section 5 leaves no bound on the devices. Three
transient failures exhaust a poll, so three faults reach every stage with a
stuck link on top (one stuck link makes any number of timeouts without another
fault), and two blocks distinguish the first, a middle turn in the queue and
the last. In `link_refines` and `link_three_holders` the budget is three request
timeouts, as 30 s are of 10 s, and it does expire, on the wire and in the queue.
In `link_heals` it is five, more than the four turns of two devices with two
blocks: nothing heals while every block takes a whole request timeout and three
of them use the budget up (`link_slow_blocks`). The device of the model may take
any time up to the timeout, so a budget that covers its slowest answers stands
for 30 s and a device that answers in time: `CleanPollsDeliver` in section 5
says what in time is, for any budget. `read_undisturbed` uses one retry so
that two failures exhaust a poll; both failures may hit one device or one each.
With `Lag` 3 the device may serve the old value to the last look but one; with
4, `TakenIsSeen` would not be true. Another register would be independent. In `register_access` the window has fields side by side, nested and
overlapping, gaps on both sides of `max_gap`, and spans that are cut by
`max_span`.

In `hardware_test` a field of two registers can be cut between its words, and
three candidates make two failures in a row with one to go on to. `recover()`
waits one tick and then three, so 4 is the longest silence it sits through, 5
the shortest it does not, and 6 never ends. Two faults are enough for a failure
and another in its recovery; timeouts of unserved registers come on top. Two
values are a setting and another. The plans include both that the byte order is
ambiguous for: a plan for once, and dates that include the 2nd to the 8th.

`CHECK_DEADLOCK FALSE` stands only in the `register_*` configurations: the
computation ends with one answered call of `read_registers`.

**Fairness.** `UpdateRetry`: weak fairness of each device's own steps - an
attempt ends within its 30 s budget and the event loop runs what is ready;
nothing makes anybody start a poll, and faults, cancellation and link changes
are never fair. `SharedLink` replaces the assumption by its reasons: the clock
ticks, a request whose turn it is is sent, a turn ends (if by nothing else, by
its request timeout), expired budgets fire, awaited disconnects return. Replies
are not fair. `PollingLinkSpec` adds that every holder polls again, as Home
Assistant's coordinator does at its interval; only the healing properties use
it (`StuckLinkReplaced` states it as its own hypothesis, so that it can be
checked beside the refinement, which must not assume it). `link_refines` shows that the reasons imply the assumption.
`HardwareTest`: weak fairness of the scripts' own steps and of their exit, since
every request is answered or times out (the scripts give each a timeout), every
sleep ends, and connecting succeeds or fails. Nothing makes an owner start a
script, nothing makes a device answer, and a late write is taken or not:
`EveryRunEnds` holds for a device that never answers again.

## 4. What the code does not do as its comments say

Five runs check a claim that the code does not keep; TLC's counterexample is
the evidence. For each, section 5 proves what is true instead, or under which
condition the claim is true: the theorem in brackets.

* `retry_bare_busy` - "busy twice in a row" is said to be what a bare busy
  error means (`bluetti_device.py` 375-379). A corrupted reply, then a busy one
  on the retry, raises it too, after one busy reply. (`BareBusyComesLate`: this
  is the one way it can come about.)
* `link_slow_blocks` - the 30 s budget is said to cover "every block being
  slow, not just one" (405-407). With a request timeout of 10 s three slow
  blocks use it up; a Balco 260 update has fifteen. Blocks here answer just in
  time, and nothing else goes wrong. (`SufficientBudgetCovers`: true as long as
  no request is on the wire for longer than the budget divided by the blocks of
  all holders, 1.8 s for sixteen blocks of one.)
* `link_three_holders` - dropping the link is said to keep whichever request
  follows from "repeating into the same stuck link" (366-370). With three
  holders each spends its budget waiting for the others' timeouts; the
  `TimeoutError` of the budget is not transient, and nobody drops the link.
  (`StuckPollsGoOn`: three is the least number of holders this takes at 30 s
  and 10 s; on a stuck link the polls of one or two go on to the drop.
  `link_refines`: and the link of two is replaced.)
* `read_zeros` - `read_values` is said to drop the link so that a read is the
  first of its connection (`modbus/read.py` 14-17). The retries inside it are
  not: after a corrupted reply to a read the second attempt gets zeros. (`LoneReadsAreLive`:
  of one S Meter that nobody else reads, only a retry can.)
* `register_gaps` - `readable_ranges` is said to give "the runs that poll
  reads" (165-169). It does not cut at `max_span` as the poll does, so on a
  Balco 260 the gap 50215-50218 may be read raw, which the poll leaves out.
  (`RunsThatFitArePolled`: a run longer than `max_span` is all that breaks the
  sentence. `UnpolledIsBridged`: even then only gaps are left out, never a field.)

Observations that no sentence of the repository contradicts: a busy reply
followed by a transient failure raises the latter without a retry or a drop; a
poll cancelled between its last failure and the disconnect leaves the stuck
link to the next poll; a request timeout of 30 s or more would never let a poll
drop its link, since the budget ends each attempt first; the library's `write`
has no bound of its own for a field with `writable=True`; a write given up
after a timeout may be applied later, over a newer one; a failed read-back after
a confirmed write is raised as an error although the register has changed.

Of the scripts, seen while modelling and in the model, without a run of their
own:

* `script/write_probe.py` says that it "restores the original unless --keep is
  given" (11-12). A new value whose write is not confirmed ends the run at line
  174 without the restore, though the device may have taken it; a link lost
  after it does, too. With `--keep` the script ends with 0 and "left in place"
  (184-186) even if another value is read back. `CleanExitRestores` is what does
  hold.
* `script/balco_modes_probe.py` describes step 3 as "only once step 2 has
  passed" (21). Given both options, `run` writes the period whatever
  `write_single` came to.
* `script/tou_codec.py` says a swapped record "carries a calendar the app would
  never write" (227-228). A record for once has no calendar at all in either
  order, and dates that include all of the 2nd to the 8th pass for weekly ones:
  such tables are decoded as-is when they are stored swapped.
  `SwappedIsNoCalendar` states for which records the sentence is true.
* `script/probe_unexplored_registers.py` says "A timeout or a corrupted reply
  drops the link" (56). Those of the cross-check do not (`CrossCheck`), and
  after "stopping so the device is left alone" (642) the final liveness check
  still asks the device once.

## 5. What is proved

The proofs hold for every value of the constants that the named assumptions
allow. They rest on the usual scheme: an inductive invariant `IInv`, with
`Init => IInv`, `IInv /\ [Next]_vars => IInv'`, and `IInv` implying the
property. TLC checked each `IInv` as an invariant first.

**`UpdateRetryProofs`** (any set of devices, `TransientRetryCount >= 1`):
`TypeCorrect`, `OnlyTheCurableIsRetried`, `OnlyExhaustionDrops`,
`ExhaustionLeavesNoLink`, and `Refines`: `Spec => PromiseKept`. The properties
speak of histories of failures, and a step only appends to one, so they are not
inductive by themselves. `RetryInv` adds, per device, `StageShape`: which
histories go with which stage (in the loop, `attempt + 1` transient failures and
nothing else; when dropping, all `TransientRetryCount + 1` of them) and
`DropShape`: what was dropped was exhausted, and its link is gone. `Untouched`
lets the other devices' part be carried over any step but a closing link. The
refinement uses `RetryInv` to know how many attempts are left (`AttemptLeft`).
`PollsRunOut` is what `PollEnds` rests on besides fairness: `StepsLeft` of a
device is at most `TransientRetryCount + 3`, is 0 exactly when no poll of it is
under way, gets smaller with every step of its poll, and grows with nobody
else's: not with the link another poll drops, nor with one that opens again.
`BareBusyComesLate` is about the claim of `retry_bare_busy`. `RetryInv` says what
the failures before the last one are, not that there are any; that a poll which
ends busy has made two attempts (`BusyLate`) is inductive with it, and then a
busy end has either one busy reply before it or transient failures only.

**`SharedLinkProofs`** (any devices, blocks, faults, request timeouts and
budgets), in six layers.

1. `LinkImplementsRetry` (`LinkSpec => Spec`): seen from the retry code, a step
   of the link is the end of an attempt, a link that opens or closes, or nothing
   (`LinkStepsAreRetrySteps`, by the actions of `LinkNext`). So `RetryInv` holds
   of the link as well, and with `Refines`, `PollPromise` does
   (`LinkKeepsPromise`). It is the step-by-step half of `ImplementsRetry`; the
   other half is fairness.
2. `LinkTyped` and `QueueHoldsAttempts`. That a device is in the queue exactly
   while an attempt of it is under way is inductive only with `OnceEach`:
   otherwise taking one entry out would leave another behind. `QueueInv` also
   says when the wire can be taken and when its clock runs.
3. `InTime(R, S)`: what an attempt of a device in `S` has spent is at most
   `Due(R, block, place)` and the age of the request on the wire, and that age
   counts for no more than `R`. `Due` is `R` for every turn before this one:
   `Holders` turns for each block done, and those that have gained this attempt
   its place. A turn moves everybody behind it up by one and costs at most `R`;
   an attempt that ends starts again at the back with nothing spent. All it takes
   from the device is that no tick makes a request older than `R`. With `R` the
   request timeout that is always so, hence `WaitingBounded`: however many faults
   there are, an attempt spends no more than
   `NumBlocks * Holders * RequestTimeout`. With a smaller `R` it is what the
   device does, the hypothesis `[]AnsweredWithin(R)` of `SufficientBudgetCovers`:
   a budget above `NumBlocks * Holders * R` never expires
   (`BudgetCoversSlowBlocks`). The 30 s of the code are above it for the sixteen
   blocks of one device that answers within 1.8 s, of three within 0.6 s; for
   `R` = 10 s only for two blocks in all, which is what `link_slow_blocks` shows
   of the comment.
4. Clean polls, under `HoldersWithinRetries` (no more holders than a poll makes
   attempts: three). A clean poll, one that began on a working link and has seen
   no fault since, can still be cut by the disconnects of others. `CleanInv`
   counts them: the failures it has had plus the `Suspects`, polls that are not
   clean and may still disconnect, are at most `TransientRetryCount`, and fewer
   when its request has just been cut. A disconnect uses up a suspect for each
   failure it causes, a poll that begins later on the working link is clean
   itself, and one whose budget expires is a suspect no more. Hence
   `CleanUnlessExpired`, whatever the budget: only its own budget can take the
   values from a clean poll. And by `InTime` for the clean ones
   (`CleanBegins`: who is clean now was clean before or has spent nothing),
   `CleanPollsDeliver`: `CleanPollDelivers` holds of a device that answers
   within `R` while a clean poll is under way, for a budget that covers `R`
   (`BudgetCovers`). At other times it may be silent until requests time out,
   or stick. `link_heals` is the case `R` = `RequestTimeout` (2 holders of 2
   blocks, budget 5), where the hypothesis on the device is always true.

5. `AttemptsRunOut`, for finitely many devices: why `UpdateRetry` may call its
   steps fair. `AttemptRest` of an attempt under way is a triple: blocks left, the
   place in the pacer's queue, and `TurnLeft`, what is left of the turn on the
   wire in ticks and in the request still to be sent. Each is bounded. Until the
   poll makes a step of its own, no step of anybody raises the triple, and each
   tick, each request sent and each turn that ends - an answer or a failure, of
   this device or another - lowers it lexicographically (`AttemptGetsOn`). A new
   poll queues up behind, an attempt that ends leaves the queue, and an answered
   block moves everybody else up; these are the cases that could have put an
   attempt back. With `PollsRunOut` for the steps of the poll, all of
   `ImplementsRetry` is proved but that the clock ticks and turns end.
6. `StuckPollsGoOn`, for every number of blocks and every budget: on a link that
   is and stays stuck, a poll in its first attempt, in the retry loop or before
   its disconnect does not end unless one of the faults happens or its budget
   expires. No reply can give it values or a busy or permanent error, and its
   timeouts are transient. The link answers no block, so an attempt that begins on
   it stays at its first one, and `InTime` bounds what such an attempt has spent by
   `Holders * RequestTimeout`: its budget can only expire if it is no longer than
   that. 30 s are no longer than that from three holders on, and
   `link_three_holders` shows that three are enough. What remains is the drop,
   which replaces the link. That it is reached is `AttemptsRunOut` and
   `PollsRunOut` again, and fairness (`StuckLinkReplaced` in `link_refines`).

Before they were proved, the invariants and action properties of these layers
were checked by TLC: `CleanInv` on the instance of `link_heals` and on one with
three devices; the action property of layer 5 on `link_heals` and `link_refines`,
that of layer 6 also on `link_three_holders`; `CleanUnlessExpired` on all three
(with `LinkNext` restricted to its hypothesis); and the two theorems about answers
within `R` on 2 holders of 2 blocks with a request timeout of 2, a budget of 6 -
the proportion of the code - and `R` = 1, where devices stick and stay silent for
2 ticks when no clean poll is under way.

**`ReadValuesProofs`** (any S Meters, retries and number of failures):
`ReadTyped`, `UndisturbedReadsAreLive`, `ReadsAnswerTheirCall`, and that what is
proved of retries holds inside `read_values` (`ReadRetriesTheCurable`,
`ReadDropsAndReplaces`). `ReadValues` is no refinement of `UpdateRetry`:
`DropBefore` closes the link and begins a poll in one step, and other holders
open links. `RetryInv` is shown to survive both. `ReadInv` then says what a call
knows of the connection: until somebody disturbs it, a call that polls does so
over a connection not yet read over (`FreshShape`); zeros come only from a used
one; and what a call returns is what it has decoded since it began
(`CallShape`). `used => link = "up"` is the part that makes a new connection a
fresh one. `LoneReadsAreLive` assumes `Alone`: one device and no other holders.
Then a call is disturbed only by a failed attempt of its own (`LoneShape`, which
needs that nothing disturbs it before it drops the link), so that zeros have a
failure on record before them.

**`SettingWriteProofs`** (any callers, registers, bounds and table,
`READ_BACK_ATTEMPTS >= 1`): `TypeCorrect`, `SuccessIsOfTaken`,
`TakenWritesAreSeen` (which assumes `Lag <= ReadBackAttempts`) and
`ChangesAreDeclared` and `CallsRunOut`. A success is of a taken write because a
call cannot get past `"sent"` without `took`. That a taken write is seen needs an account of
time: while a call is settling or looking and nobody else touched its register,
the register holds its value and the remaining lag is at most the settle
periods the remaining looks will sit through. Late writes are in the invariant
of `ChangesAreDeclared`, which has to say that everything in `late` was accepted.
`CallsRunOut` counts the steps of a call: one answer, and `READ_BACK_ATTEMPTS`
sleeps and looks. Each of its own steps uses up one of them at least; those of
other callers, of late writes and of a device that serves the old value use up
none and add none. A look that finds another caller's value is a look all the
same.

**`RegisterAccessProofs`** (any profiles whose fields fit a block and whose
declared ranges cover their fields, any `MaxGap >= 1`): `TypeCorrect`,
`PollReadable`, `AllFieldsReadable`, `ReadsClose`, `BlocksBridgeShortGaps`,
`SettingsApart`, `ReadableExactly`, `FieldsPolledWhole`, `UnpolledIsBridged`,
`RunsThatFitArePolled`. Why can the planner never
cross from one run into another? Because runs are more than `MaxGap` apart
(`Apart`), each field lies in one (`Covered`), and the spans come in order, so a
span near enough to extend a block starts inside that block's run
(`ExtensionStaysInRun`). `Apart` is inductive only with the state of the loop
(`RunsInv`), where the last run ends with a field and starts behind all others.
`ReadsClose` needs that last run's end to be a field's (`Tight`): the registers
a join brings in lie between two fields no more than `MaxGap` apart. For the
blocks of a poll `BlocksBridgeShortGaps` says the same and more: those two
fields are also in one declared range, if any are declared. It carries the
block under construction, which ends with a field (`BridgesInv`). With it,
`SettingsNotBridged` comes down to a fact about where a profile's fields lie,
`SettingsAssumption`. TLC checks it and `ProfileAssumption` for the real
profiles. `ReadableExactly` makes the first loop's result independent of the
loop: without declared ranges the runs are the fields' registers and those of the
short gaps, no more and no less. `FieldsPolledWhole` says that no field is lost
where the planner cuts. The two together leave only one kind of register to be
read and not polled, one in a short gap (`UnpolledIsBridged`), and only one
reason for it: if every run fits `max_span` the planner never cuts one, so the
blocks are the runs (`RunsThatFitArePolled`; `StartsInv` is its invariant, each
block begins where a run does and none with another).

**`TouCodecProofs`** (every record, register and calendar):
`UnpackingUndoesPacking`, `SwappingTwice`, `SwappedIsNoCalendar`,
`AsIsTableDecodes`, `SwappedTableDecodes`. The fields lie side by side
(`Offset`, `Width`), so a bit position belongs to one field and one register;
the lemmas say where each field's bits are found when the bytes are exchanged.
A table decodes as stored if one of its two records cannot pass for another
calendar.

**`RegisterProbeProofs`** and **`HardwareTestProofs`** (any candidates and what
a device serves of them, any limit, any `MaxHush`, `Silences` and `MaxFaults`,
any set of settings, any set of the app's periods): all ten invariants of
`hardware_test`, the type invariant among them. `HardwareInv` is the
conjunction of an invariant per script and of `OneAtATime`; a script's step
leaves the others' variables alone and changes of theirs only the device, which
`WriteInv` alone looks at between its own steps. The parts of `ProbeInv`:

* `Reported`: how long the report is at each stage, the records in order.
* `Served`, `AllTrue`: the words read so far are served, hence each record is
  true; `Rejected` after `word` registers means that exactly those are served.
* `Watched`: the device has answered since it failed.
* `Limited`: a run of unanswered candidates has fewer unreadable ones than the
  limit as long as the probe goes on, and the run the report ends with no more
  than `bad`. Only the second is inductive, and the first follows from it.
* `Waited`: in each of the four places of `recover()`, either another fault has
  happened since, or the silence is what is left of the first one after the
  waits so far. A second failure then means more than four ticks.

`Accounted`, of `WriteProbe`, says at each stage what is known of the setting:
untouched and nothing under way until the new value goes out, then only that
the value to restore is the one found. `Recorded`, of `ModesProbe`, counts the
records against the job at hand. `TableDecodedAsStored` follows from the codec's
theorems, since a table's words are a function of the plan.

`RunsRunOut` is to `EveryRunEnds` what `PollsRunOut` is to `PollEnds`. `Rank` of
the script that runs is a triple of natural numbers: the part of the run, in
descending order; the candidates or jobs left in that part; the steps left with
the one at hand (its words, then `recover()`'s two attempts with the liveness
check after each, or the comparison). Every step of the script lowers it
lexicographically, a late write leaves it, and its first number is 0 exactly
when no script runs. `AttemptFailed` is the case that needs `tries` in the rank:
a script that reconnected for as long as the device stayed silent, as a mutant
of it does, would have none.

## 6. What is only model-checked

* Liveness (`PollEnds`, `StuckLinkReplaced`, `HealsItself`, `EveryRunEnds`, and
  the fair halves of the two refinements, `PromiseKeptFair` and
  `ImplementsRetry`): TLAPS has no rules for it that the installed provers could
  use, nor for `ENABLED`. The part that is a matter of steps is proved: for
  `PollEnds` and `EveryRunEnds` that steps run out (`PollsRunOut`, `RunsRunOut`),
  for both refinements that steps map to steps, for `ImplementsRetry` also that an
  attempt runs out (`AttemptsRunOut`), for `StuckLinkReplaced` that a poll on a
  stuck link of up to two holders cannot end before its drop (`StuckPollsGoOn`). `HealsItself` rests
  on all of these and on `CleanPollsDeliver`: what is under way when the faults
  end runs out, a stuck link is dropped, and polls that begin then are clean.
* `RangesAreGenerated` compares the plan with the ranges `import.py` wrote into
  FP: it is a fact about that profile's numbers, which no theorem about every
  profile could state. `SettingsAssumption` and `ProfileAssumption` are such
  facts too; TLC evaluates them.
* `SettingsNotBridged`, `LinkTypeOK` and the other invariants of the passing
  runs are all proved. The five violated claims of section 4 are not true of the
  code: that they are violated is TLC's result, and the proofs say what each needs
  to be true.

## 7. Abstractions, named

* Ticks: one is longer than half a second, `RequestTimeout = 1`,
  `Budget = 3` in the proportion 10 s : 30 s, or 5 where it must not expire.
* `MaxFaults`, `MaxFailures`: how often something outside the code goes wrong.
* `LinkAfter`: an attempt of `UpdateRetry` leaves the link up or down as its
  result allows; `SharedLink` says which.
* Exceptions carry their kind and no text. Field values are not modelled in
  polls: success is `"values"`.
* A tick of `ProbeDevice` is the scripts' `--recover-delay`; `recover()` waits
  one and then three, other waits take none. A silence can begin only with a
  request or a reconnection.
* Registers that hold zeros are reported as `"zero"` by
  `probe_unexplored_registers.py` and as `"data"` here; values are not modelled,
  so the cross-check is a request without a comparison.
* The corrupted replies include those that the backend makes of a reply to an
  earlier request; both are protocol errors to the scripts.
* `ModesProbe` reads the two version registers in one step. `plan` and `order`
  stay as they are during a run.
* The files the scripts save, their prompts and their printing are left out, as
  is `--byte-order`: only `auto` has to guess.
* One connection per model. Several devices on several connections do not
  meet.
* Closing the client (`aclose`) while a poll runs is a cancellation and a
  closing link, which both are there.

## 8. Plan

Done: `PollPromise`, `UpdateRetry`, `SharedLink`, `ReadValues`, `SettingWrite`,
`RegisterAccess`, `Profiles`, `ProbeDevice`, `TouCodec`, `RegisterProbe`,
`WriteProbe`, `ModesProbe`, `HardwareTest`, and eight proof modules, with a
theorem for every safety invariant of a passing run but `RangesAreGenerated`.

Next, in this order:

1. `FieldCodec`: swapped and plain strings, versions, nibbles, offsets, wide
   little-word-order numbers with their width, against a reference definition
   over small words; folds or recursive functions only, so that lemmas on them
   can be proved.
2. `ModWriteCli` (`scripts/bluetti_modwrite.py`): the refusals and the prompt
   before a write; with `SettingWrite` as what follows.
3. The serial line, where a late confirmation of an equal write cannot be told
   from one's own (a variant of `Answered` in `SettingWrite`).

**Not modelled.** Client construction (argument checks and a choice of backend,
no state that a later call could find wrong), the decoding of enumerations, text
processing in `import.py`, the choice of candidates and the tables of
`probe_unexplored_registers.py` (filters over static lists and formatting), and
the printing of the command line tools.
