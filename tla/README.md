# TLA+ models of the ATM / XFS simulator

The repository simulates an ATM: virtual XFS devices, the customer session that
drives them, an issuer host with accounts in Postgres, and tools around them
(transports, macros, suites, a TCP bridge for a Windows DLL). This directory
holds TLA+ modules that model its core, the TLC configurations that check them,
and TLAPS proofs.

    cd tla
    tlc -workers 2 -config MCAtmApp.cfg MCAtmApp       # a run
    tlapm HostEmulatorProofs.tla                       # the proofs

## 1. Inventory

| Part | State | Operations | Hard behaviour |
|---|---|---|---|
| `AtmAppService` (`apps/xfs-server/src/atm`) | `session`, `idleTimer`, the `AtmSession` row | card insert, PIN entry, menu, amount, confirm, cancel, idle time-out | Every handler is async and reads `this.session` again after each await; requests, keys and the timer run in between |
| `HostEmulatorService` (`host`) | `Account`, `Transaction`, `VirtualCard` rows, `stanCounter` | authenticate, verifyPin, authorizeWithdrawal, reverseTransaction, getBalance, retainCard | Concurrent transactions on one account, midnight, failures, restart, STAN reuse |
| CDM (`packages/xfs-devices/src/cdm`) | cash units, `presentedCash`, `takeTimer`, injected error | DISPENSE, PRESENT, RETRACT, RESET, replenish, jam | A timer that declares notes taken; greedy mix; cached status |
| IDC, PIN, PTR, SIU | card in the reader; entry and buffer; paper and history; sensors | XFS commands, keys, inserts, sensor changes | Commands overtake each other; a PIN entry is superseded, cancelled or times out and shares its buffer with data entries |
| `XfsManager`, `VirtualDevice` | registry; injected error | execute | A device error is a result and never a rejection |
| `HostTransportManager` and transports | `running` map, `enabled` column, sockets | create, edit, start, stop, setActive, delete, auto-start | Check, await, write on the map; `server.close()` waits for peers |
| Macro recorder | `active` recording, digit run | start, stop, user actions, events | Stop awaits with the recording still active |
| Macro runner, suites, scheduler | run rows, queue, repeatable jobs | run, enqueue, edit, sync | Two runners, one ATM; jobs stalled by a restart |
| `ZxfsBridge`, `BridgeClient`, `EventRouter` (DLL) | sockets; `pending` map, slots, mutexes, reader thread; subscriptions | requests, answers, events; open, register, close | Time-out against disconnection, lock order, late answers; two maps under two mutexes |
| ISO 8583 listener and codec | receive buffer | frames in, answers out; encode, decode | Chunks cut anywhere, answers out of order, boundaries of lengths |
| EMV chip | powered, selected application, counters | SELECT, GPO, READ RECORD, GENERATE AC | Commands in any order; boundaries of TLV lengths |
| The customer's screen (`atm-frontend`) | session shown, keypad, menus, calls under way | frames, keys, buttons | Lost frames, late answers, calls that name no session |
| Reports, themes, cards, operator console, generators, Prisma | database or screen | queries, presentation | none of their own |

The parts meet as follows. A REST call (or a macro) reaches a handler of
`AtmAppService`; the handler calls devices through `XfsManager.execute` and the
host directly; the host runs Postgres transactions; devices emit events that the
bridge, the recorder and the web socket pass on. The ISO 8583 and ISO 20022
listeners call the host with no session, and with whatever number their message
names as the amount. `PROJECT.json` lists every part, every
hazard with its line, and the properties that answer it.

What makes each modelled part correct:

- **Host**: no overdraft, no exceeded daily limit, no lost or invented money
  (but for what a listener's amount below zero credits), every call answered; in
  short, concurrent calls behave like atomic ones.
- **Session**: the customer is debited for the cash they got; the menu needs
  the session's own PIN; every session ends and its row is closed; every card
  comes out; the idle timer never touches a dispense or another customer.
- **Dispenser**: no note is lost but those in the tray when a second DISPENSE or
  a RESET overwrites their record; the tray holds what was asked for, the status
  of a cassette agrees with its count, the take timer runs only for notes.
- **Other devices**: the digits of one entry never reach another; who follows
  the events knows where the card is; every command is answered.
- **Bridge and DLL**: each call gets its own answer, at most once, and ends;
  an event goes only to windows of a handle that was bound to its device when
  they were looked up.
- **Transports**: rows, running map and sockets agree; a request ends; a
  setActive that is answered leaves one listener of its kind.
- **Recorder, suites**: a saved macro holds what the user did, and does it again
  as far as the runner executes its steps; a verdict is that of the macros; every
  macro has a clean ATM; every job ends; a sync that goes through leaves the
  repeatable jobs of the rows.
- **Wire formats**: what is written is read back, what is cut is refused, every
  frame is answered.
- **Screen**: it catches up with the server, its keypad is open when the pad
  waits for digits, and one customer's menu is never shown to the next.

## 2. Plan

Done: `HostLedger` (abstract), `HostEmulator` (detailed), `AtmApp`, `CdmDevice`;
`XfsDevices`; `RpcChannel` (abstract), `BridgeClient` (detailed), `XfsDll`;
`HostTransport`, `IsoTcp`, `Iso20022Http`, `Iso8583Codec`; `MacroRecorder`,
`Suites`; `EmvChip`; `AtmScreen`; the proofs of section 5.

Left: a theorem that what the codecs write is read back for inputs of any length
(`CodecsRoundTrip`), which needs `decodeTlv` and `Tagged` without `RECURSIVE`; and
the rules of the chip (`ChipAnswers`), which rest on it.

## 3. The modules

### HostLedger: what the host promises

`balance`, `rows` (the withdrawals of each account, day by day, COMPLETED or
REVERSED) and `today`. A withdrawal (`Approve`) checks the balance and the daily
total and writes debit and row in one step; a reversal (`ReverseWithdrawal`)
credits the account and marks the one completed row of its STAN. The day of the
total may be over when the debit is made, as in the code, which reads the clock
inside the transaction: the debit is then the first of the new day.
`MarkReversed` is the `updateMany` by STAN: it marks every COMPLETED row with
that STAN, of any account and day.

### HostEmulator: what the host does

One request is one call of `authorizeWithdrawal` with what its caller does with
the answer. Its steps are the awaits of the code: draw the STAN, look up the
card, take the advisory lock, re-read the balance, sum the day, commit;
dispense; and when that fails, lock and commit the reversal. At each of them
the call may reject (`AuthorizeFails`, `ReverseFails`) and at any point the server may
stop and start again (`Restart`): locks go, the STAN counter goes back to 1, and
debits in progress are `stranded`, which the model records as history. A
listener names its switch, the customer session leaves it to the card's prefix;
`SwitchProfiles` is the code's table of prefixes and largest withdrawals, and an
amount above the switch's maximum is refused before the lock.

`caller` tells a session from a listener. A session's amount is positive
(`submitAmount` refuses others, `atm-app.service.ts:248`). A listener's is
`Number(field)` (`iso8583-tcp.transport.ts:157`, `iso20022-http.transport.ts:167`),
which nothing compares with zero: an amount of zero moves nothing, and one below
zero passes every test, adds to the balance and files a COMPLETED row below zero,
which makes room for as much again in the day's limit. The history variable
`credited` keeps what such calls put on each account, and the properties about
limit and money name it. What is approved for a listener counts as handed out: it
never reverses.

Postgres is external: READ COMMITTED statements, writes that appear at the
commit, locks held to commit or rollback. The lock key is a 63-bit hash of the
account id, taken to be injective: a collision only makes calls wait.

### AtmApp: the session

`task[t]` is a handler that waits: `pc` is what it awaits, `res` the outcome, the
other fields are what the code keeps in locals or has passed as arguments. An
awaited operation takes two steps: it takes effect (`ReadTrack`, `VerifyPin`,
`HostApproves`, `Dispense`, ...), or fails (`Fail`), and then the handler goes on
(`AfterReadTrack`, ...) until its next await. A rejected await ends the handler
(`Reject`), as the controller passes rejections to its caller. After an await
the model reads `session` afresh wherever the code reads `this.session`; a read of
a field of null is a TypeError, so the handler ends there.

- Awaits that are already settled (`safeEject` with an empty reader) are no
  interruption: nothing but microtasks can run in between.
- `XfsManager.execute` never rejects, so the `catch` of `beginPinEntry` that would
  mark the session ERROR is not taken on a cancelled or timed-out entry: the
  handler continues with an empty buffer and the session stays in `PIN_ENTRY`
  until the idle timer or another entry. A cancel of the session leaves the PIN
  entry active on the device; the next session's entry supersedes it. The flaky
  test described at `docs/testing-report.md:189` is of this family.
- The host's `authorizeWithdrawal` and `reverseTransaction` are single steps of
  `HostLedger`. `ImplementsLedger` justifies it. Amounts are positive
  (`SubmittedAssumption`): `submitAmount` refuses others.
- The PIN buffer holds nothing, too few digits, a wrong PIN, or a card's PIN.
- `SlowOps` are the operations during which requests, keys and timers may arrive.
  With `SlowOps = {}` people act only while the machine waits for them, which is
  how the ATM screen behaves; with every operation in it, anything may arrive at
  any await. The screen starts one PIN entry per session at a time
  (`autoPinStartedFor`); the model asks the same unless `getPin` is in `SlowOps`.
- `FaultyOps` and `MaxFaults` say which operations may fail and how often.
- XFS commands sent straight to a device by the operator console, outside a
  session, are not part of this module.

### CdmDevice: the dispenser

A command waits for its delay and then runs to its end, so it is one step. A
command that throws changes nothing but the injected error, so only successes
are actions. `calculateMinNotesMix` is a fold over the denominations from large to
small. Commands come in any order, with notes in the tray or not. A DISPENSE
overwrites `presentedCash` (`cdm.service.ts:219`) and a RESET clears it (61): the
notes of before are then in no record of the device, which `ForgetTray` notes in
the history variable `inside`. `overtaken` notes a DISPENSE without `present` made
while the take timer of other notes ran. `MaxReject` bounds the REJECT unit.

### XfsDevices: card reader, PIN pad, printer, sensors

A call of `XfsManager.execute` waits out the device's delay (`Wake` when it is
over), meets the injected error or runs, and is done when its log row is
written (`PersistCommandLog`). Delays may be changed between two commands, so
calls of one device overtake each other. Each digit in the buffer is the call it
was typed for, which is what `DigitsStayApart` needs. `told` is what a listener
of the events believes; `silent` becomes true when a RESET or DISABLE_EVENTS
changes state without an event. Commands that change nothing are `OTHER`. Left
out: `PIN_EVT.KEY` carries the digit itself to every listener (`pin.service.ts:108`),
so `DigitsStayApart` is about the buffer and what commands hand over.

### RpcChannel and BridgeClient: the DLL's connection

`RpcChannel` is what a caller of `send_request` may rely on. `BridgeClient` has
the vendor threads, the reader thread, `pending_mtx`, one mutex per slot, the
frames in both directions, the server that awaits each command, events, time-outs,
a peer that goes away and `shutdown`. The refinement maps the ids drawn to
`asked`. `ensure_bridge` is called by one thread first (see the hazard at
`dllmain.cpp:41`).

### XfsDll: entry points and event router

`WFPOpen`, `WFPClose`, `WFPRegister`, `WFPDeregister`, `WFPExecute` in the two or
three steps their mutexes make of them, and `dispatch`, which copies the windows
under the mutex and posts afterwards. The server's answer is any that
`RpcChannel` allows. Any thread may call any entry point for any handle, open or
not, at any time. `event` is the device of the event being posted and the handle
its name led to; `stale` notes that a WFPClose cleared that handle after the copy
was made, and `crossed` the handles that were used out of order since they were
last cleared: registered while not bound, closed while a registration was under
way, or opened twice. The index
`by_logical_` has one handle per device: a second handle that registers for it
takes over the events of the first.

### HostTransport: the listeners

A request of the console is a `task` that goes from await to await; reading a row,
writing it, `listen()` and the callback of `close()` are separate steps. A start
may fail, a port may be taken, peers connect and leave. A query may be refused,
or its row may be gone (`Refused`): the request ends there and what it did stays
done. When the write of `enabled` after a start or a stop is refused, the row says
otherwise than what runs, until the next write of it; `unsaved` records these rows.
The server restarts at any point: `ensureSeedRows` brings back the seeded rows
that are gone, then the enabled rows are started one by one. (A seeded row keeps
its name in the model, which stands for its id.) `calm` remembers that no two
requests overlapped since the start, and `active` the last request when it was a
setActive that was answered. Create and update check their input (`requireKind`,
`requireSwitch`, `normalizePort`), and update fills in what the request leaves out
from the row it has read; `toDto` is what the console gets. An update without a
port is not checked against the kind it leaves in the row, so a row may be TCP
with port 0, or IN_PROCESS with a port.

### IsoTcp, Iso20022Http, Iso8583Codec, EmvChip: the wire

`IsoTcp` cuts the byte stream anywhere. `Radix` stands for the 256 values of a
byte: with 2 the second byte of a length is used at lengths that TLC can
enumerate. `Iso8583Codec` and `EmvChip` translate the codecs as functions, with
numbers for characters and bytes; `EmvChip` also has the chip's state and its
commands. `Iso20022Http` has the posts of peers, each a transfer with or without
an EndToEndId and a debtor account and with an amount of any sign, one that is no
whole number, or none; the body that may be cut off, the host's answer (`result`,
with what it took from the account in `moved`), and, in a step of its own
(`AnswerPost`), the status that goes back. A missing amount counts as zero and is
answered ACSC with nothing taken; one below zero is answered ACSC with the account
credited. A peer may go away at any point (`gone`) and send its payment again.
`MCWire` runs these parts one at a time (`part`), and checks
each codec over the lengths where its form changes.

### MacroRecorder: from actions to steps

The digit run, the EnterPin it becomes, the ENTER it absorbs, checkpoints, and
start and stop with their awaits; and `MacrosController`: create, update (the row
is read, and written after an await) and delete, beside a recording or in the
middle of one. `did` is what the user did, a history variable. `Replay` is the
runner: it types `Card.pin`, the six digits of the demo PIN
(`macro-runner.service.ts:315-324`), for an EnterPin of whatever length, and stops at
a step that it does not know. Of the checkpoints the recorder writes these are
Cash:Checkpoint(Taken) and Card:Checkpoint(Retained) (283).

### Suites: runs on one ATM

The worker takes jobs from the queue and runs the macros of a suite one by one,
cancelling any session before and after; a console runs single macros beside it,
and whole suites when the server runs with the scheduler disabled (`inline`,
`RunInline`: the request itself runs the suite, beside any other). A step opens,
uses or ends a session, and `foreign` records that a suite's step used one opened
by another run; `disturbed` that runs overlapped or that a cancel failed. BullMQ is
external: a stalled job is run again after a restart, repeatable jobs are kept by
suite and pattern. Suites are created, edited and deleted as `SuitesController`
does it; `validateCron` counts the fields of a text and looks no further, so crons
that no parser takes (`Invalid`) are saved. `sync` is `syncRepeatables`, one await
at a time: `queue.add` takes no invalid pattern, and any call of the queue may be
refused (`SyncRejects`), which leaves the rest of the plan undone. At boot that ends
the process (`BootRejects`, `main.ts`: `process.exit(1)`), so an enabled suite with an
invalid cron keeps the server from starting. `whole` records that nothing came
between the last sync, no other sync and no refused call. Suites are started by
hand (`RunNow`) or by their job (`JobDue`); one without macros goes straight to its
end (`Onward`). XFS errors that a macro injects and that outlive it are not
modelled.

### AtmScreen: the customer's screen

The server's session and its frames, the socket, what the screen shows, the
keypad (`pinBusy`), the begin-pin call of each session, the buttons' wrapped
calls, the sub-menu and overlay. `gate` is `autoPinStartedFor`. A session is there
before any frame tells of it: `onCardInserted` sets it (`SessionStarts`), awaits its
row (`rowOf`), and only a row that is written goes on to a frame (`RowWritten`); one
that is refused leaves the session, `untold` (`RowRefused`). A server that starts
again (`ServerRestarts`) forgets its session and sends nothing. `gap` and `behind`
record that frames were lost, or a session forgotten, and that no frame has come
since. An effect of a render runs with the frame that caused it; React may batch
several.

## 4. The runs

| Run | What it asks | Result |
|---|---|---|
| `host` | Two calls at once of sessions and a listener on one account, one amount below zero, cards with and without account, across midnight, with failures and a restart: no overdraft, the daily limit and the sum it is checked against, conservation of money, the atomic ledger until a restart, every call answered | holds |
| `atm_sessions` | Two sessions, three cards (one refused), every transaction kind, two failures: debit matches cash, PIN before menu and amount before confirm, rows closed and no card left behind, retention only after three wrong PINs, ERROR is a sink, every session ends, every card comes out | holds |
| `atm_overlap` | Anything at any await, any failure: the idle timer's owner, never paid and reversed | holds |
| `atm_cancel` | Debit matches cash when a cancel comes during authorize or dispense | violated |
| `cdm_device` | Commands in any order, with notes in the tray or not: conservation of notes and status of the cassettes, the take timer runs for shown notes only (or overtaken ones), exact and minimal mix | holds |
| `xfs_devices` | Three commands on one device in any order, keys, injected errors: digits stay with their entry, listeners know the card and the sensors, every command is answered | holds |
| `bridge_client` | Two threads, time-outs, disconnection, events: the pending map, refinement of `RpcChannel`, every call ends (or meets the circular wait below) | holds |
| `xfs_dll` | Open, register, close and events by two threads for two handles, in any order: the windows posted to, and nothing left of a closed handle | holds |
| `host_transport` | Overlapping requests on three configs of one kind, peers, failed binds, refused queries, a restart with its seed rows: rows, map and sockets agree, and an answered setActive leaves one of its kind, when requests did not overlap; a request ends once the peers have left | holds |
| `screens` | The recorder: a saved macro covers what was done, and the runner does it again where it can, a recording ends only when saved. The screen, with rows that cannot be written and a restart of the server: it catches up, the keypad follows the pad, menus belong to their customer | holds |
| `suites` | Suites (one of them empty), queued or inline, and macros on one ATM, restarts, edits of suites, a cron that no parser takes, refused calls of the queue: verdicts, clean slate, schedules, every job ends | holds |
| `wire` | Framing over chunks cut anywhere, every request answered, payments of any amount posted over HTTP told truly, the codecs, the chip under any order of commands | holds |

Each property of a passing run has a mutant in `PROJECT.json`: a variant of a
definition, as a plausible bug would have it, that makes TLC find the property
violated. The variants stand in the modules before the definition they vary.
Several properties are conjunctions of named parts (`DailyLimitHolds` has
`SumCoversCash`, `RoutedToBound` has `ClosedForgets`, `ConsoleTellsTruth` has
`ActiveIsAlone`, `MapMatchesRows` and `NoLostListener`). `TypeOK` of each module can be added to any cfg.

### Where code and documents disagree

`atm_cancel` is the one run that expects a violation: `processWithdrawal` reads
`this.session` after its awaits, and a cancel during authorize or dispense leaves
a debit with neither cash nor reversal. The others below were met while
modelling; each is reached with the constants named, or read off the code.

- Host: the STAN counter starts at 1 in each process (`host-emulator.service.ts:68`),
  and a reversal marks older rows that carry the same STAN; `SumCoversCash`
  fails after a restart. A listener's amount below zero credits the account and
  widens its daily limit (section 3).
- Session: with `SlowOps = {"verifyPin"}` a late PIN answer opens the menu of the
  next customer's session (`atm-app.service.ts:206`), and `ErrorIsSink` fails when
  the idle timer fires during `verifyPin`. Two overlapping cancels end two
  sessions and the row of the second stays open (497). A failed update in
  `endSession` leaves a session with no timer (487), and so does a failed balance
  query, in PROCESSING. When `authenticate` rejects, the session stays in
  `CARD_INSERTED`, and the PIN entry of an earlier session that is still active on
  the pad can take it to the menu with no account.
- Dispenser: the greedy mix refuses amounts that the cassettes can pay
  (`cdm.service.ts:303`). A second DISPENSE, or a RESET, drops the record of the
  notes in the tray, and the timer of one presentation reports those of a second
  dispense as taken, presented or not. `retract` has no bound on the REJECT unit.
- Bridge: a caller that times out holds its slot's mutex and takes `pending_mtx`
  (`bridge_client.cpp:286`); the reader that meets the end of the socket takes
  them the other way round (181). `EveryCallEnds` names that circular wait as
  the one way not to return. `ZXFS_PROTOCOL.md:27` promises reconnection with
  backoff, which the client does not have.
- Event router: `event_router.h:64` says a second registration "replaces the
  class mask", `event_router.cpp:24` ORs it in. An event whose windows were copied
  before a WFPClose is still posted to them (`event_router.cpp:104-136`), when the
  handle is closed or bound anew.
- Transports: "exactly one" listener after setActive
  (`host-transport-manager.service.ts:189`) holds when the request is answered and
  none overlapped it. When its listen fails none of the kind runs; when a peer's
  row cannot be written the rest of the peers and the target stay as they were.
  Two starts at once leave a listener nobody can stop.
- Recorder: "replays the same interaction" (`macro-recorder.service.ts:25`) holds
  up to the ENTERs an EnterPin adds, for the demo PIN, and when no card was
  retained and no notes were taken, as the runner refuses these two checkpoints;
  actions between the call of stop and its answer are lost.
- Suites: the worker always passes `CRON` (`suite-scheduler.service.ts:52`), and a
  changed cron leaves the job of the old one, so a suite may have two
  (`SchedulesMatch` asks for the new one and says nothing of the old). "99 99 * * *"
  is saved (`suites.controller.ts:51-61`): its request fails in `queue.add` after the
  row was written, later suites are not added, and the next boot exits.
- ISO 8583: reversals (0400) are acknowledged without asking the host; field 70
  is in the table, but encoding it is refused, as the bitmap ends at 64.
- EMV: the transaction counter takes five hex digits at 65536; a four-byte TLV
  length of 2^31 or more is negative.
- Screen: the `finally` of one session's begin-pin closes the next session's
  keypad (`AtmScreen.tsx:118`); the gate (104) keeps a second begin-pin from being
  sent after a wrong PIN; the branch that maps CANCEL outside PIN entry (145) is
  never reached; keys typed before the entry opens are lost; a screen that
  missed the frames of a session's end shows the previous customer's sub-menu.

### Bounds

- Host: one account, two calls at once: calls conflict only through an account's
  lock, balance and rows, so a second account adds nothing but
  interleavings. Two authorizations; amounts of -2,000,000, 4,000,000 and
  6,000,000 against a balance of 6,000,000 and a limit of 4,000,000: the limit,
  the balance and a switch's maximum each refuse something, and one amount credits
  the account. One listener, of PRIMA. Two days give one midnight, one restart
  strands a call and reuses a STAN.
- Session: two sessions let a stale PIN entry of the first meet the second, and
  three tries within one session, or over two, retain a card. The overlap run has
  two handlers at once and two sessions, so that a handler of the first can continue
  in the second. One failure at a time there, two in the sequential run (a
  dispense and a print, or a reversal after a dispense).
- Dispenser: the three real denominations in units of Rp 10,000 (100k, 50k, 20k),
  at most two or three notes each, amounts that need each of them, that two
  cassettes can pay in two ways, and that the greedy choice misses.
- Devices: three calls: an entry, one that supersedes it, and a GET_PINBLOCK or
  RESET beside them. Devices share nothing, so a behaviour is about one of them.
- Bridge: two threads and three requests let an answer meet a call that is over
  and a later one of the same thread; one event.
- DLL: two threads and two handles, each thread calling for either; two devices,
  one window, two event classes. Behaviours are not bounded.
- Transports: three configs that may be of one kind, two of them seeded and one of
  these enabled; settings that share a port, differ, or need none, and inputs that
  are refused; two requests at once, three in all, three sockets, one connection
  each, one restart. A setActive has two peers, so it can fail between them.
- Screens: digit runs of 1, 3 and 9, which join to 3 and 4, 12 and 13 (the ends of
  what is a PIN) and 6 (the demo PIN); three actions, events and edits together
  (`MCBudget`), two recordings, one checkpoint the runner knows and one it refuses;
  two sessions, two calls and two frames under way, two clicks, one connection
  lost, page loaded again or server started again.
- Suites: a suite of two macros and one of none, queued or inline, two console
  requests, two requests in all, two crons and one that no parser takes, one
  restart. With one restart no job stalls twice: BullMQ fails a job that stalls
  more than `maxStalledCount` (1) times, and `EveryJobEnds` would not hold.
- Wire: three frames with bodies of 0 to 3 bytes, two posts of two payments with
  an amount above zero, one below, none or a broken one, four APDUs, codec inputs
  at every length where the form changes.
- Deadlock is checked for the dispenser and the DLL; the others stop when their bounds
  are used up and nothing is in progress.
- Symmetry is used for slots of equal calls in runs without liveness.

### Fairness

Host: Postgres answers every statement of a call that holds its lock (weak
fairness) and grants advisory locks in order (strong fairness on taking a lock).
Session: devices, host and database answer, and an answered handler continues
(weak fairness); `setTimeout` fires when due, however often the state that makes
it due is left and entered (strong fairness on the idle timer and on the PIN
entry's own time-out). Devices: the event loop goes on (weak fairness on timers
and settled promises). Bridge: a thread that can go on does, and so does the
reader; time-outs of `wait_for` are among a thread's steps. Transports: the event
loop continues a request, and a server without peers calls back. Suites: the
worker continues, since every step of a macro has a time-out. Wire: TCP
delivers, and the host answers or throws. Nothing is assumed of customers,
operators, peers, failures, the calendar or restarts.

## 5. The proofs

TLAPS checks these for every value of the constants that satisfies the
assumptions next to their declarations. A theorem with a further assumption names
it.

| Theorem | Statement | Argument |
|---|---|---|
| `LedgerBooksBalance` (`HostLedgerProofs`) | `LedgerSpec => []BooksBalance` | a debit adds one row and a credit marks one; the sum over the days changes at one day |
| `TypeCorrect` (`HostEmulatorProofs`) | `Spec => []TypeOK` | part of `LockInv` |
| `NeverOverdrawn` | `Spec => []BalanceNeverNegative` | `LockInv`: who is past its lock holds it (`LockHeld`), and who has compared the balance still finds it there (`FundsHeld`). The bare property is not inductive: the debit relies on a comparison two steps earlier |
| `ImplementsLedger` | `NoStanWrap` implies `Spec => LedgerUntilRestart` | adds `StanInv`, as long as there was no restart: the limit that was checked still has room (`LimitHeld`), STANs are drawn once (`StanDrawn`), a call that may be reversed has exactly one completed row of its STAN (`RowOfCall`), no row lies in the future (`FutureEmpty`) |
| `DailyLimitNeverExceeded` | `Spec => []DayWithinLimit` | `LimitInv`, restarts included: rows below zero are only on accounts with something `credited` (`CreditSeen`), so on any other a reversal that marks the wrong row still only lowers a day's total |
| `MoneyIsConserved` | `NoStanWrap` implies `Spec => []MoneyConserved` | `MoneyInv`: debts are a set, so no two may be equal (`DebtsApart`): a debt carries its STAN and the process that drew it, and its amount is positive (`DebtsPositive`). Each step moves one debt in or out of the sum, and an amount below zero goes to balance and `credited` alike |
| `DailyLimitIsHeld` | `NoStanWrap` implies `Spec => []DailyLimitHolds` | the two before it, and until a restart `BooksBalance`: balance and completed rows add up as balance and cash do, so the sum of the rows covers the cash but for what was `credited` |
| `AppTypeCorrect` (`AtmAppProofs`) | `Spec => []TypeOK` | `AppInv`: types, the arguments each awaited operation was given (`ArgsOK`), and the PIN pad's entry belonging to a waiting handler |
| `TimerNeverStale` | `Spec => []TimerOwner` | part of `AppInv`: every assignment to the session goes with `armIdleTimer` or `clearIdleTimer`, for any number of overlapping handlers |
| `PaidIsNeverReversed` | `Spec => []NeverPaidAndReversed` | `StanInv`: drawn STANs are unique among waiting handlers; a STAN whose dispense is not yet known is not in `paid`; one whose reversal is not made has no REVERSED row. It rests on `auth.stanNo` being a local of `processWithdrawal` and not a field of the session |
| `PinComesFirst`, `RowsAreClosed`, `RetainedFairly`, `ErrorEndsSession` | `Orderly` implies `Spec => []PinBeforeMenu`, `[]RowsClosed`, `[]RetainedAfterTries`, `ErrorIsSink` | `OrderInv`: one handler runs at a time (`OneRuns`); what the session, its row, the reader and the counts are like at each of its awaits (`Scene`) and when nothing runs (`AtRest`). None of the four is inductive: a late answer is harmless only because the session is still the one it was asked for, and a card is retained fairly only because a session never counts more wrong PINs than the host has |
| `DebitsMatchCash` | `Orderly` implies `Spec => []DebitMatchesCash` | `DebitInv`: the debit of the one handler between approval and settlement is what balance and cash are short of; by `OrderInv` the amount and the account it reads again from the session are those it was authorized with |
| `DevicesTypeCorrect`, `DigitsNeverMix`, `EventsTellAll` (`XfsDevicesProofs`) | `Spec => []TypeOK`, `[]DigitsStayApart`, `[]ListenerIsRight` | `DeviceInv`: what is buffered was typed for the active entry (`EntryTyped`), the buffer never mixes two entries even with none active (`OneEntryBuffered`), events are off only after a command the model remembers (`EventsOn`) |
| `NoNoteLost`, `OnlyShownTaken`, `TrayPaysAmount` | `CdmSpec => []NotesConserved`, `[]OnlyShownIsTaken`, and that the tray is worth what was asked for; commands in any order, with notes in the tray or not | `CdmInv`: notes are sums over units, and a step changes one unit or each by its share of the mix; the fold of `calculateMinNotesMix` is a chain of records whose notes and remainder add up to the amount at every cassette |
| `FewestNotes` | `Rupiah` implies `CdmSpec => []MixIsMinimal` | `Greedy`: a larger note stays in its cassette only if what is paid without it is worth less than it. Against any other mix of the same worth, with notes of 10, 5 and 2 units, the rest is arithmetic (`LargerIsFewer`) |
| `BridgeTypeCorrect` (`BridgeClientProofs`) | `Spec => []TypeOK` | part of the invariant below |
| `PendingOwned` | `Spec => []PendingIsOwned` | `ChannelInv`: a call has an id of its own (`OwnIds`), is sent and executed once (`SentOnce`), a response exists only of an executed request wherever it is (`OnlyAnswers`), slots are open while their call waits (`SlotsOpen`), one thread connects once (`ConnectOnce`) |
| `ImplementsRpcChannel` | `Spec => ImplementsChannel` | every step of the client, the reader and the server is a step of `RpcChannel` or a stutter, by `ChannelInv` |
| `DllTypeCorrect`, `EventsReachBound` | `DllSpec => []DllTypeOK`, `[]RoutedToBound` | `RouterInv`, with no order between the calls: unless its handle is `crossed`, a registration under way still has the name the handle is bound to (`JobsInOrder`), one call opens a handle (`OneOpens`), and a WFPClose that let go of the binding has yet to clear the router. `RoutedToBound` alone does not survive a registration's second step |
| `TransportTypeCorrect`, `ConsoleIsTruthful` (`TransportProofs`) | `Spec => []TypeOK`, `[]ConsoleTellsTruth` | `TransportInv`: while no requests overlapped there is one request (`OnlyTask`), what it has read and done by the await it is at is still so (`Doing`), every other row that is not `unsaved` agrees with map and socket (`Fine`), a setActive has stopped the peers it has passed (`PeersStopped`) and stays alone of its kind once answered, until the next request (`Chosen`), and every open transport is in the map or in the hands of a start (`Held`) |
| `PaymentsAreToldTruly` | `HttpSpec => []PaymentsToldTruly` | `HttpInv`: until the host has decided nothing has moved, from then on it is the amount of an approved message and nothing of a declined one, and the answer says which (`TellsOfPost`), also when the peer has left; amounts are any integers |
| `FramesAllSurvive` | `LinkSpec => []FramesSurvive` | `LinkInv`: buffer and network together are the frames of the bodies sent after those handled (`FramesOf`, a table of offsets), and between chunks the buffer holds no complete frame. How many turns the loop makes is not bounded: of a counterexample to what it leaves, one with the fewest turns is refuted |
| `ScreenIsRight`, `KeypadIsRight`, `MenuIsOwn` (`ScreensProofs`) | `ScreenSpec => []ScreenCatchesUp`, `[]KeypadFollows`, `[]MenuBelongs` | `ScreenInv`: the frames under way follow on from what is shown and lead to the session the server has told of (`Stream`), with a session it has not told of still at its row (`ToldOf`), a screen at rest has no menu open (`RestingView`), an open keypad has a begin-pin that will close it (`KeypadHasWaiter`, `GateKept`) |
| `RecorderTypeCorrect`, `RecordingEndsOnlySaved` | `RecorderSpec => []RecorderTypeOK`, `EndsOnlySaved` | `RecorderInv`: without overlap one request of the recorder is under way, and a start still finds no recording, a stop the one it read (`OneRecorder`) |
| `ReplayIsComplete` | `RecorderSpec => []ReplayCovers` | `CoverInv`: the steps with the digits still in the buffer replay to what the user typed, and an ENTER that is to be absorbed has been pressed ahead (`Faithful`); the runner does these very steps when it stops nowhere and each PIN is the demo PIN (`RunnerDoesSteps`). This needs no assumption on overlaps |
| `SuitesTypeCorrect`, `VerdictsAreRight`, `SlateIsClean`, `SchedulesFollow` | `Spec => []TypeOK`, `[]VerdictIsRight`, `[]CleanSlate`, `[]SchedulesMatch` | `SuitesInv`: the worker's place and verdict agree with the row it fills (`RowMatches`), jobs waiting, running and done add up (`JobsKept`), an undisturbed macro is alone on its own session (`SlateInv`), a sync that nothing came between still has, at each await, the rows and jobs it has read (`PlanRight`), whatever the jobs were before it began |

`HostLedgerProofs` holds the lemmas on the ledger's operators that the proofs
about `HostEmulator` and `AtmApp` use: what a debit and a credit leave in the rows.
`Sums` holds what the proofs need of sums over finite sets: a sum exists, is
monotone, and changes by what one member changes. Where a proof needs induction
(over a sum, the fold of the mix or of the recorder's steps, the turns of the
frame loop) it takes a minimal counterexample, a least number (`LeastNatural`) or a
minimal subset (`MinimalSubset`), and refutes it.

Two assumptions are on constants and not on their types:

- `NoStanWrap` (`MaxAuthorizations < StanModulus`): fewer withdrawals than STANs.
  `formatStan` keeps the counter modulo 1,000,000 (`packages/shared/src/ids.ts:19`),
  so after a million calls two would share a STAN and meet in the `updateMany`
  that marks rows by STAN.
- `Rupiah`: notes in the proportions 10, 5 and 2, which those of the default
  cassettes have (`cdm.service.ts:134`, `seed.ts:121`). For other notes the greedy
  choice need not be minimal: of 40, 30 and 10 it pays 60 as 40 + 10 + 10.

Amounts are any integers in the ledger and the host (`LedgerAssumption`) and in
`Iso20022Http`; only those of the customer session are positive
(`SubmittedAssumption` in `AtmApp`).

`Orderly` (in `AtmAppProofs`) is an assumption on two constants: requests, keys
and timers come only while no handler runs (`SlowOps = {}`: people act only while
the machine waits for them), and of the operations only the track read, the PIN
check, the host's note of a retained card, the balance query, the authorization,
the dispense and the print fail. Each part of it is needed. `atm_cancel` and the
list above show what overlapping requests do. A failure of any operation it leaves
out breaks one of these properties, as TLC shows on the instance of `atm_sessions`
with that operation added to `FaultyOps`:

- `createRow`, `authenticate` (with a failed dispense) and `reverse`:
  `DebitMatchesCash`, as the debit is never given back;
- `retainDev` and `eject`: `RowsClosed`;
- `endRow`: `ErrorIsSink`;
- `getPin`, three times over (`MaxFaults = 3`): `RetainedAfterTries`. An
  entry left from the session before is still accepted, and resets the host's count
  but not the session's.

The instance of `atm_sessions` satisfies `Orderly`. `TimerNeverStale` and
`PaidIsNeverReversed` need none of it.

Each inductive invariant was checked by TLC on an instance before it was proved.

Only model-checked:

- the liveness properties (`EveryCallAnswered`, `SessionEnds`, `CardComesOut`,
  `EveryCallEnds`, `RequestEnds`, `EveryJobEnds`, `EveryRequestAnswered`), which
  are out of the prover's reach;
- `CodecsRoundTrip` and `ChipAnswers`: the TLV of an answer is a tree, whose decoder
  is a `RECURSIVE` operator, and the prover does not take modules with those.

## 6. Not modelled

- Formatting of receipts, logs and messages; track and PAN syntax; PIN hashing
  and PIN block encryption; the chip's cryptogram.
- The database connection itself, beyond a statement that rejects.
- The text of ISO 20022 messages: XML and dates.
- `wfs_codec`, `ini_config`, `mini_json`: conversions of structs and text.
- SIU indicators, which nothing reads; display of the operator console.
- Two threads that make the bridge client at once (`dllmain.cpp:41`): undefined
  behaviour with no bound on its outcomes.
- Reports, themes, cards, health, seed data: queries and presentation.
- Generated code and code generators.
