# XitForge: TLA+ specifications

XitForge is an iOS application (Objective-C) with a file engine that exchanges
files with other applications of the same device through the device's own
services: AFC (a file service on the Media directory), AirTraffic (a
synchronization service that moves files it is told about) and the Books
synchronization state, which carries the list of files to move. The services are
reached through a native library (Rust, `XitForge-Tunnel/native/`): `idevice`
speaks the protocols of the device, `ffi` is the C interface over it. This
directory specifies and checks what must not be lost, duplicated, confused or
left behind when calls are interrupted, fail or run side by side: in the engine,
what happens to the files; in the library, whose memory a handle is and whose
answer a message is.

Paths below are relative to `src/XitForge-Tunnel/module/` unless they begin with
`MiApp/` or `XitForge-Tunnel/`; `native/` is `src/XitForge-Tunnel/native/` and
`services/` is `native/idevice/src/services/`. `D` is `XFATCDirectory.m`.

## 1. Inventory

| Component | State | Operations | Hard part | Correct if |
|---|---|---|---|---|
| Known-file transactions (`D` 900-1910, `XFATCFileRecovery.h`) | `active.plist`, owned backup directory with `FileOriginal`, `FileIncoming`, `FileVerify`, local snapshot, generated link | read, replace, create probe, delete, list, confirmed restoration, automatic recovery | crash between any two steps, moves executed late or never, an application that writes | an original is never lost, nothing newer is overwritten, the journal closes only when settled, and eventually does |
| AirTraffic session (`D` 600-1000, `XFATCProtocolState.h`, `XFATCSyncRetry.h`) | protocol phase, attempt, `atcMoveAttempted`, stream, tunnel | `runATC`, `runKnownFilePairs`, `waitFor`, `retryATCPreparation` | timeouts, leftovers of an earlier session, retries | a move is never repeated, the protocol order is kept, no tunnel leaks, every request ends |
| Books isolation (`D` 380-540, 2000-2300) | tracked files and their copies, marker, journal flags | snapshot, mark, publish, restore | writes that are not atomic, a daemon that writes the same files | every tracked file is restored, what the daemon wrote is kept |
| Direct write, direct delete (`XFATCDirectWrite.inc`, `XFATCDirectDelete.inc`) | token, `FileIncoming`, generated link, published `Books.plist`, its copy in memory; a journal nobody reads back | panel write, panel delete | moves executed after the wait ended, leftovers of crashed calls, a daemon that writes the manifest | success means done and stays done; a failed write is over; the manifest is put back; no leftover blocks a later call |
| Legacy Books recovery (`XFATCLegacyBooksRecovery.inc`) | libraries older versions moved aside | recover | several half-done states | library back in place |
| Backend worker, pairing, container access (`XFAirLiftBackend.m`, `XFOnDevicePairing.m`, `XFMHAContainerAccess.m`) | connection, pairing record, grants | connect, pair, list, request | results after a timeout | one worker, one answer per request |
| Screens, document import (`XFAirLiftViewController.m`, ...) | pending import | choose, copy, cancel | the 30 s deadline and a late result | one result is delivered |
| Home activation (`MiApp/HomeViewController.m`, `XITForgeDeactivationPlan.h`, `XITForgePanelDeactivation.inc`) | active mode, plan | activate, deactivate | one file of several fails | what was activated can be deactivated |
| File engine (`MiApp/XITForgeFileEngine.m`, `XITForgeTwoFiles.m`) | downloads, per-file status | download, apply, restore | partial failure | all or a report of what was not done |
| License, version, VPN (`MiApp/LicenseValidator.m`, `AppVersionChecker.m`, `XFLocalVPNManager.m`) | session, version gate, tunnel state | validate, check, start, stop | late answers | the latest answer wins |
| Remote server client (`services/dvt/remote_server.rs`, loop of `dvt/xctest/mod.rs`) | registry of channels, their queues, pending replies, handlers, capabilities, `closed` | calls, channels opened from either side, reads, waits, handshake, test plan, end, drop | one reader task, many callers, notifications without a memory | a reply reaches its call, an acknowledged channel is served, waits end |
| Native call layer (`native/ffi/src/lib.rs`, `errors.rs`, `xf_stream.rs`, `native/idevice/src/lib.rs`) | handles, connection | every C function and client method | an error or a deadline at any step | a handle is released once, by whom the interface says; answers are not mixed up |
| Transport (`native/idevice/src/provider.rs`, `usbmuxd/`, `services/lockdown.rs`, `rsd.rs`, `tunnel.rs`, `remote_pairing/`, `xpc/`) | connection, session, tunnel, pairing record | connect, start session and service, pair, send, receive | half a message at a deadline, a socket moved into a TLS session that fails | as above |
| File services and backup (`services/afc/`, `house_arrest.rs`, `misagent.rs`, `mobilebackup2.rs`, ...) | AFC descriptor, poisoned flag | file calls, backup loop | 12 s deadlines, a backup that stops halfway | as above |
| Lockdown services (`services/*.rs`) | connection | one request, one answer | second answers, events | as above |
| Traces, installation, debugger, images (`os_trace_relay.rs`, `installation_proxy.rs`, `debug_proxy.rs`, `mobile_image_mounter.rs`) | connection | answers in several parts | an early return between parts | as above |
| CoreDevice services (`services/core_device/`, `cryptexd.rs`, `restore_service.rs`) | RemoteXPC streams | invoke, stream, upload | replies in parts | as above |
| Instruments services (`services/dvt/`) | a channel of the remote server | sample, launch, list, test runs | shared connection | as above |
| WebDriverAgent (`services/wda.rs`, `wda_bridge.rs`) | session id, forwarded ports | HTTP requests with fallbacks, bridge | retries on other routes | as above |
| Restore (`services/restore/`, `tss.rs`, `http.rs`) | restored session, side services, recovery and DFU devices | run a restore, answer its requests | two conversations at a time, cancellation | as above |
| Encodings and cryptography; tools, tests, bindings (`native/`) | bytes | | | not modelled |
| Shell, settings, translations; sources outside the build | presentation, third-party code | | | not modelled |

How they interact: the screens and Home hand one request at a time to the
backend worker, which calls the methods of `XFATCDirectory`. Activations and
deletions of the panel take the direct routes (`XFAirLiftBackend.m` 1168, 1266),
which neither look at the journal nor leave one; everything else is a known-file
transaction. Such a call first
runs `recoverPendingTransaction`, which finishes an interrupted one; then it
writes a fresh journal, isolates Books, runs AirTraffic sessions to place the
generated link and to move files, and ends again in `recoverPendingTransaction`.
The session layer reports to the transaction layer only *done*, *failed* or
*failed before anything was sent*; the transaction layer never trusts *failed*
but looks at the files. Below the engine every access to a device is a chain of
native calls: a C function checks its arguments, takes or borrows handles, and
awaits a client method, which sends requests over its connection and reads the
answers. The engine reaches AirTraffic through `xf_stream.rs` and Media through
`afc`, and treats a native timeout as any other failure. The instruments
services are the exception to one caller per connection: there all clients share
one connection through the remote server client.

`PROJECT.json` lists the hazards of this code, each at its line, with the
properties that cover it or the reason why none does.

## 2. Modules and the code they model

**`FileRecovery`** is the classifier of `XFATCFileRecovery.h`: what was observed
of the slots and the destination, with the facts of the journal, to one
decision. Unknown, Missing and Present are kept apart.

**`KnownFileTxn`** is the transaction. Variables: the application's file
(`target`), the three slots, the link, the local snapshot, the journal on disk
(`active`) and in memory (`journal`), the moves the device has not executed
(`moves`), and the worker (`pc`, `mode`, `call`, `seen`). A step ends where the
code calls the device or the disk, so a crash, a failure, a late move or a write
of the application can come between any two of them. `mode` says which caller
runs `recoverKnownFile`: a call's body, its preparation, its end, or the
confirmed restoration. Contents are model values; a digest is the content. What
the code saves together is one step (`Save`): the write of `active.plist` is
atomic and fsynced, and a save that reports failure is an `IoError` before or
after the step. The device executes the moves of one session in order, drops
some, and starts a session only after the last one is finished (assumed of the
service). The variables `taken`, `back`, `own`, `verifyOwn`, `excused` are
auxiliary: they record history for the properties and no guard reads them.

**`FileCustody`** is what the owner of a file relies on: a transaction takes its
bytes at most once, the engine holds them, with a copy in a safe place, until it
has given them back or the transaction is committed, what is committed is not
given back later, and no transaction is closed while the engine holds its bytes.
The mapping at the end of `KnownFileTxn` (`CustodyKind`, `CustodyStatus`) reads the
journal on disk, not the one in memory: that is what counts after a crash. The
copies are `FileOriginal` and the local snapshot. All labels, slots, moves and
services are hidden.

**`MoveSession`** is what the engine relies on when it asks for moves: they are
handed over in order, each once, possibly stopping early, and *untouched* is
reported only if none was. **`AtcSession`** is the code: attempts, tunnels,
the wait loop with its decision table and deadline, the sends, the retry policy.
The device is external and bound by nothing but the state it is in (`dev`, what it
waits for next): it says any message at any time (`Chatter`), announcements it is
not ready for included, or is silent, and the connection may break at any point. `announced` is
auxiliary: how many of `SyncAllowed`, `ReadyForSync` and a complete manifest it
has sent in this session, in this order. A device whose announcements are true
has sent as many as its state stands for (`Standing`); only such a device can be
held to `dev = ReadyFor(phase)` in `InProtocol`. The code accepts a message by its
name alone, so it takes a manifest that the device sends after `ReadyForSync`, but
before it has the metadata, for the answer to them, and sends `FileComplete`
early: the model has these behaviours, and `InProtocol` says that the device's own
announcement is their only cause.

**`BooksInPlace`** is the library as transport: copy the tracked files, set the
marker, record the intent, write the manifest, synchronize, restore. Opening a
file for writing empties it, so every write is an open and a write, with
`Torn` in between. The daemon writes the same files at any time.

**`DirectTransfer`** is one target of the direct routes over any sequence of
calls. Each call has a token of its own, and `incoming`, `staged`, `link` and
`move` are what belongs to the current one. What an earlier token leaves matters
in two ways, which the model keeps: a move the device still has (`late`, reduced
to what it will leave at the target) and a published manifest, which the next
call meets as `Stale`, or `Torn` if the write of it was cut. A step is one call
to the device; the device serves one session at a time, so a session begins when
earlier moves are done. The calls differ in the middle: a write places
`FileIncoming` through the link and believes in the missing source; a deletion
looks at the target, moves it to the slot and unlinks it there. Then both run the
`@finally` block: manifest, link, staging directory. `own`, `foreign` and
`cleaned` are auxiliary.

**`RemoteServer`** is the shared connection of the instruments services. The
registry is `channels` (code to queue, 0 when absent), `queues`, `metadata`,
`handlers` and `pending`, each under a lock of its own in the code, so an action
is what happens under one lock or between two awaits. A task is at a place of its
operation (`task[t].at`): it inserts its sender, writes, awaits; or it looks at
the state, checks `closed`, and parks. These three are separate because tokio's
`notify_waiters` wakes those who are parked and is forgotten by everybody else;
`woke` holds what a parked task was told. The reader task takes what the device
sends, in any order the device chooses: replies, invocations, capabilities,
cancellations, and requests for channels, which it serves in four steps. It ends in
four steps as well: fail the pending replies, set `closed`, notify, gone; dropping
the client aborts it where it stands. `device` holds the requests the device was
sent and the channels it was acknowledged. A message is its kind and identifier.

**`CallScript`**, **`NativeCalls`**, **`NativeLibrary`** and the call modules are
the rest of the native library. Nearly all of its more than 1100 functions have the
same control: test arguments, take handles, send, read, judge the answer, give
the result, with a `?` after each. Each function is therefore a *script*, the
sequence of those steps in the order of its code, in the vocabulary of
`CallScript` (for instance `Take(h)` is `Box::from_raw(h)`, `Within(s, h)` a
deadline around a block); a function that calls another one contains its script.
`NativeCalls` gives the scripts their meaning: `Call` begins one with at most one
null pointer, and each further action is one step, on the handles (`taken` by the
frame, `kept` by an object it made, `freed`, `given` to the caller) and on the
connection (`owed`: the answers the device has sent or will send, in order;
`dead`). A `?` goes to the innermost block that handles the error or out of the
function, and what the frame owns is then released, as Rust does. A reply has no
identifier: `crossed` says that a call has read an answer to an earlier one. A
deadline may cut a read between a header and its body and leave the body
(`torn`). The scripts are in `TransportCalls`, `FileCalls`, `LockdownCalls`,
`DeveloperCalls`, `CoreDeviceCalls`, `DvtCalls`, `WdaCalls` and `RestoreCalls`,
named as in the code (`Client_method`, or the C name); `NativeLibrary` states
what a caller may rely on, and what the order of a script's text has to be for it
(`InOrder`: the arguments are tested, then handles are taken; objects are handed out
after the last step that can fail) and what a call has to do to its answers when it
is alone (`ReadsAnswers`: run by itself on an unused stream, with what is known of
that stream in five kinds, it ends with nothing unread). Calls whose code breaks one of the rules are listed
there by name, each set with the reason, and are the only ones exempt; scripts
are compared by value, so a call that has the same steps on arguments of the same
name shares the exemption.

`MCKnownFile`, `MCAtcSession`, `MCBooksInPlace`, `MCDirectTransfer`,
`MCRemoteServer` and `MCNativeCalls` are the instances for TLC.
Operators commented *Mutant* are wrong variants of the definition after them;
no specification uses them. They are there to show that the property they
belong to can fail.

## 3. Runs

| Run | Question | Result |
|---|---|---|
| `known_file_replace` | replacements, creations and restorations with all five faults | holds: type, write-ahead, truth of success and failure, no blind overwrite, journal closes only when settled, refinement of `FileCustody` |
| `known_file_read_delete` | reads, probes, deletions, listings and restorations with all five faults | holds: the original is never lost, a committed deletion keeps both copies, refinement of `FileCustody` |
| `known_file_recovers` | liveness with crashes and dropped moves, then healthy services | holds: calls return, staged originals and committed deletions are settled |
| `atc_session` | one request against a device that sends any message at any time | holds: the host acts only on what the device announced in this session, in order (a device that announces only what is true is sent nothing it does not wait for), no tunnel left, transport failures are retried, refinement of `MoveSession`, the request ends |
| `books_in_place` | one library, crashes, failures, a daemon | holds: our bytes are always recorded, the library is restored, the daemon's bytes are kept, recovery ends |
| `direct_transfer` | direct writes and deletions in any order with all seven faults | holds: success is applied and no earlier call undoes it, a failed write is over once its link is gone, the manifest is put back or a warning is given, the daemon's manifest survives the cleanup, calls return, a call in healthy conditions succeeds whatever is left over |
| `remote_server` | one client and one owned channel, used by two tasks, against an arbitrary device that may end the connection, with the client dropped at any await | holds: type, a reply reaches its call, an acknowledged channel is served, waits end |
| `native_calls` | every call of the library after every other one on the same client, with bad arguments, failures and deadlines at every step | holds, but for the calls named in `NativeLibrary`: the text of every call keeps its order and, alone, reads what it asks for; a refused call takes nothing, a failed call frees nothing it only borrowed and nothing twice, and gives nothing; answers are read by the call that asked |
| `commit_closes` | does reconnecting close a committed replacement? | **violated**: finding 1 |
| `interrupted_recovers` | is every interrupted operation recoverable? | **violated**: finding 2 |
| `mismatch_restore` | does the confirmed restoration end a mismatch? | **violated**: finding 3 |
| `test_run_disconnect` | does a test run whose runner goes away report just that? | **violated**: finding 4 |

**Bounds.** `KnownFileTxn` has no counters and its runs are exhaustive for the
given contents: two of them tell *same* from *different*, and the replacement run
has three, so that the original, the payload and something the application wrote
can all differ. Contents are interchangeable, hence the symmetry set (only in
runs without liveness). There is one path; the code serves one call at a time
and one journal, and transactions on other paths share nothing with it. The
number of calls, crashes and faults is not bounded. `AtcSession` has up to three
moves (one, two and more behave differently at the loop's ends), a deadline of
three messages (`Budget`) and three messages under way (`MaxInbox`), so that a
device can announce everything before the host has read anything; attempts are
the code's three. `BooksInPlace` has two tracked files, the manifest and another
one, and two contents besides the engine's. `DirectTransfer` has no counters: two
contents of the file and two manifests of the daemon tell *same* from
*different*, the number of calls, crashes and faults is not bounded. What many
earlier tokens may have left is folded into one late effect and one manifest,
since the device executes moves in the order of its sessions and each session
waits for the one before. `RemoteServer` has two tasks, the holder of the client
and an owner of a channel (the borrow rules of the code allow no other mixture),
one operation each (`MaxOps`), one channel code per side (`MaxCode`), two
identifiers (`MaxId`) and two messages from the device (`MaxReceived`): two
requests can be under way with their replies in any order, and a channel can be
opened, used and cancelled, or cancelled and opened again. The run of finding 4
has two test plans and three messages. `NativeCalls` has no counter of calls; the
device owes at most four answers (`MaxOwed`) and a reply has at most two parts
(`MaxParts`), which is a first and a last one. A script nests its blocks at most
fifteen deep; `MaxNesting` is sixteen, and a deeper script would violate
`CallsInOrder` at its first step. Everything a call can do alone is reached in less
than a hundred steps (`MaxBurst` squared); that nothing is missing is part of
`ReadsAnswers`. One pointer is null at a time:
the tests are in sequence, so a second null pointer is met only by code the
first one lets be reached.

**Deadlock** is checked for `KnownFileTxn` and `DirectTransfer`. It is not for `AtcSession`, which
ends with its request, nor for `BooksInPlace`, where a torn marker stops all
further work in the code as well, nor for `RemoteServer`, whose connection ends
and whose tasks have a bounded number of operations, nor for `NativeCalls`, where
a call that waits for an answer its script never asked for, on a connection that
does not fail, waits for ever as in the code.

**Fairness.** The worker is weakly fair: it is one thread and every blocking
call has a deadline. The device is weakly fair in `KnownFileTxn`: a move it was
sent is executed or dropped. `RetrySpec` adds that the user keeps reconnecting
and confirms the restoration when it is offered; strong fairness, because both
are possible only between calls. Recovery is claimed only after `Settle`: from
then on nothing fails and the application is closed. In `AtcSession` the device
owes nothing. In `DirectTransfer` the worker is weakly fair and so is the device,
which executes or drops a move but may take longer than the engine waits
(`slow`); `NextCallSucceeds` is about calls that begin after `Settle`, of which
nothing forces one to begin. In `BooksInPlace` the worker and the next recovery are fair.
In `RemoteServer` a task that has begun an operation, and the reader once it has
something to finish, are weakly fair: they are tasks of a multi-threaded runtime
and none of these steps waits for another task. The device, the beginning of
operations and the drop of the client owe nothing. `NativeCalls` claims no
liveness.

### Findings

1. *A committed replacement that never closes* (`D`:1413). `finishRecovery`
   removes the link (2139) before `active.plist` (2184). A crash in between
   leaves a committed journal, and every later recovery demands the link first.
2. *An intent without its move* (`D`:1232). A crash after the durable intent and
   before the move leaves a journal that neither recovery accepts, although the
   application's file was never touched.
3. *Mismatch and restoration* (`D`:1905). After a foreign read-back the
   confirmed restoration returns the original and then runs the automatic
   recovery, which refuses because of the mismatch; the journal stays.

4. *A lost runner reported as a closed socket* (`services/dvt/xctest/mod.rs`:1802).
   The end of the connection wakes both branches of the select, the disconnect
   waiter and the dispatch loop's read, and the loop may also look at `closed`
   first: the run may end with a socket error where the comment at 1789-1791
   promises `TestRunnerDisconnected`.

None of the first three loses an original: they leave the engine waiting.

The calls exempt from the rules of `NativeLibrary` are observations of the same
kind, kept as sets and not as runs: `TakesBeforeTesting` (a refusal for an
argument has already consumed a handle), `TakesTwice`
(`idevice_usbmuxd_connect_to_device` copies the connection out of its box and
drops the box), `FreesWhatItBorrows` (an error arm frees the provider the call
only borrowed) and `LeavesAnswers` (an early return leaves an answer, or the rest
of one in parts, on the connection). Met on the way, and not stated as
properties: a task that tests `closed` and parks after the last notification
waits for ever although `disconnect_waiter` promises to resolve
(`services/dvt/remote_server.rs`:302); a handshake may write `Pending` over capabilities
that came in between (361-370); WebDriverAgent wrappers take any message that
contains "404" for a missing route, and `wda_client_delete_session` forgets the
tracked session when another one is deleted; a restore that fails to start sends no
goodbye although its comment says "on any exit" (`services/restore/state_machine.rs`:356).

## 4. Proofs

All proofs are for every value of the constants that satisfies the named
assumptions, which only say that the constants are distinct and of their type.

- **`TypeCorrect`** (`KnownFileCustodyProofs`): `Spec => []TypeOK`. The queue of
  moves is of one session only because every send needs the device to be done
  with the last one; and steps that update the journal need one to be there. The
  inductive invariant `TypeInv` adds both to `TypeOK`.
- **`OriginalKept`** (`KnownFileCustodyProofs`): `Spec => []OriginalNeverLost`.
  The property alone is not inductive: `DropOriginal` removes `FileOriginal` and
  `Report` removes the snapshot of a read, and a new move could overwrite
  either. `IInv` adds `OneOriginal` (all copies are copies of the one original,
  and the move that takes it is sent once, before anything was taken),
  `CustodyOK` (where a copy is about to be given up the other one is there or the
  original is back), `ReadJournal` (a read that has its data recovers its own
  transaction) and `ModeOK` (which code runs where). Most steps are *quiet*: they
  touch no copy; lemma `QuietCustody` settles them at once and the others have a
  lemma each.
- **`DeleteRetained`** and **`JournalClosesOnlySettled`** (`KnownFileCustodyProofs`):
  `Spec => []CommittedDeleteRetained` and `Spec => JournalClosesSettled`. A recovery
  decides from the flags of the journal and from the slots it saw some steps ago, so
  `PromiseInv` says what these mean. `FlagsOK`: a transaction whose intent was never
  saved took nothing, one that observed the original has taken it, and one that is
  committed or has it returned has given it up for a reason (`GivenUp`: it is back, or
  the local copy outlives the decision). `SeenOK`: a slot seen empty after the original
  was observed stays good for the decision taken from it, whatever the device still
  executes. `LabelsOK`: no code that places content runs for a read or a deletion, and
  only settled transactions get to the removal of the journal, which is the only step
  that removes it (`OnlyRemoveActive`).
- **`AnnouncedFirst`** (`KnownFileOutcomeProofs`): `Spec => []WriteAhead`. Sends
  read the journal in memory and a recovery reads the one on disk, so `AheadInv`
  says that both announce the same moves while a transaction is open (they differ
  only in the flag a failing save was about to change), that each label that queues a
  move has its announcement, and that a move under way stays announced: `Discarded`
  takes the one of a placement back, but only when its source is gone, so that a
  placement still with the device moves nothing.
- **`FailedReplacement`** (`KnownFileOutcomeProofs`): `Spec => []FailureLeavesOriginal`.
  The journal of a call's own transaction is closed by the recovery at its end, for
  one of the reasons in `GivenUp`: nothing was taken, the original is back, or the
  payload is committed. `OwnInv` shows that the last one makes the call succeed: a
  committed replacement is verified, names the payload of the call and never
  announces the return of its original, so `CompletedWriteMatches` holds.
- **`SuccessfulCall`** (`KnownFileSuccessProofs`): `Spec => []SuccessIsInPlace`. A call
  decides from the journal and from what it read back, and reports some steps later,
  while the application may write at any time. `WriteInv` says what the journal of a
  write means for the files: once a placement is announced the payload's slot holds
  the payload or nothing, the application's path holds the payload, nothing or what
  the application wrote (`WriteContent`), and a slot a recovery saw empty stays so for
  the decision taken from it (`WriteSlots`). `DoneInv` says what holds from the
  decision to the report: a write that is verified has no move left that takes its
  payload back, a deletion has both its copies, a read has its original in place. It
  needs `OneOriginal` and `FlagsOK` of the earlier proofs, since a recovery at the end
  of the call may settle its journal in its place.
- **`NeverOverwritesBlindly`** (`KnownFileOutcomeProofs`): `Spec => NoBlindOverwrite`.
  The engine sees the path of the application free, and the move that fills it is
  executed some steps later, when the device gets to it. `BlindInv` says why the path
  is still free then unless the application wrote (`excused`): it was free when the
  return or the creation was prepared and queued (`PathOK`, `ReturningOK`), no other
  move that fills it is under way, and what a recovery saw of the owned slots stays true
  while nothing is sent (`LookOK`). A missing link looks to the engine like a missing
  file, so `LinkThere` says that the link is there wherever absence is concluded.
- **`CustodyKept`** (`KnownFileOutcomeProofs`): `Spec => KeepsCustody`, that is,
  `KnownFileTxn` implements `FileCustody`. Most of a step's obligation is in the
  invariants above: a copy is there by `OneOriginal` and `OriginalNeverLost`, and the
  journal is closed only where nothing is owed, by `PromiseInv`. Steps that neither
  move the original nor change what the journal is committed to are settled at once by
  lemma `KeptStep`. What remains is that an original is not given back after its
  replacement is committed. A recovery commits a replacement because it sees its
  payload gone from its slots, some steps after a return may have been sent. `DutyInv`
  says that the two exclude each other: nothing is given back before it was taken
  (`TakenFirst`), the flags of a replacement follow the steps it has made
  (`InOrder`), and while a return is under way the replacement is not committed: once
  the return of its payload was announced, the payload is still in its slot, where a
  recovery sees it (`ReturnAlone`).
- **`MovesOnceAlways`** (`AtcSessionProofs`): `Spec => MovesOnce`, that is,
  `AtcSession` implements `MoveSession`. `SessionInv` says that the flag
  `atcMoveAttempted` covers every move handed over, so an attempt that may be
  retried has handed over none, and that while moves are sent the next one
  follows the last one handed over. It is needed because `SendFileComplete` may
  deliver a message and still fail.
- **`ProtocolKept`**, **`TunnelsGivenBack`** and **`TypeCorrect`**
  (`AtcSessionProofs`): `[]InProtocol`, `[]NoTunnelLeft` and `[]TypeOK` of
  `AtcSession`, for every `MaxPairs`, `Budget` and `MaxInbox`, and a device that sends
  any message at any time. The host knows of the device only what it reads, in the
  order it was sent. So `UnderWay` speaks of the messages that the host may still
  come to act upon: a `ReadyForSync` behind a `SyncAllowed` (`MayBeReady`), a manifest
  behind both (`MayDecide`); each was announced when it was sent (`SaySees`), and
  reading or sending brings no other into sight (`WaitSees`, `SendSees`). A manifest
  sent before `ReadyForSync` is also read before it, where the decision table ignores
  it. `DevByPhase` says how far the host's messages may have taken the device.
- **`TransportAlwaysRetried`** (`AtcSessionProofs`): `Spec => []TransportIsRetried`: a
  request that failed before its first move, although only the transport went wrong in
  its last attempt, was tried three times. The engine classifies a failure by the
  message it read, so `RetryInv` says where such messages come from: a session that is
  over leaves none behind (`QuietBetween`), a refusal or an end under way is blamed on the
  device (`DeviceBlamed`), and a cancellation that precedes `ReadyForSync` is read before
  it and hence ignored: what the wait for the manifest may meet (`MayDecide`) was
  sent after, and is blamed (`StaleIsRead`).
- **`OursAlwaysRecorded`**, **`LibraryGivenBack`**, **`DaemonBytesSaved`** and
  **`TypeCorrect`** (`BooksInPlaceProofs`): `[]OursIsRecorded`, `LibraryRestored`,
  `DaemonBytesKept` and `[]TypeOK` of `BooksInPlace`, for every set of tracked files,
  contents and faults. A recovery has only the journal and the marker to go by, so
  `BooksInv` relates these to the files. `DiskOK`: until the write is announced, and
  again when it is recorded as restored, every file is as it was copied or as the
  daemon wrote it since; and without the flag `booksInPlace` no marker is there.
  `RestoreOK`: while files are put back the flags and the marker cover them, and those
  that were handled are clean. `SavedOK`: what is about to be replaced is saved, or
  the daemon wrote it after the engine looked. That the copies hold no byte of the
  engine (`TypeOK`) needs `OursIsRecorded`: copies are taken only without a journal.
- **`SuccessIsReal`** (`DirectTransferProofs`): `Spec => []SuccessIsApplied`.
  `SuccessInv` follows the one move of a call. `Staged`: until it is executed the
  payload is in the slot. `Landed`: where the engine may conclude from the slot,
  the target has what the call wants. `Alone`: there no move of an earlier token
  is under way, because the link's session waited for all of them; without it a
  late deletion would undo a confirmed write.
- **`ListGivenBack`**, **`DaemonListSafe`**, **`FailedWriteEnds`** and **`TypeCorrect`**
  (`DirectTransferProofs`): `[]ListRestored`, `DaemonListKept`, `FailedWriteIsOver` and
  `[]TypeOK` of `DirectTransfer`, so that all its safety properties are proved.
  `CleanupInv` says what the list is between the steps of the cleanup, unless the daemon
  wrote it (`ListDuring`), and that a placement that outlives the removal of the link
  finds none (`LinkGone`). The link itself may still be placed after its removal, by a
  move that was late; then no placement was sent, so this is harmless.

- **`ReplyCorrelation`** (`RemoteServerProofs`): `Spec => []ReplyReachesItsCall`,
  for every set of tasks, whatever operations they may start, and every bound. The
  property is not inductive, because it says nothing of the device or of the
  senders. `CorrInv` adds `IdsTaken` (no identifier beyond the counter is in
  use), `IdsDiffer` (no two calls under way and no two requests at the device share
  an identifier) and `SenderThere`: a request the device has heard of has its sender
  in `pending` until the reply was given to it, unless the reader takes no
  more messages; and a request that is not written is not known to the device. So
  a reply that is taken off the wire finds its sender, or belongs to a call that
  has ended. Most steps touch no call: lemmas `Frame`, `OneTask` (a task moves)
  and `Quiet` (the reader moves) settle them, and the steps of a call, the
  dispatch of a reply and the end of the reader have a lemma each.
  **`TypeCorrect`** of the same module, `Spec => []TypeOK`, follows from the same
  invariant. Assumed is only that bounds are numbers and operations are well formed
  (`BoundsAssumption`, `OpsAssumption`).
- **`AckedChannelsServed`** (`RemoteServerProofs`): `Spec => []AckedIsServed`.
  The reader prepares a channel in steps, each under a lock of its own, while the
  tasks use the same maps. `ServedInv` adds how far the channel under way is prepared
  at each place of the reader, and that a channel that is being taken out is no longer
  acknowledged. Steps that take nothing from a channel of the remote side are
  settled by lemma `ServedFrame`; the others are the places of the reader and the
  registration of a handler.

- **`RefusalsTakeNothing`**, **`FailuresGiveNothing`** and **`BorrowedAlwaysSurvives`**
  (`NativeLibraryProofs`): `[]RefusalTakesNothing`, `[]FailureGivesNothing` and
  `[]BorrowedSurvives`, for any
  clients with any scripts and for all bounds, *if* the text of each script keeps its
  order (`MethodsInOrder`, the hypothesis of these and of the next theorem). The
  scripts of this library do:
  `CallsInOrder` says it of a call that begins, and `native_calls` begins every one of
  them. `InOrder` is a test of the text, which looks at no handle, connection or error;
  what is proved is that it suffices for every run, where a script branches, repeats,
  calls others, is cut by a deadline, or leaves a block for the handler of an error
  (`Branch`, `FailsHere`, `DeadlinePasses`). Running a script brings no step that is not in its text
  (`StaysInside`), and a script in two phases, first steps of one kind and then steps
  of another, remains so at every step (`StaysPhased`): once a step of the second kind
  has run, none of the first is left (`SecondPhase`). So a call that has taken a handle
  has no test left to fail (`TestsGoFirst`), one that has given an object has no step left that
  can fail (`GivesComeLast`, with `LastChooses` for a call that ends in a choice of two
  such texts), and one that has given an object takes none (`TakenOnce`). Each of these
  inductive invariants says in which phase the rest of the call is; a call that begins
  is in the first by its text (`BeginsPhased`). Sequences are split and joined without
  induction, by positions.
- **`AnswersAlwaysRead`** (`NativeLibraryProofs`): `[]AnswersAreRead`, under the same
  hypothesis. A call meets old messages that others left, streams that are dropped or
  cut inside a message, null pointers and any number of parts; its text is tested alone, on
  an unused stream, with every branch open and a reply in parts as one thing (`Alone`).
  `KnowsItsAnswers` says that the rest of a call under way is one its text reaches
  alone and that the stream is what is known of it there (`Fits`): its last messages are the whole
  answers still to be read, or one answer in parts, and all before them are old. It
  holds until the call reads what is not its own (`crossed`), which the property does not
  judge. Each action has a lemma that finds its step in the text (`Leads`); those about
  the stream are `ReadsNext`, `AskedFits`, `AskedManyFits`, `CutInside` and `AgedFits`.

Only model-checked: all liveness properties (`CallsReturn`, `CallReturns`,
`NextCallSucceeds`, `StagedIsRecovered`, `CommittedDeleteCloses`,
`RequestEnds`, `BooksRecovers`, `WaitsEnd`), which are beyond the prover; and
`CallsInOrder`, a computation with the text of each script, which is the
hypothesis of the theorems about them (lemma `CallsBeginInOrder` says no more than that the two
agree).

## 5. Not modelled

- The grouped placement (`batchPlacement`), the directory enumeration and the
  diagnostics of known-file transactions.
- The composition of file recovery and Books restoration in `finishRecovery`;
  the two modules see each other only as *another step may fail*.
- Path validation, property lists, digests and the archive encoder: data, with no
  state of their own.
- Of the native library: all encodings (property lists, XPC, DTX archives, OPACK,
  HTTP/2 frames, RTP, image formats), the cryptography of pairing and TLS, the
  user-space TCP stack, and the contents of requests and answers. The polled reader and writer of an AFC
  file, the listeners of usbmuxd and pairing, and what a backup writes to local files
  are left out as well: they are state machines over bytes. A script has no data,
  so a branch on data is a choice, and what a client remembers between calls (the
  session of WebDriverAgent) is not followed. Panics are left out, such as the
  `unwrap()` of a connection that an earlier failure has dropped (a script goes on and
  finds it dropped at its next message), and so are allocations that fail.
- `RemoteServer` and the scripts of `DvtCalls` are not composed: a script has a
  connection of its own, which is what a channel is to its caller as long as
  `ReplyReachesItsCall` and `AckedIsServed` hold.
- The wakeup a task loses by parking after the last notification has no property:
  `WaitsEnd` is about tasks that wait when the end is announced.
- The modules of the application besides the file engine (screens, pairing, license,
  version gate, VPN, Home, legacy libraries).
- What AFC, AirTraffic and the daemon do inside; they are modelled by what the
  code sees of them. That a destination is overwritten and that one session is
  served at a time are assumptions about them.
- Everything marked `not_modelled` in `PROJECT.json`, with the reason.

## 6. Plan

1. Known-file transactions, with proofs. *Done.*
2. AirTraffic session and its abstract specification, with the refinement
   and the order of the protocol proved. *Done.*
3. Books isolation, with all its safety properties proved. *Done.*
4. `DirectTransfer`: the direct routes of the panel, with `SuccessIsReal`
   and its other safety properties proved. *Done.*
5. `RemoteServer`, with `ReplyCorrelation` and `AckedChannelsServed` proved. *Done.*
6. The calls of the native library as scripts. *Done*; `xf_stream.rs` is among
   them (`TransportCalls`).
7. `FinishRecovery`: the composition of known-file recovery, Books restoration
   and the closing of the journal.
8. `BatchActivation`: Home, deactivation plan, file engine, two files; partial
   failure and retries.
9. `Backend` and `DocumentImport`: one worker, deadlines, late results;
   `Pairing`.
10. `License`, `VersionGate`, `LocalVPN`: late answers and restarts.
11. `LegacyBooks`: recovery of libraries older versions moved aside.

Worth proving next: with `FinishRecovery` the composition of `OriginalKept` and
`LibraryGivenBack`, and that a channel of `RemoteServer` is to its caller the
connection of a script.
