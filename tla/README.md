# A formal model of the spooler

The spooler is a service that stands between a point-of-sale application and a
fiscal printer (ECF).  The application drops command files in a work directory;
the service takes them one at a time, carries each out on the printer through
the manufacturer's library, and answers with a response file and a lock file
that says the response may be read (`src/README`).  This directory holds TLA+
modules of the service, the TLC configurations that check them, and proofs
checked by TLAPS.

## 1. Inventory

| Component | Source | State | Operations | What makes it correct |
|---|---|---|---|---|
| Run flag | `loopctrl.cc` | `keep_running` in a System V shared block; one mapping left per access | `init`, `to_true`, `to_false`, `running` | a SIGTERM ends the service, and nothing else does |
| Command file queue | `filequeue.cc` | `m_scan_type`, `m_fd`/`m_wd`, the queue of names; the kernel's event queue | `scan_files`, `directory_scan`, `kernel_scan`, `start_monitoring` | every name it is told of comes out, in order |
| Collector | `collector.cc`, `txtcollector.cc` | current packet, command file, failure and mute flags, session | `run`, `accept`, `callback` | each request is carried out at most once and answered |
| Response files | `main.cc` (`serializer`), `fs.cc` | temporary, response and lock files | write, copy, unlink, lock | the lock announces the complete answer to the right request |
| Signals | `main.cc` | asynchronous access to the flag | `signal_handler`, `signal_register` | interruption at any point is safe |
| Packet reader | `txtreader.cc`, tag tables | phase, current parameter and text | `read_packet` | nothing of a packet is lost or added, and it has the type and session its file names |
| Sessions | `session.cc`, `txtcollector.cc` | session id | `generate`, `match`, `reset`, dispatch in `callback` | one session at a time, ended by its owner or a reset |
| Packets, writer | `packet.cc`, `pktparam.cc`, `txtwriter.cc` | parameters with values and iterators | copy, iterate, write | what was added is what is written |
| Broker | `ecfbroker.cc` | none of its own | one handler for each command | OK means that all of the command was done, an error that the client may send it again |
| Bematech driver | `ecfbematech.cc` | caches of the printer's tables, date of the last reduction, last status word and its text, payment flag | receipts, vouchers, reports, tables, status | an index is the slot of its name, what is kept is the printer's, the text of an error is of the call that failed |
| CV0909 driver | `ecfbematechcv0909.cc` | sequence of payments and vouchers | payments, credit and debit vouchers | each voucher names the payment it belongs to |
| Printer library | external | the printer | library calls with return codes | (environment) |
| Factory, configuration, rates, log, `rc4_crypt` | | | start-up, values, text | stateless or start-up only |

How they interact.  `main` builds driver, broker, flag and collector, registers
the signal handlers and calls `run`.  `run` calls `accept` until the flag is
clear; `accept` asks the queue for a name, reads and removes the file, and calls
`callback`, which gives the packet to the broker (a plain call into the driver
and the library) or answers it itself, and hands the response to `serializer`.
One thread does all of it.  What runs concurrently is outside: the clients that
write, rename, read and remove files; the kernel that queues events; signals,
whose handler writes the flag; and whoever kills and restarts the service.

Hard behaviours: the switch from listing the directory to events; bounded reads
and a bounded kernel queue; files that change between two system calls on the
same name; signals between a test and a blocking call; kills between removal,
printing and answering; full disks; the resource each flag access uses up;
clients that time out and send again, or write in place.  `PROJECT.json` lists
each one at its line under `hazards`.

## 2. Modules

The service, from the directory to the broker:

| Module | Models | State and actions |
|---|---|---|
| `LoopCtrl` | `loopctrl.cc` | `flag`, `maps`; `ToTrue`, `ToFalse`, `Running`, and `AttachFails` for the access after the last mapping |
| `FileQueue` | `filequeue.cc`, the kernel's watch | `dir`, `kevents`, `watched`, `scanType`, `queue`; `DirectoryScan`, `StartMonitoring`, `ReadEvents`, `PopFront`, `UnlinkCommand`; `Notify` is the kernel |
| `Spooler` | `main.cc`, `collector.cc`, `txtcollector.cc`, `fs.cc`, clients | `pc` is the place in `run`/`accept`/`callback`/`serializer`; one action for each step between two accesses to something shared |
| `Gateway` | the promise of the service | requests that wait, the one in work, carried out, answered, lost |
| `MCSpooler` | | symmetry of the client names |
| `SpoolerProofs` | | type invariant and control invariant |
| `LedgerProofs` | | where each request is; at most once; `Spooler` implements `Gateway` |
| `PatientProofs` | | what clients that keep to the protocol may rely on |

Packets and sessions:

| Module | Models | State and actions |
|---|---|---|
| `Packets` | `packet.cc`, `pktparam.cc`, `txtwriter.cc`, `get_param_by_name` | no state: lines, packets, parameters as they are found and copied, the lines of a response |
| `TxtReader` | `txtreader.cc` and its tags | `lines`, `eof`, `prc_phase`, `dfl_phase`, `pkt`, `text`; one action for each phase, one step for each line |
| `Session` | `accept`, `callback`, `session.cc` | `m_session`, `m_failure`; one action for each branch of `callback` |
| `MCSession` | | the lines of files and the identifiers |
| `SessionProofs` | | what ends a session; types; the packet is the file |

The broker, the drivers and the printer:

| Module | Models | State and actions |
|---|---|---|
| `EcfPayments` | `ecfbematechcv0909.cc` with what it inherits of `ecfbematech.cc`, the printer | the driver's `m_fpgto`, `m_vinc_ccd`, `m_use_ccd`, `m_pgto_seq`, `m_dont_pay`; the printer's `table`, `stage`, `paid`, `issued`; one action per driver call, under the call's name |
| `Vouchers` | the promise of the voucher sequence | `paid`, `issued` |
| `EcfTables` | tables of both drivers and what is kept of them | `table`, `cache`; `GetIndex`, `Use`, `Set`, `SellExempt`, `ListRates`, `GetProx` for each kind of table |
| `EcfStatus` | `eval_status`, `set_status`, the table of texts | no state: the status word, whether it is clean, the text of its fault, the entry of an extended code |
| `FiscalPrinter` | the printer, external | `doc`, `paper`; what each call needs and does; the extended codes it refuses with |
| `EcfDriver` | every operation of both drivers | no state: the operation as the sequence of its steps, `Step(call, text)` |
| `EcfBroker` | `ecfbroker.cc`, `check`, start-up | the command, the steps it has left, the calls carried out, the answer; the driver's `ignoring`, `m_status`, `m_stsmsg`, `ult_red` |
| `MCEcfPayments`, `MCEcfTables`, `MCEcfBroker` | | the first table; names; requests |
| `EcfPaymentsProofs` | | cache, record, suppression, refinement of `Vouchers` |
| `EcfTablesProofs` | | indexes, copies, names that are not there |
| `EcfBrokerProofs` | | texts of errors; OK and error; the last reduction; reports; types |
| `SequenceLemmas` | | induction, `Max` and `Min`, `FlattenSeq`, for `SessionProofs` and `EcfBrokerProofs` |

`EcfBroker` composes `FiscalPrinter`, `EcfDriver`, `EcfStatus` and the
parameters of `Packets`; `Session` composes `TxtReader` and `Packets`; `Spooler`
composes `FileQueue` and `LoopCtrl`.  The three meet at one command: `Spooler`
knows of it only whether the printer carried it out, `Session` only its type,
`EcfBroker` only its name and parameters.  `EcfPayments` and `EcfTables` take up
what `EcfBroker` leaves a choice: whether a table is read, whether an entry is
found, whether a payment is suppressed.  One command at a time reaches each of
them, so nothing interleaves across these seams.

### The service

Correspondence of `Spooler` to the code, along one command:

| `pc` | Code about to run | Actions |
|---|---|---|
| `down` | not running | `Start` |
| `boot` | `main` after `signal_register`, before `run` | `EnterRun` (sets the flag) |
| `enter` | condition of the loop of `accept` | `KeepRunning` |
| `scan` | loop of `scan_files` | `ScanDirectory`, `EnterSelect`, `TakeName` |
| `select` | blocked in `select` | `SelectReady`, `SelectTimeout`, `Sigterm` |
| `check` | second test of the flag in `accept` | `CheckRunning` |
| `read`, `unlink` | `read_packet`, `sys_unlink` of the command file | `ReadPacket`, `Unlink` |
| `callback` | the broker | `Callback`, `CallbackThrows` |
| `tmp`, `copy`, `fill`, `lock` | `serializer` and `copy_file` | `WriteTemp`, `OpenResponse`, `FillResponse`, `CreateLock` |
| `stop`, `abort` | `COLLECTOR_STOP`, `COLLECTOR_ABORT` in `run` | `Stop`, `Abort` |

A request is a number, in the order of submission; a command or response file
holds one request and is whole or not.  What the printer does with a command is
here only whether it carried it out (`executed`).  `lost` and `answered` record
what became of each request and are read by no action.

Kept abstract, and why it does not matter here: only files whose names match
the prefix are in `dir`; events of other files share buffers with them, so a
read may return fewer names than fit.  A listing is one step: a file that
arrives during it and is not listed is the same as one that arrives just after.
Failing `opendir`, `inotify_init` and `shmget` end the process at start or leave
it as a kill does, and are not separate.  `serializer` throws for a path that
does not hold the prefix of commands (`main.cc:113-120`), which no file has that
was listed or signalled with that prefix; `WriteTemp` leaves it out.

### Packets and sessions

A line is what the reader tells apart, a tuple of its kind and its data; a name
stands for all its spellings, because names are compared without case.  `lines`
is the file as far as it was read, so that a property can compare what was read
with what became of it.  `read_packet` is one action for each phase, and an
exception leaves `reader = "failed"`: `callback` takes it for a failure only
before the end of the file (`txtcollector.cc:132`), so a packet that is cut off
is carried out as it is.  Two details matter and are kept: `text` is never
emptied, so that a second message holds the first one too; and `m_type` has no
value until it is read, so that `callback` may see any.

### Payments

`EcfPayments` starts where a command reaches the driver: each action is one call
of the driver with all its calls of the library, and `answer` is what the call
returned or threw.  Every library call ends in one of three ways: carried out
and `check` returns; refused, with nothing done (`Refusals`, and always when the
document does not allow it); carried out and `check` throws all the same
(`LateErrors`: the status that `check` reads cannot be had, or reports little
paper).  A method is a name; `Linked` are those programmed with the voucher
flag.  Indexes in the code count from 0, or from 1 for the printer; sequences
here from 1, so `NextIndex` speaks of the code's `idx` and the printer gets
`idx + 1`.  `reg_nao_fiscal` sets `m_dont_pay` first
(`ecfbematechcv0909.cc:611`) and then looks for the totaliser in the printer's
table, throwing by itself if there is none (`ecfbematech.cc:3800`): that error
is no refusal of the printer, and can happen whatever the printer refuses
(`Register`).  `outgoing` says that the printer took an outgoing totaliser,
`named` that one was asked for, taken or not.  `disturbed` is no state
of the code: it is set when a voucher that could be had is refused, when an
error is reported for a payment or total that was carried out, and at a
restart, and cleared with the next document.  The properties speak of documents
that are not disturbed, since the code provides for nothing else.

What is assumed of the printer, which is not in the repository: payments are
taken after the total, or on a receipt that was closed for items without a call
(`NO_OP`); it takes one voucher for each payment of the last document, for the
ordinal and the method it was paid with, while no other document is open; a
document that is open, or was the last one, can be cancelled.  What is assumed
of the client: it calls the operations of coupons for coupons and those of
receipts for receipts, pays only where the document can be paid, and asks for
the voucher that is due, unless a refusal may have confused it.  Reversal, second
copy and reprint of a voucher change nothing in the driver and are left out.

### Tables

One driver and one of its tables are followed; nothing is shared between two.
`Copy` is what the table's reader makes of the printer's slots, and `Compacts`
says which readers drop free slots.  A command that uses an entry ends in the
index it gives the printer or answers.  Empty names, rates of zero and the
positions of the ISS flags are left out, and so is the fake mode.  What the broker
makes of an index before it answers is `Told`: for a totaliser one more, found
or not (`ecfbroker.cc:834`), although the driver counts from 1 already
(`ecfbematech.cc:1321`); for a method that is missing, 0.  `SlotMeant` is the
slot that an index speaks of.  Worth
knowing: `get_prox_totalizador` counts from 0 (`ecfbematech.cc:1326`); the
second answer for a name may differ from the first where a compacting reader
dropped a slot; "Relatorio Geral", asked for first, is not found, and is then
programmed again.

### Broker, drivers and printer

A command is the sequence of steps its handler leads to.  Steps are calls of
the manufacturer's library, and the few things that are not: an exception that
`trade` answers or that escapes it, a test that the library left a file, an entry
that must be or not be in its table, a payment that may be suppressed, a table
that may have been read already, the emptying of the cached reduction, the
reading of the configuration.  `EcfBroker` takes the steps one by one
(`CallDone`, `CallRefused`, `CallFails` and one action for each kind of step),
so that a command may end between any two of them.  `check` is `EvalStatus` of
the word of each call: what a driver keeps of the word, `m_status` and
`m_stsmsg`, outlives the command.

The texts of extended codes are `bematech_st3_msgs`, one name for each code as the
comments of the table number them, and `St3Entry` is what the table has at the
place of a code.  They differ from 123 on, because no comma follows the text of
123 (`bemafi.h:453`): 123 has two texts in one, each code up to 217 the text of
the one after it, and 218 reads behind the table.  `Shifted` are the codes so
answered.

What is assumed of the printer: which documents each call is taken in; that a
call refused has one bit of the second byte or one extended code of `Codes`
(any codes of one byte); that a call carried out reports only paper in its
status word; that it has at least one reduction.  `SubTotalizaCupomMFD` leaves
the coupon in a state of its own, and a second one is refused: a CV0909 closing
that fails between its three calls cannot be sent again in the model, as the
code has no way to go on from there.

What the code does, as a reader of this model should know it, although hardly a
property is about it:

* `get_param_value_by_name` answers the first line only: `snd_txt_gerencial`,
  `snd_msg_vinc` and `snd_fecha_cupom` print one line of their message, and
  `snd_abre_gerencial` ends its message at an empty line after the first; an
  empty first line ends nothing, as the second is taken
  before the test (`ecfbroker.cc:2309-2324`).
* A parameter without a value takes the value of the parameter before it
  (`pktparam.cc:239`), or throws if there is none.
* `get_poucopapel` calls no printer: it answers a bit of the last word checked,
  which has no value before the first.
* A cancellation that is not allowed is answered with the text of another bit
  (`PROP_NAO_PRG`), although `bemafi.h:574` defines its own.
* An error while the driver starts is swallowed (`ecfbematech.cc:148-179`): the
  configuration is then not read, and low paper is let pass.
* `std::out_of_range` of a rate or date that is too short escapes `trade` and
  ends the service (`Escapes`; in `Spooler`, `CallbackThrows`).
* `snd_cancelarecibo` with any parameter missing cancels with all of them empty;
  `inicia_fechamento_nao_fiscal` always sends "X", "%", "0000", "0000"
  (`ecfbematech.cc:3937`).
* `set_moeda_singular`, `set_moeda_plural`, `snd_imprime_cheque` and
  `set_tipo_corte` are answered OK and do nothing; the listings of totalisers,
  reports and payment methods are answered empty.
* A reading to the serial port is answered from a file that nobody removes: what
  an earlier one left may be answered.

## 3. Runs

Twelve runs.  Eight find no error; four find a disagreement of the code with its
own documentation, each of one property.  What else the code does against its
documentation is said below with each component, together with the change of a
configuration that makes TLC show it.

### Service

`tlc -config X.cfg MCSpooler`.  `CHECK_DEADLOCK` is off in all of them: a
service that waits in `select`, and clients that used up their bound of
requests, have no next step, as intended.

| Run | Instance | Shows |
|---|---|---|
| `spooler_patient` | 3 clients that rename and wait, 4 requests, reads of 2 events, one kill, one SIGTERM, a restart | `LckMeansAnswer`, `OnlySigtermEnds`, `LossIsKill`, `EventOrder`, `NothingHalfWritten` |
| `spooler_hostile` | one client that renames and one that writes in place, both may give up and send again; full disk, 5 mappings, a throwing broker, a kernel queue of one event, one kill, one SIGTERM, a restart | `TypeOK`, `AtMostOnce`, `Accounted`, and refinement of `Gateway` |
| `spooler_live` | fair process, a kill and a SIGTERM and a restart | `SignalledIsAnswered`, `BacklogIsAnswered`, `BusySigtermStops`, `WatchedIsAnswered` |
| `missed_wakeup` | one client, one request | a command renamed between the last listing and the watch is not noticed (`src/README:23` says it is) |
| `lost_sigterm` | no command needed | a SIGTERM outside `select` does not end an idle service (`src/ChangeLog:67`) |

Bounds.  Three names are the fewest with which a name can be in the listing,
one in the queue and one in the kernel at once, and a read of two leaves one
unread.  Four requests let one client send again while two others wait.  Two
starts are a restart.  `KernelMax` is 3 in the patient run and 2 in the live one,
as many as there are names, so that no event is dropped; in the hostile run it
is 1, and some are.  The proofs of section 5 do not depend on any of them.

Patient and hostile are separate because the properties of the first hold only
for clients that keep to the protocol of `src/README`, with a disk that does not
fill up and mappings enough.  Each condition can be seen to matter by changing
`SpoolerPatient.cfg`:

* `MaxMaps = 5`: `OnlySigtermEnds` fails with no signal sent, because each test
  of the flag leaves a mapping behind (`loopctrl.cc:201`; `src/ChangeLog:67` says
  that only a SIGTERM ends the loop).
* `BrokerMayThrow = TRUE`: `LossIsKill` and `OnlySigtermEnds` fail, because
  `trade` lets exceptions of the library of C++ escape (`ecfbroker.cc:404`;
  `ecfbroker.cc:407` says that none leaves it).
* `DiskMayFill = TRUE`: `LckMeansAnswer` fails, because no write reports a full
  disk (`main.cc:123`; `src/README:33` says that the lock is made when the answer
  was written), and so does `LossIsKill`, because a command carried out may be left
  without its answer.
* a client in `Direct`: `OnlySigtermEnds` fails, because the close event queues
  the name of a file that was taken while half written, and its removal throws
  (`txtcollector.cc:136`).

With `KernelMax = 1` in `SpoolerLive.cfg` `WatchedIsAnswered` fails: a second event
is dropped before the first is read, the record of the overflow is skipped
(`filequeue.cc:222`), and the command waits until a restart, although
`src/README:23` has it signalled as soon as it is written.

While the answer is written the response has its final name before its content
(`pc = "fill"`, `main.cc:129`): a client that looks for the response and not for
the lock may read half of it, although `src/man/spooler.cfg.pod:106` speaks of
temporary names.  `LckMeansAnswer` is what is left: behind the lock it is whole.

### Packets and sessions

| Run | Instance | Shows |
|---|---|---|
| `packets` | `tlc -config Packets.cfg MCSession`: files of up to 9 lines, one after the other, over 18 lines: every tag, two sessions and none, parameters with and without the end of a message, text, the line that cuts paper, an empty one | `TypeOK`, `ReadsBack`, `SessionEndsOnRequest` |

Bounds.  Nine lines hold a request of every type, a command with two parameters
or a message of two lines and its end tag, and leave room for lines that do not
belong there.  `ReadsBack` says that the packet, written out, is the file; it
leaves out files with two messages, the second of which has the lines of the
first (`text` is never emptied), and those that give `mensagem` on a line of its
own, as any other parameter.  `SessionEndsOnRequest` lets pass the file that
ends before its type, since memory may hold any.  A packet cut off at the end of
the file is carried out (`txtcollector.cc:132`), although `src/README:8` has
requests end with their tag: the properties hold for such files too.

### Payments and vouchers

`tlc -config X.cfg MCEcfPayments`: a table of a method without and one with
the voucher flag, and a second linked method that is programmed while the run
goes on.  `CHECK_DEADLOCK` is off: the bound of documents and payments is an
end.

| Run | Instance | Shows |
|---|---|---|
| `ecf_hostile` | 2 documents, 3 payments each, any call refused, or carried out and reported as an error, receipts cancelled while open, a restart anywhere | `TypeOK`, `CacheHonest`, `UseMatchesPaid`, `UnavailableMeansIssued`, `VouchersInTurn` (refinement of `Vouchers`) |
| `ecf_vouchers` | 3 documents, 4 payments each, nothing refused that can be done, receipts cancelled only when closed, a restart anywhere | `SuppressedOnlyWhereNamed`, `OutgoingUnpaid`, and `OneCardSurvivesRestart`, the case the comment at `ecfbematechcv0909.cc:754` hopes for |
| `payment_lost` | 2 documents, a receipt cancelled while open | the next document's payment is suppressed and answered as done (`ecfbematech.cc:4295`) |

Bounds.  Two linked methods among three or four payments give every pattern of
linked and plain payments with one between two others.  Two documents let what
is left of one meet the next; `ecf_vouchers` has three, so that a document may
lie between an outgoing receipt and a coupon.  What disturbs a document is worth
a reader's attention, because nothing in the code provides for it: after a
refused voucher (no paper) the sequence has moved on, and the retry is told that
none is available (`ecfbematechcv0909.cc:690`); a payment that the printer took
but `check` threw for is not recorded, and the vouchers of the payments after it
are asked for by the wrong ordinal (`ecfbematechcv0909.cc:649`).

`SuppressedOnlyWhereNamed` lets pass a receipt for which an outgoing totaliser was
only asked for.  That it was registered is `SuppressedOnlyOnOutgoing`, and not so:
added to `EcfVouchers.cfg`, it fails when an outgoing one is asked for that the
printer does not have.  The flag was set before (`ecfbematechcv0909.cc:611`), and
the payment of what else is on the receipt is suppressed and answered as done,
where the comment at `ecfbematech.cc:4295` has that of outgoing receipts only.

### Tables

| Run | Instance | Shows |
|---|---|---|
| `ecf_tables` | `tlc -config EcfTables.cfg MCEcfTables`: every table of 4 slots over 5 names, both drivers, each of the four tables, any call refused or reported wrongly, a restart anywhere | `TypeOK`, `IndexIsTheSlot`, `CopyHonest`, `MissingIsMissing`, `NameOnce`, `NothingOverwritten` |

Bounds.  Four slots hold the two built-in totalisers and two others, and a gap
between two entries; five names are the three built-in ones and two free ones,
which is a name present and one missing.

The properties name where they give way: a compacting reader that dropped a
slot (`NoGap`), the fixed report, and rates after an error for a rate that the
printer has programmed, which are never read again (`ecfbematech.cc:1438`).

`IndexIsTheSlot` is of the slot that an index speaks of.  That the index answered
for a totaliser is the totaliser's, as the comment at `ecfbroker.cc:814` has it, is
`ToldTheTotaliser`; added to `EcfTables.cfg`, it fails at the first answer: the
broker adds one to an index that counts from 1 (`ecfbroker.cc:834`).

### Broker

`tlc -config X.cfg MCEcfBroker`.

| Run | Instance | Shows |
|---|---|---|
| `ecf_broker` | any sequence of commands, both drivers, a printer that refuses, loses answers and runs out of paper, a restart anywhere | `TypeOK`, `OkMeansDone`, `ErrorMeansUndone`, `ErrorIsTheCalls`, `LastReductionIsTheLast`, `ReportStaysOpenOnFaults`, `PrintsTheMessage` |
| `report_left_open` | `snd_abre_gerencial` with and without a text, a printer that works | without a text the report stays open (`ecfbroker.cc:2284`) |

Bounds.  A line of two units, a description of one and a date of one are the
smallest that can be too long, just right and too short.  Commands that are one
call which the printer takes at any time are alike, and `Alike` and `Twins` have
one stand for all; every other command is there with its parameters, those
that need them without one, and those whose parameters choose a way with each
way.  Messages have an empty line first, between others and not at all.  Two
extended codes are enough, 3 with its own text and 124 with that of another; the
proofs have any.  There is no bound on the number of commands.

`ErrorMeansUndone` is what a client must know before it sends a command again.
Its exceptions are little paper, which `check` reports as an error of a command
that was carried out, and a lost answer of the library.  `LastReductionIsTheLast`
gives way after a reduction whose answer was lost: its error is swallowed, the
command answered OK, and date and hour of the one before are kept
(`ecfbematech.cc:2175-2182`).  `ErrorIsTheCalls` says that the text is of the
failing call's own word, its bit or its code; it gives way for a code of
`Shifted`, which is given the entry at its place, for a cancellation that is not
allowed, and where low paper is let pass and the paper is at its end: then the
text of an earlier error is answered, or none.

Two properties that the code does not have can be added to `EcfBroker.cfg`.
`TextIsTheCodes` is `ErrorIsTheCalls` of extended codes without the first
exception: it fails for 124, which is answered with the text of 125, because the
comma after 123 is missing (`bemafi.h:453`).  `PrintsEveryLine` is
`PrintsTheMessage` of all lines: it fails for a message with an empty line after
its first, which is answered OK and printed up to there (`ecfbroker.cc:2324`).

## 4. Fairness

`FairSpec` is weak fairness of `ProcessStep`: the kernel runs a process that
can run.  Nothing is promised of clients, signals, kills or starts, and a
process blocked in `select` without a timeout and without events cannot run.
With one thread there is no finer fairness to choose.  `SignalledIsAnswered`,
`WatchedIsAnswered` (of what was renamed while the watch was in place) and
`BacklogIsAnswered` say *answered, unless the process ends*: an end is always
possible, and what was not taken is answered after the next start.

The other modules take one command to its answer without waiting for anybody;
that each of them ends is their shape, and no property is spent on it.

## 5. Proofs

### The service

For every finite set of names, every number of requests, every choice of
hostile clients, faults and bounds (the assumptions `QueueAssumption`,
`MapsAssumption`, `SpoolerAssumption`).

* `TypeCorrect`, `TypesAlways` (`SpoolerProofs`).  `TypeOK` is not inductive:
  `Callback` counts the request it holds, which needs that it holds one.
  `Control` adds what each `pc` implies for `taken` and `pkt`, and that a file
  without a request is no file.
* `LedgerCorrect`, `PrintedAtMostOnce`, `AlwaysAccounted` (`LedgerProofs`).
  `AtMostOnce` alone is not inductive.  `Ledger` adds that no two files hold the
  same request, that the request in work is in no file once its own is removed,
  and that the printer has not seen a request on disk, not yet removed or not
  yet sent.  Steps are sorted by what they do to requests (`StepCases`): most
  move none (`Still`), the end of the process releases or loses one
  (`LeaveLedger`), a client replaces one (`ReplaceLedger`), and four steps of
  the process move the one it works on.
* `SpoolerImplementsGateway` (`LedgerProofs`): the same cases, each one step of
  `Gateway` or none.
* `AnswerBehindLock` (`PatientProofs`), if the disk does not fill up.  `Patient`
  says of one client that its command waits, is worked on, or is answered, one at
  a time, and that the response being written is to its present request.  Other
  clients may do what they like: the proof goes step by step for one name, and
  every step but those on this name leaves it `Aside`.
* `NeverDies`, `InOrder`, `OnlyKillsLose`, `NothingCutShort` (`PatientProofs`), for
  `Orderly` clients and as long as a mapping is left (`MapsLeft`).  They share the
  inductive invariant `Order`: the names in line, in the queue and then in the
  kernel, are all different, and once events give the order their requests get
  younger from first to last (`InLine`); each of them has its file, and is
  younger than all that was carried out (`There`).  That a name is in line once
  only is what keeps the service alive: a second one would find its file gone.
  It rests on `AnswerBehindLock`'s invariant: a client that waits for its lock
  cannot be in line when it sends the next command.

### Packets and sessions

For every set of lines and identifiers, and every length of files.
`ReaderAssumption` says of a line what its kind needs: a name and a value for a
parameter, a value for a request or a session (and that three texts are strings,
which one of the provers cannot tell); `SessionAssumption` that the identifiers are
those whose case is folded, none of them empty.

* `SessionKept` (`SessionProofs`).  `ReaderInv` has, for the packet at any line,
  that its type is asked for in the file or the file asks for none, and that its
  session is named in the file.  The lines are sorted by what they do to the
  packet (`LineEffect`).
* `SessionTypes`: `read_packet`'s phases, packet and text, and the session.
* `ReadBackAlways`.  One line more makes one more line of `Written`, but not at its
  end: a parameter, a line of the message, its end and the end tag each have their
  place (`Joined`), and the place is the last one only because what comes after is
  still empty.  Which parts are empty in which phase is `PacketOfPhase`; that the
  text is empty before the first message is `NoMessageYet`, and since it is never
  emptied afterwards, files with two messages are left out.

### The drivers

For every set of methods, table and bound (`PaymentsAssumption`):

* `TypesAndCache`.  `TypeOK` and `CacheHonest` need each other: the flag a
  payment records is looked up at an index of the cached names, which is in the
  range of the flags only because there are never fewer flags than names.
* `RecordIsTheDocuments`.  `Recorded` adds to `UseMatchesPaid` that the record is
  already cleared when the first payment is possible, although the printer may
  have refused calls before.  The actions on documents are sorted into four cases
  (`DocumentCases`): a document is opened, cancelled, begins to take payments, or
  moves on.
* `UnavailableAfterTheLast`.  `Turn` adds `Sequenced`: the vouchers issued are
  those of the linked payments up to `m_pgto_seq`, or all of them; and that every
  payment's method is in the table, so that the look-up for its voucher succeeds.
* `DriverImplementsVouchers`: each step of the driver clears, pays, issues the
  voucher that is due, or changes neither `paid` nor `issued`.
* `SuppressionIsTheReceipts`, where receipts are closed before they are cancelled,
  whatever is refused: the flag of the driver is set only while a receipt is open
  for which an outgoing totaliser was asked.  That it was registered is not so
  (`SuppressedOnlyOnOutgoing`).
* `OutgoingIsUnpaid`, where nothing is refused that can be done, whatever is
  cancelled: on a receipt with an outgoing totaliser the flag stays set until it
  is closed, unless it is disturbed, so that no payment reaches the printer.
* `OneCardGuess`, where nothing is refused or misreported: the record is the
  document's, or empty since the restart.

For every set of names and number of slots (`TablesAssumption`):

* `Indexing`.  `CopyHonest` is what makes an index right: programming an entry
  drops the copy, or leaves one that says nothing of the slot.  It is the index
  given to the printer, and the one answered less what `Told` adds to it.
* `Programming`: the first free slot of the copy is a free slot of the table.
* `NamesOnce`.  An entry is programmed if it is not found, so that it is there
  once if what is called missing is missing; for rates, which are not read
  again, this needs that the copy is the table (`RatesFresh`) until an error is
  reported for what was done (`MissedIsLate`).

For every set of commands, every set of extended codes and table of their texts,
and for refused, lost and low paper (`BrokerAssumption`, `DriverAssumption`,
`PrinterAssumption`, `St3Assumption`):

* `ErrorsNamed` (`EcfBrokerProofs`).  An extended code is answered with its own
  text below 123, and with that or the entry at its place from there
  (`CodesOfTheTable`).  The word that is kept belongs to the answer
  until the next command works (`Explained`), and low paper that is let pass is
  always the first bit of its byte, so that an old text is answered at the end of
  the paper only.
* `AllIsDone`, `ErrorsUndone`.  Neither is inductive: they compare what was done
  with the plan when there is an answer, and `DoneInv` says how the two are related
  before there is one.  While a command works, the calls of its own that were
  carried out, followed by those still to come, are those of its plan (`Followed`),
  and none was carried out while a table may still be read, so that a command of
  one call that fails has done nothing.  That is so for every plan because all are
  of one form (`Planned`): what reads or tests comes first, then what is sent.
  `CommandsServe` and `OperationsPlanned` show it of each command and operation
  of the tables, by groups, and `ProgramPlanned` of every request.  A payment that
  may be suppressed (`Doubtful`, `LetPass`) and the reduction are cases of their own.
* `LastIsKnown`.  `LastInv`: of all plans, only that of the reduction makes one
  (`PlanClears`), and after it, if it went well, what is kept is emptied before
  anything else is asked; the two commands that answer it ask the printer, or have
  kept it.
* `ReportsClosed`.  `ReportInv` follows the one command that opens, prints and
  closes: what is left of its plan leads to the opening of the report, or to its
  end, or to an exception, and the report is not open before its call.  An exception
  after the opening would break the property.  It is met only where the message is
  missing, and there `ReportStaysOpenOnFaults` excepts it; `report_left_open` is
  that case.
* `ReportsPrinted`.  What a report answered OK has sent is its plan (`DoneInv`), and
  the plan is that of its request (`ReportInv`); what is left is to show that the
  texts of the plan's calls, put together, are the message up to where the loop
  ends it (the first line, and those after it up to an empty one), for every
  length, every width of line and tags anywhere: `PiecesPrinted` for a text without tags, then
  `PartPrinted` from one tag to the next, and `TaggedPrinted`.
* `TypesKept`.  A table read on the way puts its calls in front of what is left, so
  that the steps left may be more than those of the plan.  `Remains` says why by no
  more than one: a reading is two calls at most (`Fits`), which read no further, and
  it took one step of the plan itself.

`BrokerAssumption` and `DriverAssumption` say only that requests are names with
lists of values, and that a line has room for something; `PrinterAssumption` that
codes are of one byte and not zero; `St3Assumption` that the table has a text for
each code up to 218, none of them what an answer without a status holds.

Induction.  What `FlattenSeq` makes of a sequence is shown by induction over its
length; `SequenceLemmas` states induction for a set of numbers or of sequences
(`SetInduction`, `SeqInduction`), which the provers can instantiate, and the proofs
give the set of those for which the claim holds.  `MappedFlatten` and
`PiecesFlatten` are what the rest needs of it: mapping each element to a sequence
and flattening distributes over concatenation, and flattening the consecutive
pieces of a sequence gives it back.

### Only model-checked

* Liveness under `FairSpec`: `SignalledIsAnswered`, `BacklogIsAnswered`,
  `BusySigtermStops`, `WatchedIsAnswered`.  TLAPS proves neither fairness nor `ENABLED`.

Every other property of a passing run is a theorem.

## 6. Plan

Done, in this order: `LoopCtrl`, `FileQueue`, `Spooler`, `Gateway` and their
proofs; `EcfPayments`, `Vouchers` and theirs; `Packets`, `TxtReader`, `Session`;
`EcfTables`; `EcfStatus`, `FiscalPrinter`, `EcfDriver`, `EcfBroker`; the proofs of
the tables, of patient clients and of sessions; `SequenceLemmas`; the proofs of
the packets read back and of the broker.

What would add most from here:

1. `get_status_ecf`: the record of the last status and the words made of it.
2. A file that takes from a reading what an earlier one left (`RETORNO.TXT`).
3. A specification of what a client may rely on of one command, which `EcfBroker`
   implements: done, not done, or not known.

## 7. Not modelled

Configuration, factory and log (start-up or output only); formatting of numbers,
dates and rates, and of what is answered; the fake mode of the driver, which calls
nothing; the record that `get_status_ecf` answers from; the identifiers of
sessions, which differ if they are made in different seconds; the manufacturer's
library except what the calls need and do; `rc4_crypt` (a separate tool);
background mode (`fork` before the loop).
