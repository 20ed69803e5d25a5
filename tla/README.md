# xconf-agent: TLA+ models, checks and proofs

xconf-agent is a daemon that fetches the configurations of network devices over
SSH or Telnet, on cron schedules or on commands from a cloud service, encrypts
and masks each one, keeps copies on disk and uploads them; what it cannot upload
goes to an on-disk queue. This directory holds TLA+ models of its concurrent
parts, TLC configurations that check them on small instances, and theorems that
TLAPS proves for every instance. Paths below are relative to `src/`.

## 1. Inventory

| Component (code) | State | Operations | Hard behaviour | Correct when |
|---|---|---|---|---|
| Upload pipeline (`backup.go`, `storage/storage.go`) | per backup: a goroutine with its two byte strings; `data/queue/*`; cloud objects | `executeDeviceBackup`, `UploadBackup`, `saveToQueue`, `ReportFailure` | each of 4 to 6 requests and file writes may fail or be cut by a kill; up to 5 run at once | a backup reported completed is stored; one reported queued is in the queue or the cloud |
| Queue drain (`storage/storage.go` `ProcessQueue`) | the directory listing it goes through, the pair at hand | one pass every 5 minutes, on the daemon's main goroutine | no lock against the writers of the same directory; two removals per pair | pairs go out together, once, and eventually |
| Local copies (`saveLatestCache`, `saveHistoryBackup`, `pruneHistoryBackups`) | `data/latest`, `data/history/dev_<id>` | save, list, remove | several pruners of one directory, limits that change, a clock that goes back | the newest files stay, the limit is respected |
| Daemon (`daemon.go`) | `p.exit`, `p.sem`, `p.wg`, cron, PID file | `Start`, `Stop`, `run`, tickers, commands, `decommissionSelf` | service manager, cron, main loop and backups are separate goroutines; the service stops itself | slots and counter are right, Stop waits, Stop ends, a decommissioned agent keeps no credentials |
| Schedule table (`daemon.go` `handleCloudSchedules`) | `p.cfg`, `p.cronJobs`, entries of `p.cron` | register, reload, apply, prune | config.yaml and the cloud change at any time; a schedule may not parse | entries and jobs agree; each device has the schedule it should |
| Configuration (`config/config.go`) | config.yaml | `LoadConfig`, `SaveConfig`, identifiers | edited while the daemon runs | identifiers unique and stable; a bad file changes nothing |
| Single-instance lock (`config/lock_*.go`) | `data/agent.pid` | `AcquirePIDLock`, clean-up | read, probe and write are separate steps; PIDs are reused | at most one agent per configuration |
| Host keys (`driver/driver.go` `tofuHostKeyCallback`) | `data/known_hosts` | look up, append | `xconf-agent check` is another process | a device keeps its first key |
| Sessions (`driver/engine.go`, `driver/driver.go`) | bytes read so far, telnet state | `readUntilRegex`, login dialogue, `cleanSwitchOutput` | chunk boundaries, timeouts, prompts in any order | what is returned is the answer to the backup command |
| Device models, sanitizer (`driver/sanitizer.go`) | a cache of parsed models | `GetDeviceModel`, `SanitizeConfig` | filled lazily by concurrent backups | every caller gets the same model |
| Encryption, masking (`crypto/`) | the reader's buffers | `EncryptConfig`, `DecryptConfig`, `MaskingReader.Read` | lines cut by buffer limits | decrypt inverts encrypt; no byte lost or unmasked |
| Commands (`cmd_*.go`, `main.go`, `jwt.go`) | none of their own | install, uninstall, decrypt, check | short sequences | config and service agree |
| Logger, mock driver | log file | output only | - | - |

Interaction. `run()` starts a goroutine per backup, from cron or from a command;
each calls `executeDeviceBackup`, which fetches through a driver and hands the two
byte strings to the `StorageManager`. The main goroutine runs heartbeats (which
reload config.yaml and rewrite the schedule table), polls commands and runs
`ProcessQueue`, one at a time. Backups and the main goroutine share the file
system without a lock; `p.sem`, `p.wg` and `p.exit` tie the goroutines to `Stop`.

## 2. Modules

| Module | Models | Checked by |
|---|---|---|
| `UploadQueue` | `executeDeviceBackup`, the upload half of `UploadBackup`, `saveToQueue`, `ReportFailure`, `ProcessQueue`, the cloud's objects and reports, disk errors and kills | `MCUploadQueue` |
| `OfflineBuffer` | what `UploadBackup` and the queue promise for one backup, as an abstract specification | `MCUploadQueue` (`PromiseKept`) |
| `UploadQueue_proofs` | theorems about them | - |
| `HistoryCache` | `saveLatestCache`, `saveHistoryBackup`, `pruneHistoryBackups`, the wall clock | `MCHistoryCache` |
| `HistoryCache_proofs` | theorems about it | - |
| `StorageManager` | the composition of these two in the order of `UploadBackup` and `ProcessQueue` | `MCStorageManager` |
| `StorageManager_proofs` | theorems about it | - |
| `CloudSchedules` | registration in `run()`, `handleCloudSchedules`, `LoadConfig`, edits, the installer's `SaveConfig`, restarts | `MCCloudSchedules` |
| `CloudSchedules_proofs` | theorems about it | - |
| `Daemon` | `run()`, `Stop`, cron, the goroutines of the backups, `decommissionSelf` | `MCDaemon` |
| `Daemon_proofs` | theorems about it | - |
| `Session` | `readUntilRegex`, `executeSSHExpect`, `executeTelnetExpect`, `cleanSwitchOutput`, and the device | `MCSession` |
| `Session_proofs` | theorems about it | - |
| `TelnetFilter`, `MaskingReader`, `Packet` | `TelnetConn.Read`; `MaskingReader.Read`, `MaskLine`; `EncryptConfig`, `DecryptConfig` | through `Pipeline` |
| `Pipeline` | `executeDeviceBackup` as a path of bytes: the composition of these three | `MCPipeline` |
| `Pipeline_proofs` | theorems about it and its three parts | - |
| `PidLock`, `KnownHosts`, `ModelCache` | `AcquirePIDLock`; `tofuHostKeyCallback`; `GetDeviceModel`, `SanitizeConfig` | through `Host` |
| `Host` | the composition of these three: the processes of one host | `MCHost` |
| `Host_proofs` | theorems about it and its three parts | - |

### UploadQueue
A backup stands for both of its byte strings. Files, objects and the bytes
`ProcessQueue` read hold a backup, `Absent` or `Torn` (a partial file). `pc[b]` is
the goroutine's place in `UploadBackup`; `stamp[b]` the second `saveToQueue` put in
its file names, so that two backups may meet in one name. `os.WriteFile` is an
action that truncates and one that writes, since `ProcessQueue` and other saves see
the file in between. `drain` is `ProcessQueue`'s local state: its listing (`todo`),
the key at hand and what it read. `ReadRaw`, `ReadMasked`, `DrainRequestUrls`,
`DrainPut`, `DrainReport`, `RemoveRaw` and `RemoveMasked` are its statements in
order. Either removal may fail with its error dropped (`storage.go:431-432`); then
the file stays, `unremoved` notes it, and the pass goes on. `Crash` drops every
goroutine and keeps the files.

`OfflineBuffer` says for one backup what a caller may rely on: once it was told
"queued locally" the backup is held in the queue until it is stored, and it leaves
the queue only when it is (`Accept`, `Tell`, `Upload`, `Take`). `PromiseKept` is the
refinement: `UploadQueue!Promise(b)` maps the files, objects and places of the code
to `held`, `stored`, `told` and `excused`, and every step of the system must be a step
or a stutter of `OfflineBuffer` for every backup at once. It is stronger than
`LossesAreKnown`, which looks at single states: a backup that is taken out and put
back, or removed before its upload, breaks only the refinement. `excused` is what
the code leaves open: a shared file name, a disk error, a masked file that
`ProcessQueue` took while it was being written. An excused backup may be lost, but
`Excuse` still keeps what is stored stored.

### HistoryCache and StorageManager
`name[b]` is the second in the file name, `age[b]` the order in which files were
named. A history file is created (`OpenHistory`) and then written (`SaveHistory`); a
write that fails, or a kill in between, leaves a `Torn` file under its name, which
pruners list and count like any other (`storage.go:466-488`). Two saves of one second
may leave either copy or a torn one, and what is written to a file that a pruner
unlinked meanwhile is gone (`Outcomes`). A pruner lists, computes the names in excess of its limit and removes
them one at a time. What follows from the counting is stated by `NewestSurvives`:
with a limit of one, a torn file with a later name costs the last whole copy; the
property names just that case (`Unfinished`). `StorageManager` joins the modules: a backup saves its local copies
before it asks for URLs, prunes when it gets them and then uploads; `ProcessQueue`
prunes after it removed a pair; both modules read one clock and die together.

### CloudSchedules
`file`, `cloud`, `cfg`, `listed` are config.yaml, what the cloud holds, `p.cfg` and
the answer at hand. `entries` are cron's, `jobs` is `p.cronJobs`. The
synchronisation is several actions (`Heartbeat`, `Reload`, one `Apply` per listed
device, `Prune`), with edits of the file and of the cloud in between. Registering
fails for a schedule the parser refuses. `LoadConfig` rejects duplicate
identifiers, so a loaded file is a function of the device. `before` is a ghost: the
jobs there were when the heartbeat was answered. A device that the cloud lists and
config.yaml lacks is passed over (`daemon.go:246-249`) and not pruned either, so that
`SyncApplies` asks of it that its job be the one it had before, neither dropped nor
changed. A restart on a file that does not load ends `run()` at once
(`daemon.go:61-65`) while the process stays: phase `idle`, with no cron, no heartbeat
and no further look at the file.

`fileLink` and `cfgLink` say whether config.yaml, and what was loaded of it, lets
the agent reach the cloud. `SaveBegins` and `SaveEnds` are `xconf-agent install`
rewriting the file (`os.WriteFile` truncates first; a kill may leave it so). A
truncated file is valid YAML with no devices and no address: a daemon that reloads
it then has no cloud to hear from, and reads the file again only after an answered
heartbeat (`daemon.go:219`). `SchedulesSettle` says what each agent's table comes to
be when nobody edits any more: what cloud and file ask for; of an agent that cut
itself off, the table of the file and the answer it last had (`KeepsLast`); of one
that idles, an empty one, even if the file loads by then.

### Daemon
`loop` is where `run()` is, `stop` where `Stop` is; each backup goes through
none, (fired by cron), spawned (counted in `p.wg`), running (holding a slot of
`p.sem`), released, done. `Outside` says what may befall the process: a stop by an
administrator, a kill, a failing operation. `Stuck` are backups of devices that
accept the connection and may never go on.

### Session
The agent (`pc`: which `readUntilRegex` it is in) and a device (`mode`) exchange
lines and pieces of text through two FIFO channels. A piece stands for what the
code's patterns and filters tell apart: each kind of prompt, an echo, a line of the
configuration, a line that mentions a command, a line that ends in # or > and is no
prompt (`marked`: the separators of Huawei and H3C), and text that looks like a login,
password or shell prompt to a reader that has read up to there (`userLike`,
`passLike`, `like`). The device may send such text in its greeting, before the prompt that follows
a login, a refused password or a command, in a log message and in its answer to the
backup command.
`Read` takes any number of pieces at once (a chunk), and only a match at the end of
all that is accumulated ends the wait. `Setup` is every kind of login, greeting,
enable and protocol; `LogsMessage` says something unasked and prints the prompt
again. `lured` records the kinds of text that the agent answered as prompts before it
sent the backup command: whether it reads up to one and stops there is a matter of
where the stream is cut, so that the properties excuse the lure and not the text. A session
starts connected; a write that fails is seen as the `Disconnected` that follows it.

### Pipeline, TelnetFilter, MaskingReader, Packet
`Session` decides which text a session ends with; `Pipeline` follows what happens to
the bytes of that text. `TelnetFilter` is the state machine of `TelnetConn.Read`
(`state`, `buf`) against a device that sends text, doubled IACs, negotiations,
subnegotiations and commands; `Receive` takes any number of the bytes under way (a
segment cut anywhere) and `Hand` gives any number of the filtered ones to the
caller. The arms of `Filtered` are disjoint, as those of Go's `switch` are by order.
`MaskingReader` is `Read` over `line` (`mr.buf`) and `eof` (`mr.err`), called
with a buffer that may be shorter than the line. `Packet` is a file format: the
header's fields and the size, so that a file cut at any length can be opened.
`Masker!Shown` and `P!Decrypt` are the references: what a masked text shows is said
position by position, with no reader and no lines.

### Host, PidLock, KnownHosts, ModelCache
An agent is one execution of `xconf-agent run`. `PidLock` gives each start, read of
agent.pid, probe, truncation, write, clean-up and end its own action; the system
gives process numbers again, to agents and to other programs. `Return` is the end of
`run()` (the deferred clean-up, whose removal may fail with its error ignored:
`stranded`), after which the process may live on while `Stop` waits. `KnownHosts` has the callback's mutex per process and known_hosts as a
sequence of lines; `ModelCache` the two maps and the RWMutex of the sanitizer. `Host`
joins them in the order of `FetchDeviceConfig`: a backup begins while its agent
serves or, when it had to wait for its slot (`daemon.go:107-114`), after `run()` has
returned; it loads the vendor's model, goes through the host key callback and is
sanitized; `xconf-agent check` only does the handshake, in a process that takes no
lock. Processes end in the middle of anything. `unguarded` and `clashed` record that
the two races happened which the code leaves open (two acquisitions of the lock, or
two processes in the callback, at once; or a file that is there and cannot be read);
the properties hold where they are false.

What the model shows of agent.pid beside its properties: the probe finds the
agent's own number, or another program's, in a file left by a kill, and the agent
then does not start (`Refuse`). An agent started after `run()` of the old one
returned finds no file, and works beside the backups `Stop` still waits for
(section 3).

## 3. Runs

Runs that pass:

- `upload_queue`: two backups of one device, two seconds (so that their saves may
  or may not share file names), two faults, one kill. 169,541 states. Invariants:
  `HeldFilesStay`, `LossesAreKnown`, `CompletedMeansStored`, `RedeliveredTogether`,
  `OrphansAreKnown`, `SentOnce`; the refinement `PromiseKept`; liveness:
  `QueueDrains`. Two backups are what a collision of names, an overlap of two saves
  and an overlap with `ProcessQueue` take; two faults allow a failed upload and a
  failure of what follows it. A pair is sent a second time with no kill only if its
  upload failed and then both of its removals: `MCSpec` allows a third fault for that
  (`TwoFaults`).
- `history`: three backups, limits 0 (none), 1 and 2, two pruners, a clock of four
  seconds that may be set back once, writes that fail, kills. 551,990 states (up to
  symmetry). `NewestSurvives`, `PruneKeepsLimit`. A whole file, a torn one with a later
  name and a pruner with limit 1 are the least that takes the newest whole copy away;
  three files put one pruner with two victims beside another with one.
- `storage_manager`: two backups, limits 0 and 1, one fault and one kill, clock 0
  to 1, one set-back. 1,987,517 states (up to symmetry). `RawCopySurvives`. A kill counts as a fault here, so
  that a fault followed by a kill is covered by the theorem alone.
- `cloud_schedules`: two devices, two good schedules and one that does not parse,
  two edits (of the file, of its link, of the cloud, or an installation), two
  restarts. 1,361,475 states. `EntriesMatchJobs`, `SyncApplies`, `SchedulesSettle`. Two
  edits put a change of the file and one of the cloud into the middle of one
  synchronisation; two restarts let an agent idle on a file that does not load and
  come back when it does. `MCInit` starts device 2 with one schedule that both sides
  agree on; the edits reach the other combinations, and the theorems start from all.
- `daemon`: three backups (two by cron, one by command) for two slots, one of them
  of a device that may never answer; stop, kill and errors allowed. 65,862 states.
  `CountersMatch`, `StopWaitsForAll`, `NoBackupAfterReturn`, `BackupsEnd`,
  `StopEnds`. One slot more than stuck devices is the smallest case in which a
  backup must wait and still ends. The program has five slots.
- `session`: every `Setup`, two init commands, six answers to the backup command (two
  with text that looks like a prompt), one log message, one look-alike of any of the
  three kinds anywhere else. 1,205,331 states. `BackupIsAnswer`, `TypesAtPrompts`,
  `PasswordWhereAsked`, `SessionSucceeds`. Two init commands are the least for which
  an answer can be left over from one wait to a later one that is not the last. One
  look-alike is enough to break each of the four without its excuse.
- `pipeline`: every stream of three Telnet tokens (a token is up to seven bytes) in
  every cut, and every text of up to five cells by SSH, over a letter, a keyword, CR
  and LF; a copy buffer of two cells; two keys and one that is not valid. 69,679
  states. `TextIsPassedOn`, `MaskedIsShown`, `TextIsRecovered`. Three tokens put a
  negotiation between two pieces of text and one sequence right behind another; five
  cells hold a keyword line, its line end and a second line, and a line of three
  cells is longer than the buffer. Packets are cut at every length.
- `host`: two agents, two process numbers, one foreign process, two backups of the
  first agent, one of the second and one session of `check`, all of one device. 360,432
  states (up to symmetry). `ServesAlone`, `LockNamesServer`, `FirstKeyStays`,
  `FiltersOfModel`. Two numbers for two agents and a foreign process
  make every number be given again. Numbers, keys and the first agent's backups
  are interchangeable, which is the symmetry. `OneExcuse` does not follow states in
  which `unguarded` and `clashed` both hold: there only `FiltersOfModel` claims
  anything, and the cache reads neither of them. The theorems have no such limit.

Runs in which TLC finds that the code does not do what one of its comments or
messages says (the findings of PROJECT.json):

- `queued_locally`: two backups of one device whose uploads fail in the same second
  share the names of their queue files, and one is lost although its error says
  "(queued locally)".
- `head_of_line`: one device the cloud refuses keeps every queued backup behind it
  in the queue, because `ProcessQueue` takes any error for a network issue.
- `decommission`: `decommissionSelf` stops its own service first; the process may
  end before the credentials are cleared.
- `complete_backup`: a line of the configuration that contains one of the agent's
  commands, or that ends in # or >, is filtered out as an echo or a prompt.

Three more disagreements have no run of their own. `Stop` logs "All running backups
completed." (`daemon.go:50`) when `p.wg` is zero, but `run()` and cron may still
start a backup then: `Daemon` has these steps, and `StopWaitsForAll` therefore says
only that those `Stop` found are waited for. History files are named by local time
(`storage.go:441`) and pruned by name (`storage.go:478`), so that the newest file may
be pruned as the oldest when daylight saving time ends: `HistoryCache` has the clock
that goes back (`MaxSetBacks`), and `NewestSurvives` excuses the case. The lock is said
"to lock execution to a single instance" (`lock_unix.go:15`), but `run()` removes
agent.pid when it returns (`daemon.go:87`), while `Stop` waits up to 30 s for the backups
and goroutines that wait for a slot begin theirs: an agent that is started in that time
works beside them on `data/` and on the devices. `Host` has these steps (`Return`, then
`Start` of the other agent; `LoadModel` of either), `LockNamesServer` says what the file
is still good for, and nothing claims that the backups of two agents do not overlap.

`CHECK_DEADLOCK FALSE` stands in the runs in which the system may really stop: all
backups done, the text masked, the processes gone, the agent cut off from the cloud
with nothing left to edit.

Bounds are CONSTANTS: `MaxFaults`, `MaxCrashes`, `MaxClock`, `MaxSetBacks`,
`MaxEdits`, `MaxRestarts`, `MaxNoise`, `MaxLooks`, `MaxTokens`, `MaxText`, `MaxForeign`. They
stand only in the guards of the environment (faults, kills, the clock, edits,
restarts, noise, look-alikes, what a device sends, other programs), never in those of the
program. `BufSize` is the length of the copy buffer, 32 KiB in `io.Copy`.

## 4. Fairness

- `UploadQueue!FairSpec` (and `MCSpec`, with its budget): weak fairness of `ProcessQueue` alone. The queue ticker
  fires every five minutes, and each pass ends because the HTTP clients have
  timeouts (15 s and 120 s). The goroutines of the backups get none.
- `CloudSchedules`: weak fairness of the daemon's steps; a heartbeat is sent every
  minute. `Heartbeat` is one that is answered, so liveness assumes that some are.
- `Daemon!FairSpec`: weak fairness of `Stop` (it has a 30 s timer), of the end of
  `ProcessQueue`, of a decommissioning under way, and of each goroutine of a
  backup that is not in `Stuck`. No fairness of `Stuck` ones: `ssh.NewClientConn`
  (`driver/engine.go:204`) runs with no deadline. Nor of the select loop's choice:
  nothing claims that `run()` sees `p.exit` before the process ends.
- `Session!FairSpec`: weak fairness of the agent (a goroutine that runs; every wait
  has a timeout of 10 to 30 s) and of the device (`SessionSucceeds` speaks of devices
  that answer within the timeouts, `setup.prompt`).

## 5. Proofs

All proofs are checked by TLAPS for any values of the constants that satisfy the
modules' ASSUMEs (which TLC evaluates in every run).

| Module | Theorem | Establishes |
|---|---|---|
| `UploadQueue_proofs` | `TypeCorrect` | `TypeOK` |
| | `HeldFilesStayed` | `HeldFilesStay` |
| | `CompletedIsStored` | `CompletedMeansStored` |
| | `LossesKnown` | `LossesAreKnown` |
| | `RedeliveredWhole` | `RedeliveredTogether` |
| | `SentAtMostOnce`, `OrphansKnown` | `SentOnce`, `OrphansAreKnown` |
| | `BufferPromise` | `PromiseKept`: `UploadQueue` implements `OfflineBuffer` |
| `HistoryCache_proofs` | `TypeCorrect` | `TypeOK` |
| | `NewestAlwaysSurvives` | `NewestSurvives` |
| | `LimitAlwaysKept` | `PruneKeepsLimit` |
| | `SavedStays` | a saved history file stays, unless its name was given again or newer files outdid it (`SavedKept`) |
| `StorageManager_proofs` | `RawCopyKept` | `RawCopySurvives` |
| | `ImplementsQueue`, `ImplementsHistory` | it is an implementation of `UploadQueue` and of `HistoryCache` |
| `CloudSchedules_proofs` | `TypeCorrect`, `EntriesAlwaysMatch` | `TypeOK`, `EntriesMatchJobs` |
| | `SyncsApply` | `SyncApplies` |
| `Daemon_proofs` | `TypeCorrect`, `CountersAlwaysMatch` | `TypeOK`, `CountersMatch` |
| | `StopWaited` | `StopWaitsForAll` |
| | `NothingAfterReturn` | `NoBackupAfterReturn` |
| `Session_proofs` | `TypeCorrect` | `TypeOK` |
| | `PasswordIsAsked` | `PasswordWhereAsked` |
| | `NothingTypedEarly` | `TypesAtPrompts` |
| | `AnswerIsSaved` | `BackupIsAnswer` |
| `Pipeline_proofs` | `TelnetIsTransparent` | `TextIsPassedOn` |
| | `TextComesBack` | `TextIsRecovered` |
| | `MaskingIsExact` | `MaskedIsShown` |
| `Host_proofs` | `TypeCorrect` | `TypeOK` |
| | `AgentsServeAlone`, `LockAlwaysNamesServer` | `ServesAlone`, `LockNamesServer` |
| | `FirstKeyAlwaysStays` | `FirstKeyStays` |
| | `FiltersAlwaysOfModel` | `FiltersOfModel` |

`UploadQueue`, types. `TypeOK` is not inductive: `ProcessQueue` uploads what it read,
and a file that was gone would put `Absent` among the cloud's objects. `TypeInv`
therefore adds `HeldFilesStay` (what `ProcessQueue` has listed or holds is there) and
`SavingStamped` (a goroutine that writes a queue file has named it). A worker's step
keeps `HeldFilesStay` because it takes no file away (`WorkersTakeNothing`);
`PickFile` needs that the first of a set of names is one of them (`FirstIn`, which
rests on the least element of a set of naturals).

`CompletedMeansStored`. `StoredInv` adds that a goroutine before `saveToQueue` has no
stamp, that one about to report without a stamp has both objects stored, that what
was told as completed stays so, and that bytes in a queue file are those of a
stamped backup.

`LossesAreKnown` and `RedeliveredTogether`. The argument goes by queue key. A save
that shares its key with no other and met no disk error (`Good`) is the only one
whose bytes are ever found under that key. `KeyInv` says, by where its goroutine and
`ProcessQueue` are, which of its two files are there (`FilesOf`), what `ProcessQueue`
read (`DrainOf`) and sent (`SentOf`) under the key, and that either the files are in
place or it is known what became of them (`KeptOf`). `Owned` (every file has the
name of some save) makes a new save find nothing under its key; `Recorded` (what is
about to be removed was stored and reported) turns a removal into "stored" or
"overtaken". There is one lemma for a goroutine's own steps (`SavingIsGood`), one for
the steps of others (`Elsewhere`, `Apart`) and one for `ProcessQueue`
(`DrainKeepsKeys`).

`PromiseKept`. The initial states are immediate; a step is shown to be one of
`OfflineBuffer` for each backup from five facts about it (`PromiseStep`): stored stays
stored, told stays told and an excuse stays (`PromiseGrows`); a step that gives no
excuse takes whole files out of the queue only when the backup is stored, and puts
them there only before it is told (`PromisedByWorker`, `PromisedByDrain`). They rest on
the invariant of `LossesAreKnown`: a backup that is not excused is `Good`.

`SentOnce` and `OrphansAreKnown`. `SentInv` speaks of every save that shares its key
with no other, disk errors or not: its masked file is whole only after the save, so
that once the pair was sent nobody writes the raw file again; then `RemoveRaw` takes
it, or it failed and so did `RemoveMasked` (`Failed`) if the pair is still whole.
`PairInv` holds while no crash happened: the two files of a `Good` save that is over
are both there or both gone, except between the two removals and where one of them
failed; a removal is only ever tried of what was sent (`UnremovedWasSent`).

`HistoryCache`. `NewestSurvives` is not inductive: it says nothing of the files a pruner
has listed and not yet removed. `VictimsExceed` adds that for each of them as many
newer files of the device are there as some limit asks; another pruner may take one
of those, but only while that one has newer files enough of its own
(`RemovalSparesNewer`); that gives `PruneKeepsLimit`. `SavedKept` says that a file that
was written whole stays, unless another backup put one under its name or as many as
some limit put one, whole or not, under newer names: those go on outdoing it when they
are removed themselves (`Outdone` counts names, not files). Every file is of a backup
that created it under that name (`FilesPlaced`), and one that is being written is not
whole before its time (`OpenKept`). `NewestSurvives` follows with `NamesInOrder` (while
the clock was not set back, who is named later has no smaller second): of what outdid
the newest whole copy nothing is whole, so it is `Unfinished`.

`StorageManager`. A step is a step or a stutter of each part (`StepsOfQueue`,
`StepsOfHistory`), so that `Spec` implies both parts' specifications and their lemmas
are taken over through INSTANCE. `RawCopySurvives` relates them: `Delivered` says
that a raw file gone from the queue was stored, or excused (`RawIsKept`);
`SavedKept` says the same of the history file; `CopiesFollow` ties the two places of a
goroutine, so that a backup whose bytes are in the queue has its local copy.

`Session`. `PhaseInv` says, by what the agent waits for, where the device is, what it
still has to read and which prompts may be on the way, as long as the agent answered
no text as a password or shell prompt (`Undeceived`: an answered "login:" is allowed,
as are unasked prompts); it gives `PasswordWhereAsked`. `Turns` says that, where no
prompt came unasked, no text was answered as one and no greeting is sent over Telnet
(`Calm`), at most one line or one prompt is under way at a time; that gives
`TypesAtPrompts`. For `BackupIsAnswer`, `Answering` says that after the
backup command what is accumulated followed by what is on the way is the answer
itself, with its prompt last (`PromptsLast`), so that only a `like` line of the answer
can match before the end: what is accumulated then is a part of the answer up to that
line (`AnswerSoFar`, `StopsAt`). `cleanSwitchOutput` drops lines by a recursive function
(`Without`); that it keeps the lines it should is shown for a least counterexample
(`WithoutBetween`).

`Pipeline`. Induction over natural numbers cannot be cited, as its theorem takes an
operator, but it can be done for particular statements: the set of numbers up to a
bound for which one fails has a least element (`LeastNat`, `UpTo`).
`TelnetConn.Read` is a machine that takes a sequence of bytes from one configuration
to another along a path (`PathTo`, `Reaches`). Paths are put together and taken apart
(`ReachesOn`, `ReachesAfter`), do not depend on what was passed on before
(`PathBehind`) and take nothing back (`PathGrows`). `TelnetInv` then says that the bytes
on the wire, however they are cut, lead from the present configuration to the end of
a token with all of the text passed on and all answers given; one lemma for each token
a device may send keeps it. `MadeInv` follows the text into the packet, and gives
`TextIsRecovered`. `CopyInv`: what `MaskingReader` has handed on, the line it holds and
what is `Shown` of the rest are together what is `Shown` of the whole text. It rests on
two facts: `Shown` may be cut at a line end (`ShownSplit`), and of one line it is what
`MaskLine` gives with the line's end put back (`ShownLine`, by the line's shape and
its first keyword).

`CloudSchedules`. `EntriesMatchJobs` alone is not inductive: removal is by id, so the
ids of two jobs must differ (`IdsApart`) and be below the next one (`IdsBelow`), and a
device not yet registered at start-up has no job (`Fresh`). `SyncInv` says that the
devices already gone through are served, and that one not gone through yet, or passed
over, has the job it had `before`; it gives `SyncApplies`.

`Daemon`. `DaemonInv` adds to the counters that `p.wg` also counts the backups `Stop`
found under way (`AskedCounted`), so that zero means they are done, and that cron runs
only while `run()` has not returned (`CronWithRun`).

`Host`. Each of the three components has an invariant of its own, kept by a next-state
relation of the component; a step of `Host` is one or a stutter of each
(`StepsOfLock`, `StepsOfHosts`, `StepsOfCache`). `PidLock`: while acquisitions have not overlapped, at most one agent is
between its look at agent.pid and the end of `run()`, and by where it is the file is
absent, another's, empty or its own (`LockInv`); an agent that left `run()` and could remove
the file is not the one it names (`NotItsOwn`). `KnownHosts`: a session that has
looked holds what the file says, because its process' mutex keeps the others out and
`clashed` those of other processes. `ModelCache`: the two maps differ in one entry
only, while its writer holds the lock.

Assumptions: `ValuesAssumption` and `BoundsAssumption` (`UploadQueue`),
`ScheduleAssumption` (`CloudSchedules`), `DaemonAssumption` (`Daemon`),
`HostAssumption` (`Host`), `HistoryAssumption` (`HistoryCache`), `StorageAssumption`
(`StorageManager`), `SessionAssumption` (`Session`), `PipelineAssumption` (`Pipeline`).
Sets of backups, devices and schedules are arbitrary (finite in `Daemon` and
`HistoryCache`, where they are counted), as are those of agents, sessions, process numbers, addresses and vendors,
and the number of slots, faults and kills.

Every invariant and every action property of the runs that are expected to pass is a
theorem. Only model-checked: liveness (`QueueDrains`, `SchedulesSettle`, `BackupsEnd`,
`StopEnds`, `SessionSucceeds`), which is outside the prover's reach, and the
disagreements of the four runs that expect a violation.

## 6. Not modelled

File contents, JSON, HTTP headers, logging, the regular expressions of sanitizer
and masks, AES-GCM (`Packet` has what it promises). The latest cache is written but
no property speaks of it: it is a convenience copy that nothing reads; its write is
one step whose file is whole, torn or untouched. A history directory that cannot be
made or listed is a write that fails, or a pruner that does not run. In `UploadQueue` a driver is the
two outcomes of `Collect`.

Configuration: what makes `LoadConfig` refuse a file is one case (`Broken`);
identifiers, permissions and the README files the installer writes are left out.
The device record a cron job captured (`daemon.go:261`) is not modelled: a job has
only its schedule, and no text of the repository says which record it should use.

Sessions: prompts end in # or >; those of other models (`]`, `$`, `%`) would stay in the
output, as `cleanSwitchOutput` does not know them. Dialling, the SSH transport and
paging prompts are not modelled, nor `executeSSHCommands` and
`executeTelnetCommands`, which the program does not call. Any prompt after the enable
password is accepted (`engine.go:388`) and what the device then answers is its
output; the code tells no refusal from a configuration. Concurrent sessions append
to one slice of the model (`engine.go:421`), all the same command, so that the race
has one outcome.

`TelnetFilter`: the option with number 255 is not sent (no standard option has it).
`MaskingReader`: of the patterns, those that hide the rest of a line are one keyword;
those that hide one word are characters like any others. `KnownHosts`: a line that is
only partly appended because the disk is full, the second lookup by the name that was
dialled (`driver.go:107-109`: lines are written under the connection's address, so that
it finds nothing the first did not, but a line put there by hand), and devices that are
`legacy_compatible`, which skip the callback. `PidLock`: file permissions.

The installation's dialogue, token and service registration, the logger and the
mock driver: sequential calls of libraries, or output only.

## 7. Plan

The parts of the system with state that several actors share are modelled, the
abstract specification of the queue is proved to be kept, and so is every safety
property of the runs. What is left, in this order:

1. `LoadConfig`'s reasons to refuse a file one by one, and the identifiers it derives
   from `agent_id` and a device's name: a device that is renamed, or an agent that is
   installed again, leaves the old schedules, history and queue files behind.
2. `HistoryCache` against an abstract specification of its own: per device, the newest
   files up to the limit.
3. The commands that `run()` polls, as a queue of the cloud with their answers: one
   that is taken and never reported because the process ends.
