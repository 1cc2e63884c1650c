# skid, specified

skid gives the agents of one machine a voice. A caller submits a name and an
array of messages; a long-lived service queues the submission on disk, renders
each message to a clip, and plays one clip at a time. This directory holds
TLA+ specifications of that service, the TLC configurations that check them on
small instances, and TLAPS proofs about them. File names below are relative to
`packages/skid/src/skid/` of the repository unless a path is given.

## 1. Inventory

| Part | State it keeps | Operations | Talks to |
|---|---|---|---|
| **Spool** (`spool.py`) | a directory of files `NNNNNN-name.json`, and `taken/` | `put` (request threads), `take_expired`, `take`, `done` (serve thread), `recover` (start-up) | called by Service; shares nothing but the file system |
| **Service** (`service.py`, `queue.py`) | `incoming` (wakeups), the `idle` event, the config in force, the progress stamp, failures, the log | `submit`, `start`, `stop`, `wait_idle`, `is_progressing`, `status`; threads `_serve` and `_generate_into` | everything below |
| **Assignments** (`assignment.py`) | who holds which voice, when each name was last heard, whose voice was given out again | `voice_for`, `record_spoken`, `release_expired`, `ran_out_for` | generation thread asks, serve thread tells |
| **Quiet table** (`greeting.py`) | when each name last finished, per work | `should_greet`, `record_finished` | serve thread |
| **Config** (`config.py`) | one YAML file | `load_config`, `save_config` | tools write it, the serve thread rereads it by mtime, a person edits it |
| **Routes** (`routes.py`) | none | `speak`, `set_voice`, `add_substitution`, `remove_substitution`, `list_substitutions`, `status` | request threads; write the config with no lock |
| **Generator** (`generation.py`) | voice, warm pipelines, voice packs | `set_voice`, `generate`, `warm` | generation thread, and serve thread on a reread |
| **Player** (`player.py`) | when the current clip began | `play`, with a timeout | serve thread; watchdog reads `playing_since` |
| **Substitutions** (`substitution.py`) | none | `apply_substitutions` | pure |
| **Process** (`main.py`, `share/systemd/user/*`) | the socket, the watchdog thread | `build`, `main`, `keep_pinging`, `someone_is_listening` | systemd restarts it |
| **Log** (`_log`, `_rotate_log` in `service.py`) | `skid.log`, `skid.log.1` to `skid.log.<log_keep>` | append a line, rotate by renames, under a lock | every thread of the service |
| **Shim and CLI** (`packages/skid-mcp`) | none | one HTTP request per call, with a timeout | Routes, through the socket systemd holds |
| **Contract** (`packages/skid-contract`, `schemas.py`) | none | JSON schemas and paths | data |
| **Installer** (`install.py`) | files under the home directory, systemd units, an MCP registration | `install`, `uninstall`, each a list of steps | runs by itself |

### What is hard here

*Threads without a lock.* A submission is a sequence of file operations on a
request thread (list the directory, rename a file into place, set its mode, log,
clear `idle`, put a wakeup), and the serve thread lists, reads, unlinks and
renames the same files. The generation thread of each submission feeds the
playing through a queue that must end with a sentinel. The tools load, change
and save the config while the serve thread rereads it.

*Death.* systemd restarts the process. Files stay, memory goes; a submission in
the middle of being spoken must be dropped, one that waits must be spoken.

*Two windows.* A name keeps its voice and is not announced again for as long as
it was heard recently. Both depend on tables told at the end of a turn.

*Failure.* A text may not render, a clip may not play, a log line may not be
written, a config may not load, and the rest is to go on.

*Several programs.* A client gives up after a time-out of its own, and the
service does not learn of it; systemd holds the socket while the service is
down, starts it for a connection, and stops trying after a burst of starts. A
process started by hand recovers the spool before it finds out that it is not
wanted. A log is moved aside by several renames. An install or an uninstall is a
list of commands, any of which may fail or be the last, and is run again.

The list with the line where each hazard bites is `hazards` in PROJECT.json.

### What makes each part correct

* Spool: what `put` accepted is on disk until it is spoken or discarded
  (`Accounted`); it is taken in the order of acceptance (`InOrder`); age alone
  decides, so nothing fresh is discarded and nothing older than the window is
  spoken (`AgeDecides`); one is spoken at a time and none twice (`TakenIsEntry`,
  `FateIsFinal`); all of it: it is the queue of module SpeechQueue (`QueueSpec`).
* Service: a submission is heard whole, in order, with nothing between
  (`SpokenWhole`, `HeardInOrder`); each is rendered in its own voice, whatever
  generation threads were left behind (`RenderedInOwnVoice`); one generation
  thread runs at a time (`OneWorker`, which does not hold); the threads use the
  spool as the spool needs (`UsesSpool`); everything accepted comes to an end
  (`Settled`, `IdleReturns`).
* Voices: `KeepsVoice`, `ReusedOnlyWhenOut`, `QuietestIsReused`, `OwnVoice`,
  `Releasable` for the assignments; `NotReannounced`, `AnnouncedWhenQuiet` for
  the greeting.
* Settings: no write discards another (`WritesChangeOneThing`), a submission is
  spoken by the file of the last wakeup (`SpokenAsLastRead`), and no setting a
  tool accepts silences skid (`KeepsServing`).
* Watchdog: nothing but a wedged loop is restarted (`RestartsOnlyTheWedged`), and
  a wedge is seen in time (`SeenInTime`) and in the end (`WedgesEnd`, which does
  not hold).
* Log: what is left of it is the last lines written, in order, with none missing
  (`LogKeptInOrder`).
* Calls: what a caller is told is true (`AnswerIsTrue`), and it is told something
  (`EveryCallEnds`).
* Processes on one spool: no process begins a submission twice or leaves waiting
  what was begun, and where processes run one after another none is lost and none
  begun by two (`BegunOnce`).
* Installer: nothing systemd refers to is missing (`NothingDangles`), an install
  fails by a fault alone (`RerunSucceeds`, which does not hold), and an exit
  status of 0 is true (`ResultIsTrue`).
* Substitutions: the scan comes to what a definition without a scan says
  (`SpokenAsReference`), spares longer words (`WholeWordsOnly`) and ends
  (`EveryStepReads`).

## 2. The modules

```
SpeechQueue  <--implements--  Spool  <--steps used by--  Service
                                |                          |
                          SpoolInvariant             ServiceProofs
                          /            \
                    MCSpool        SpoolProofs
Voices -- VoicesProofs            Settings -- SettingsProofs
Watchdog -- WatchdogProofs        Substitution -- SubstitutionProofs
MCParts: Substitution, Requests, Install, LogRotation and TwoProcesses
MCParts, SubstitutionProofs -- PartsProofs
MCServe: MCVoices, MCSettings and Watchdog
NaturalLemmas: used by VoicesProofs, SettingsProofs and SubstitutionProofs
MCService, MCVoices, MCSettings, MCWatchdog: instances for TLC
```

**SpeechQueue** is what a caller is promised: submissions are asked for, queued,
promised, spoken one at a time in the order of the promises, or discarded. It
knows nothing of files, threads or crashes.

**Spool** has one action per file operation. A submission is identified with the
call of `submit` that carried it; its path is the pair of its sequence number
and its cleaned name. `put[c]` is how far the call has got:
`called` (clock read), `numbered` (`_next_sequence` returned), `written` (file
renamed into place), then `accepted` or `refused` (`chmod`). A scan of the serve
thread is `scan`, the paths it listed and has not visited (`unseen`), and the
entry just read (`held`). `entry` is what `take` returned; `waiting` and `taken`
are the two directories. `before`, `fate` and `reported` are history; whatever an
unlink removes gets a fate, also where it is not what was read. `Crash`
empties memory and keeps the files; `Recover` is `recover()` up to its
`take_expired`, which follows as an ordinary scan. Temporary files are not
modelled (the rename is the write), nor are files that do not parse: no `put`
leaves one at a final name.

**Service** EXTENDS Spool and adds the rest of `submit` (log, clear `idle`, put
the wakeup), `start`, `stop`, the serve loop with its program counter `loop`, the
generation thread (`worker`, `made`), whose voice the generator is set to
(`voice`: `ApplyVoice`, undone by a reread in `LoopGet`) and the queue of clips.
Every action is a Spool action with its place in a thread, or leaves the spool
alone. A greeting is text 0 of a submission.

The exceptions are steps of their own. `_serve` catches what leaves `_speak`, and
goes on to `done()` and the next submission without joining the worker: a clip
that cannot be unlinked or whose failure cannot be recorded (`PlayRaises`, for
any clip), an unwanted greeting that cannot be unlinked (`GreetingRaises`). A
worker that is not through is then `"left"`: it renders on by itself
(`LeftEnd`), and what it renders reaches nobody. The log may refuse the lines of
a call in `Unlogged`: then `submit` raises after the file is stored
(`SubmitUnlogged`), the line of a discard ends the serve thread (`LoopUnlogged`),
so does the line that says how `_speak` failed (`SpeakLeft`), and the line of a
failed rendering ends the worker without its sentinel (`WorkerDies`), upon which
the serve thread waits for ever.

**Voices** has one turn at the speaker as its unit, since Service shows that
turns do not overlap: the choice of a voice (`voice_for`, four actions for its
four ends), the decision to greet at the first clip, clips heard, and both
tables told (`Finish`) or not (`Abandon`, when the log line raises). Time may
pass between any two steps. `Faults` says what may fail.

**Settings** has the config file with its mtime, the three tools that write it
(load, then save), a person's edits, and the serve thread's look at it once per
wakeup: the mtime first (`Wake`), the content next (`Reread`). Each write gets an
mtime of its own from `Stamps`, in any order, since an mtime can go back.

**Watchdog** is Service seen by the clock: submissions, wakeups and clips are
numbers, and what matters of a step is how long it takes and whether it notes
that it got somewhere (`_progress()`). `quietFor` is the age of that note,
`nextLook` the sleep of `keep_pinging`, `sincePing` the time systemd has waited.
Time passes (`TimePasses`) only `AtRest`, when no thread has a step it can take at
once. Two faults end in a wedge: the serve thread dies on a reread of the config
(run `settings_misspelt`), or a worker hangs or ends without its sentinel. Two
constants widen what can happen: `InWindows` lets the look fall between an event
and the note of it, `FailMax` lets a rendering that fails take time.

**Substitution** has one action per round of the scan: `Replace` at a position
where an entry matches, `Keep` where none does. A regular expression is its
alternatives in order, which is what `match_at` sees of it at a position. The
reference is stated without a scan: `Starts` is the only set of matches in which
one is taken exactly if no earlier one that is taken overlaps it, and `Reference`
puts the text together from it, a replacement, a character or nothing for each
position (`Piece`).

**LogRotation** has one action per rename of `_rotate_log` and one for the line.
`doing` is where a thread is under the lock: the log it renames next, `Writing`,
or `Outside`. `logs[i]` is `skid.log.i`, the set of the numbers of its lines and
its size. A thread may leave by an exception (`LogFails`) and the process may die
(`LogDies`) between any two steps.

**Requests** follows a call: the client checks what it sends (`Sends`: the types
the MCP server publishes, the words `skid-say` wants), connects or is refused
(`Call`), may give up (`GiveUp`); the service takes the connection, holds the
body to the schema (`Admitted`) and the operation's own checks (`Unusable`,
`Raises`), takes effect, answers. Between them are the socket systemd holds
(`listens`, and `served[r] = "backlog"` for what nobody has taken), the starts it
makes (`Activate`, `Restart`), and the end of a process (`Ends`), which resets
what it had taken. A member of a body is the kind of its value; `Schema` is
`schemas.py`. `hit` records which call met a fault of the machine, without which
"failed" would say nothing. A retry is another call.

**TwoProcesses** has `main()` of several processes on one spool: `build()`, which
recovers and starts the serve thread (`Build`, or `BuildFails` where a file it
has listed is moved away), the inherited socket or the look (`Look`) and the
bind, `Exit` at any point; and `take()` in the steps between which another
process may come: the listing (`TakeList`), the reading of the first path
(`TakeRead`), the rename of whatever is at that path by now (`TakeAside`). A file
is known by its path alone. All submissions are of one name, so a path is its
number, and numbers come from the directory that `take()` empties and are used
again. A person may start the socket unit at any time (`StartSocket`).

**Install** has one action per command of the two plans, in the order of the code
(`at` is the command that is due). `Works` says what a command needs of the
machine to exit with 0, `Tolerated` which failures the step passes over, and
`StepFails` lets any command fail for a reason of its own. uv, systemctl, claude
and rm are external: a command does all of its work or none, but for the `rm` of
two files. `owed` and `found` are what the plan was made from. `AtCheckout` says
whether the paths lead to the checkout: the tests make them so
(tests/test_install.py:61 and 80), and `main()`, which takes them from
`checkout_root()`, does not. What holds of installs is checked with TRUE, and
that an install of `main()` never ends well with FALSE (run `install_checkout`).

Operators named as mutants in a comment are not part of a specification: each is
a plausible bug that some property must catch.

## 3. What TLC checks

Passing runs:

| Run | Instance | Shows |
|---|---|---|
| `spool_crash` | 3 calls, 2 names, window 0, clock to 1, 1 death | types; nothing accepted is lost, order, age alone decides, interrupted speech is dropped once, fates are final; Spool implements SpeechQueue; the inductive invariant of the proofs |
| `service_threads` | 2 calls of one name and one message each, any clip may fail to be unlinked, the log may refuse the lines of the second, window 0, clock to 1, 1 death, `stop`, fairness | heard whole and in order, in its own voice; the spool is used as specified; all accepted settles; idle returns |
| `voices_faults` | 3 names, two of which fold to one, 3 aliases of 2 voices, 4 configs, windows 1, clock to 2, clips and log lines fail | types; sharing is announced; holdings end |
| `serve_sides` | one side at a time: the same names, one of them on two works, and voices, windows 2, clock to 3, nothing fails; 4 tool calls in turn, one of them for an unknown voice, hand edits, 4 mtimes, 2 submissions; 3 pending calls, looks and grace 3 ticks, renderings up to 2, clips up to 7, both faults | types; who keeps a voice, when one is reused, which one, and who is announced; no write discards another, spoken as last read, no tool ends the serve thread; only a wedge is restarted, an unhidden wedge is restarted in time |
| `parts_alone` | one part at a time: texts of up to 4 of 4 characters with up to 2 of 7 entries; a call of any of 57 shapes beside a call to speak, 2 starts; installs and uninstalls without end from a checkout; 2 writers, 3 logs kept, 6 lines of sizes 1, 2 and 4 and a limit of 3; a process by hand beside the unit, 3 submissions | the scan is its reference; answers are true and calls end; nothing dangles, results are true; the log keeps its order; what is begun is begun once |

Bounds. Three calls, two of them of one name, are the least in which a path can
collide while a third submission is ordered between them. With the clock at 1
and a window of 0 an entry is at the window and past it. One death
is checked; the proofs hold for any number. In Service the greeting is a text too, so one message gives clips of two
kinds to order. Two voices and three names force reuse, and with a window of 2 a
clock to 3 is before, at and past its end. In Settings a stamp is
used up by a write, so four of them are three writes after the first content. In
Watchdog the grace equals the time between two looks and half the limit, as 60 s,
60 s and 120 s do; a rendering is shorter than the grace and a clip longer than
the limit. Four characters hold a match at either edge, two that overlap and two
that touch. A call beside a call to speak is enough for one to be served, or to be the
reason of a start, while the other is given up; with two starts the second one
may be the last. With a limit of 3 a line of 1 or 2 may or may not fit and one of
4 never does; six lines fill three old logs and lose one. A process by hand and
the unit are the two that share the spool, and with three submissions a path can
be used again while one has read it and another waits. Nothing of Install
is bounded. Each bound is a CONSTANT, or is named as a bound where it is declared.

Deadlock is checked in the Spool runs, in `voices_faults`, `watchdog_masked`
and `install_checkout`. In Service, a stopped service stops, and one whose thread
an exception has ended waits; in Settings, and so in `serve_sides`, submissions
and stamps are used up and the thread rests; in `parts_alone` a scan ends and so
does the last of the calls, lines and submissions: those configurations say
`CHECK_DEADLOCK FALSE`.

Violating runs, each a sentence of the docs that the code does not keep (the
quotations are in PROJECT.json, `findings`):

| Run | What happens |
|---|---|
| `spool_overlap` | two calls of one name overlap and the second file replaces the first |
| `service_silent` | a submission ages out behind another and no line is logged |
| `service_workers` | a clip cannot be unlinked, `_speak` is left with its worker still rendering, and the next submission starts a second worker on the one generator |
| `settings_overlap` | a tool's save discards an edit made since its load |
| `settings_misspelt` | a hand-edited unknown voice ends the serve thread |
| `watchdog_masked` | `idle` is set although a submission has just been accepted, and hides the wedge that follows from the watchdog |
| `install_checkout` | an install run as `main()` runs it fails at its first command, with no fault |

Seen while modelling, with no run of their own:

* `stop()` "after the current submission" (service.py:227): the sentinel is
  behind every wakeup, and the drain loop at line 517 looks at neither, so a
  backlog is spoken to its end.
* A greeting is played as soon as it is rendered (service.py:477), so it is heard
  even if the first message then fails (docs/SPEC.md:201-203).
* The quiet table is told whatever was heard (service.py:490), so a name whose
  clips all failed is not announced next time (greeting.py:38, "finished
  playing"). Module Voices with `Faults = {"clip"}` violates `AnnouncedWhenQuiet`
  in five states.
* The config is looked at once per wakeup (service.py:512), and one wakeup drains
  a backlog, so a setting may miss the next submission (docs/SPEC.md:390).
* The looks are half of systemd's limit apart, so a single withheld ping is
  enough for a restart: the next look comes at the limit itself. Module Watchdog
  with `InWindows = TRUE` violates `RestartsOnlyTheWedged` in 15 steps: after a
  long rest the look falls between `idle.clear()` and the loop's note of the
  wakeup (service.py:248 and 511), or after a long clip between the player's exit
  and the note of it (player.py:104 and service.py:447).
* A rendering that fails is not noted as progress (service.py:429). With
  `FailMax = 2` two failures in a row, each within the grace, pass it together,
  and the clip that plays when the limit is reached is cut off.
* An uninstall tolerates a failure of `claude mcp remove` alone. After one that
  was stopped half way, or an install that was, `disable` or `stop` fails for good
  (FR-9.13 has no such exception).
* A first install over an entry of another command under the name `skid`, with
  nothing of skid on the disk, only adds, tolerates "already exists" and reports
  success (FR-9.11 speaks of reinstalls). `ResultIsTrue` asks for a registration
  of this skid where `found`.
* `run()` reads the exit status alone, so a warning of systemd-analyze that leaves
  it 0 is passed over (FR-9.6).
* `_apply_voice` "cannot be allowed to raise" (service.py:383), but it records a
  failure in the log, and a log that cannot be written raises: the worker ends
  with no sentinel (`WorkerDies`), and the watchdog is what is left.
* A name of spaces passes the schema and raises in the operation, so the answer is
  500 where other unusable values get 400. `AnswerIsTrue` states the exception.
* `skid-say` leaves an empty `work` out; through `skid-mcp` the same call is sent
  and refused.
* A log can be moved aside empty. And a rotation cut off leaves a gap, after which
  the next one may lose the oldest log while fewer than `log_keep` old ones exist.
* Two processes that are up at once may both speak one submission and lose
  another. One has read a path; the other takes that file and speaks it; a
  further submission is put on the same path, whose number is free again; the
  rename of the first succeeds (spool.py:207-208), moves the newcomer to `taken/`
  and speaks what it had read. Both claims of the second half of `BegunOnce` are
  violated without its `~together`, in 12 states. It takes a process by hand
  beside a running service, for as long as it is in `build()` or has not stopped.
* Two processes on one spool: their clips are heard at once; a process by hand
  empties the `taken/` of the one that is speaking, and its recovery also removes
  the temporary file of a submission the other is writing; the reading and the
  rename of `take()` raise where another process has taken the file, outside of
  any `try`, and end the serve thread (`thread[p] = "dead"`), or the start-up
  (`BuildFails`). The look opens a connection, which makes systemd start the
  unit. It counts a time-out as nobody listening. And where `skid.socket` is
  started between the look and the bind, or two processes look before either
  binds, the later bind takes the path from the other (main.py:11-15 says that
  skid refuses): in the model nothing keeps `StartSocket` from coming there.

What holds in spite of the first: with calls of one name one after another
(`Overlap = FALSE`) nothing is lost. One agent's calls are of that kind, as it
waits for each answer; two agents of one name are not. And even where they
overlap, what is spoken is spoken whole and in the order of its acceptance: that
is proved (`TakenInOrder`, `HeardWhole`, `HeardAsAccepted`). Not so that nothing
fresh is discarded: a file that replaces an expired one between its reading and
its unlink (spool.py:189-205) goes with it.

### Fairness

`Settled` and `IdleReturns` are checked under weak fairness of each request
thread that has begun, of the serve thread, of the generation thread, and of
start-up. A thread of a live process that can run does, by the operating
system; a clip ends, by the player's timeout; systemd starts the process again
(`Restart=on-failure`). Weak fairness is enough since no other thread can
disable what a thread is about to do. Nothing is assumed of callers, of `stop`,
of the clock or of deaths, which are bounded, nor of a worker that was left
behind. Both properties are weakened by `stop()`, after which what waits may
stay, and by `Stuck`, a thread that a refused line of the log has ended, after
which the watchdog is to come (module Watchdog); `Settled` too by a caller who is
told that its call failed, whose file is stored and which nobody is woken for.

`EveryCallEnds` is checked under weak fairness of systemd's activation, of the
start-up of a process (it becomes ready or ends) and of each handler: no thread
or process that can go on rests for ever. It assumes nothing of the client's
time-out, so a call ends before it where the service works, and none of
`Restart`. All starts count as within one `StartLimitIntervalSec`, which makes
deaths finite; a service that dies more slowly for ever leaves a call to the
client's time-out.

`WedgesEnd` is refuted under weak fairness of every thread, of the look, of
systemd and of time: in the counterexample all of them go on for ever, and only
nobody calls.

## 4. What is proved

All proofs are checked by TLAPS for every value of the constants that satisfies
the named assumptions (`SpoolAssumption`, `ServiceAssumption`,
`VoicesAssumption`, `SettingsAssumption`, `WatchdogAssumption`, `LogAssumption`,
`RequestsAssumption`, `TwoProcessesAssumption`, `InstallAssumption`,
`SubstitutionAssumption`). What a theorem asks beyond these is its hypothesis:

| Hypothesis | Theorems | Why |
|---|---|---|
| `Overlap = FALSE` | `Invariance`, `NothingAcceptedIsLost`, `DiscardsAreOld`, `RecoveryDropsTheInterrupted`, `FatesAreFinal`, `Implements`, `ServiceImplementsQueue`; `ToolsInTurnLoseNothing` | two calls of one name, or two writers of the config, do harm each other (section 3) |
| `"log" \notin Faults` | `HeardNamesKeepTheirVoice`, `NobodyIsAnnouncedTwice`, `TheQuietestIsReused` | a log line that raises ends a turn before the tables are told of it |
| `Faults = {}` | `TheQuietAreAnnounced` | a clip that fails counts as heard |
| people write voices kokoro knows | `ToolsCannotSilence` | another ends the serve thread (section 3) |
| `~InWindows`, `FailMax = 0` | `OnlyTheWedgedAreRestarted` | without them it is false (section 3) |
| `FoldsKeepWords` | `LiteralsAreWholeWords` | below |

Every safety property that a passing run checks is stated by a theorem, the
types of `serve_sides` (`ServeTypeOK`) by those of its three parts. `RerunSucceeds`,
which is violated, has `OnlyTheCheckoutDecides` beside it: an install fails by a
fault alone where the paths lead to the checkout, and never ends well where they
do not, which is where `main()` runs it.

*SpoolProofs.* There are two inductive invariants, both in module SpoolInvariant,
as some properties survive two calls of one name that overlap and some do not.

`OrderInv` holds whatever callers do (`OrderAlways`). The difficulty is that a
file may be replaced after a scan has read it, so what is read need not be what
is there. It therefore speaks of paths: every path still to be visited has a
file, and what was read was at the first of them and has no fate yet
(`ScanIsOfPaths`); where the serve thread is, in each mode of the process
(`ThreadByMode`). And what was accepted before a call began is numbered below it
and visited before it by the scan in progress (`AheadIsFirst`), where the call
counts from the moment it has its number: the path it is about to take over may
be listed already. From it: `TakenInOrder`.

`IInv` adds what holds where no two calls of one name overlap: a number that was
read stays above every other waiting file of its name (`NumberIsFree`), so a path
has one file (`OneFilePerPath`), what was written is kept (`WrittenIsKept`), what
was read is still there (`ScanIsOfFiles`), and `taken/` is the memory of the serve
thread (`TakenByMode`). From it: `NothingAcceptedIsLost`,
`RecoveryDropsTheInterrupted`, `FatesAreFinal` and `DiscardsAreOld`, as what is
unlinked or taken is then what was read and judged; and every step of Spool is one
step of SpeechQueue or none (`Implements`), one lemma for each action.

*ServiceProofs.* Every step of Service is a step of Spool or none
(`ServiceUsesSpool`; the invariant ties `loop` to `mode`, `scan` and `entry`),
so all theorems on Spool hold in Service, the refinement among them
(`ServiceImplementsQueue`). The types of Service are inductive once the loop is
known to speak only where there is an entry (`ThreadTypes`, `ServiceTypes`).
`SInv` says where the threads are: what the loop owes the log and which scan it
has in progress (`LoopInv`); that the sentinel is the last clip and is there once
the worker has ended (`ClipsInv`); that between submissions no clip is left and
no worker but one that was left behind (`LeftBehind`). From it:
`EachInItsOwnVoice`, as a worker sets its voice before it renders and one that
was left behind has done so; and `OnlyExceptionsLeaveWorkers`, which says by what
steps alone a worker outlives its submission, as `OneWorker` does not hold. What
is heard needs both halves. `HeardInv` says that the clips that wait are of
increasing texts, that what is on the speaker is before them, and that what was
heard of the entry is before that and comes last: `HeardWhole`. `TakenInTurn`
says that nothing accepted before a submission waits, is read or is taken once
that is gone: with it `HeardAsAccepted`. Both hold whatever callers do, by
`OrderInv`: where calls overlap, the file that is moved to `taken/` may be of
another call than what was read, so what is gone is either, and what was read is
numbered below whatever was begun after its acceptance.

*VoicesProofs.* Types, `OwnVoice` and `Releasable` whatever fails.
`HeardNamesKeepTheirVoice` and `NobodyIsAnnouncedTwice` need the log to be
writable: the invariant `Told` says that both tables are at least as late as
what was heard. `TheQuietAreAnnounced` needs that nothing fails.

`TheQuietestIsReused` is about a rule that looks at one thing and is to promise
another: `_quietest` compares when *names* were last heard, and the promise
is about *voices*. `QuietInv` ties the two where nobody declares a voice. When a
voice was last heard (`voiceEnded`) is what some name that still holds it was
last heard at, and no other holder was heard later. A release may take holders
away, but only in the order in which they were heard, so the last of them stays
(`LatestHolderStays`).

*SettingsProofs.* Writers in turn lose nothing, as a loaded copy is the file
until it is saved. No tool call ends the serve thread, overlapping or not, where
people write only voices kokoro knows, since a tool accepts a voice only if a
file or kokoro's list has it. Types hold however writers overlap.
`SpeechFollowsTheFile` holds whatever the order of the mtimes, for a person may
put an older file in place: `LastReadInv` says that the config in force is the
file's wherever the mtime that was noted is the file's mtime (outside of the two
reads), and from a served wakeup to the next write. It is what noting the mtime
*before* reading the content buys. `RemovalIsExact` is a theorem about the
operator: what a removal leaves is every other entry, in order.

*WatchdogProofs.* Three invariants, each resting on the one before. `TypeInv`
adds to the types the counts that bound them. `SeenInv` says that while a wedge
goes on unhidden the note of the last step ages with it, so no ping is sent
later than the grace after its beginning: `WedgesAreSeenInTime`, with no further
assumption. `TimelyInv` says that who is not wedged has answered every look
(`sincePing + nextLook = Interval`), because in every place of the loop where it
may have to wait the last step is younger than the grace:
`OnlyTheWedgedAreRestarted`, for `~InWindows` and `FailMax = 0`, without which it
is false (section 3).

*SubstitutionProofs.* `ScanInv` relates the scan to the reference from behind:
the replacements made are the leftmost matches of the text up to the position,
each by its first entry, and what was said is the pieces of the text up to there.
A step adds a match that nothing taken reaches into, or one character. At the end
of the text the replacements are the set `Starts` chooses (there is no other:
`StartsAreTaken`), which gives `ScanIsTheReference`, for every text and
list of entries. `ScanReadsOn` is that the scan ends. `LiteralsAreWholeWords`
takes that a character and what reads as it are both word characters or neither.
In Python's `re` that holds with one exception: U+0345 (a combining iota, not
`\w`) reads as iota, so a literal that begins or ends with it has no fence there
and may match inside a Greek word.

*PartsProofs*, part by part. *LogRotation*: `LogInv` says that a thread is under
the lock alone, the place above a log that is about to be moved is free but for
the oldest, and who writes has room. So a rename loses the oldest log or nothing,
wherever rotations are cut off (`LogIsKeptInOrder`). *Requests*: how far the
service is with a call says whether it has taken effect, and an answer is the
last of it (`AnswerInv`): `AnswersAreTrue`. The schema leaves `speak` one value to
stumble over (`OnlyBlankNamesRaise`). *TwoProcesses*: what waits has a number of
its own and was begun by nobody (`WaitingInv`); what was read is at the place
that will be renamed and was not begun by its reader (`ReadInv`); and as long as
processes ran one after another nobody else has moved it (`AloneInv`). Hence
`EachIsBegunOnce`, for any number of processes and submissions. *Install*:
`InstallInv` says which of the effects of the commands that have run are still
there at each command, and that the plan fits the registration it comes to. From
it `NothingEverDangles` and `ResultsAreTrue` whatever the checkout. With
`CheckoutInv`, that what came past its first command came from a checkout, it
gives `OnlyTheCheckoutDecides`. The composition that `parts_alone` checks
implements each part (`PartsImplementEach`), so the theorems hold in it, and with
them its types (`PartsTypes`).

*NaturalLemmas.* The induction theorems of the library take an operator, which
the provers here cannot instantiate. What is needed of induction is said of sets
instead, and proved from well-foundedness: a non-empty set of naturals has a
least element (`LeastOfNaturals`), and a set that has 0 and with each number below
m the next has all up to m (`UpTo`). With the set of places where a claim
holds, that is induction over the places of a text or a list. `Reference` and
`Without` are recursive functions, not RECURSIVE operators, for the same reason.

Only model-checked, and out of the prover's reach: `Settled`, `IdleReturns` and
`EveryCallEnds`, which are liveness under fairness. The violating runs are
counterexamples and have no theorem. MCServe puts three modules side by side for
TLC alone; their theorems are those of each.

## 5. What is not modelled, and why

* **Generator**: the caches of pipelines and voice packs. As long as one worker
  uses them at a time they change how long a rendering takes and not what comes
  of it; how long it takes is in Watchdog. What two calls of the engine at once
  give (run `service_workers`) is not modelled, as nothing in the repository says.
* **Player**: its lock, as one thread plays, and the command line, which is data.
* **Log**: a line of which a part was written when the process died.
* **Service**: the five seconds after which the join gives up (service.py:483), as
  the sentinel is the last thing a worker does; a reread of the config that ends
  the serve thread (Settings has that); clips left on the disk.
* **Spool**: temporary files, files that do not parse, and a disk that fails to
  read.
* **Config**: parsing, the schema but for the values Settings refuses, and the
  settings on which no property depends.
* **Process**: a backlog of the socket that is full.
* **Installer**: dry runs and the report.
* What a clip sounds like, the wording of greetings and logs, JSON, YAML and HTTP.

What would be next: Voices and Settings composed with Service, and the log of
the service as the log of LogRotation, to see which thread a full disk ends.
