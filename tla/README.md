# Verification of AtCode

AtCode puts three AI command-line agents, `pm`, `developer` and `reviewer`, in the
panes of one tmux session per project and carries their handoffs from one to the
next. It is a set of short-lived CLI processes: nothing runs between two commands,
and all that survives is a few JSON files and the tmux server. The hard questions
are therefore about what several processes, an agent, a user and a crash can do to
those files and panes between two system calls.

The TLA+ modules here model that, TLC checks them on small instances, and TLAPS
proves the safety results for every number of processes, bodies and transfers,
every screen and every tree of directories.
Source paths below are relative to `src/src/atcode`.

## The system

| Component | State | Operations | Meets the others through |
|---|---|---|---|
| `application/workflow.py` WorkflowService | `workflow.json`, `handoff.json` | `next`, `current`, `reset`; pure `transition`, `reconcile_state` | the project lock, both files, tmux |
| `application/handoffs.py` HandoffParser | none | `parse` | called by `next` on captured text |
| `application/sessions.py` SessionService | `state.json`, the tmux session | `start`, `stop`, `status`, `attach` | the lock, the files of the relay (start reads and reconciles them), tmux |
| `application/prompts.py` | prompt files | `render`, `build` | called by `start`; embeds the delivered handoff |
| `application/configuration.py` | global and project `config.json` | `effective`, `get`, `set`, `unset` | read by every session call under the lock, written without it |
| `application/projects.py` | `project.json` per project | `init`, `resolve_root` | the id names lock, files and session |
| `application/diagnostics.py` | none | `run` (doctor) | reads everything, changes nothing |
| `infrastructure/tmux_backend.py` | sessions, panes, one paste buffer, a key binding | create, inspect, terminate, capture, deliver, focus | `subprocess`, 15 s per command |
| `infrastructure/storage/*` | the files | read, atomic write, delete; `flock` on `state.lock` | every service |
| `cli.py`, `bootstrap.py` | none | one service call per command; `start --fresh` is an unlocked check, a question and two more calls; `status` reads once more after its call | everything |
| adapters, installer, role prompts | none | build command lines; install; instruct the agents | launch of the panes |

What is hard, and what makes each part correct:

- **Relay.** `next` reads the workflow, then makes up to eight tmux calls and two
  file writes with what it read. Any call may fail, time out before or after its
  effect, or be the last thing the process does. Correct means: nothing read is
  stale when used; a captured handoff is kept until delivered; a delivery interrupted
  between its two file writes is neither lost nor repeated; what is recorded as
  delivered reached its target (at least once); only the role whose turn it is
  hands over, and never the same text twice in a row.
- **Reset.** `start --fresh` touches two files and asks a question in between two
  locked calls. Correct means: the files never look like something they are not,
  and no running session loses its workflow.
- **Session.** A creation is about a dozen tmux commands with a rollback by name;
  `state.json` caches what was last seen. Correct means: all or nothing, and no
  cache that lags behind an observation.
- **Lock.** Correct means: exclusive, and never kept from a waiting command for ever.
- **Capture.** The parser looks for the last block among whatever a pane shows: stray
  and quoted markers, old blocks, pasted transfers, lines tmux has dropped. Correct
  means: a role is heard, at the latest when it prints its block again; what is
  delivered to it is not taken for what it says unless a marker stood open; and an old
  block is not taken for a new one.
- **Configuration and registration.** Both are read and written without a lock, by
  commands and by hand. Correct means: commands leave layers that load and change one
  key, a configuration that is used was in force, and a directory keeps its project.
- **Reports.** `status` and `doctor` read what other processes write. Correct means:
  no line that mixes an older delivery with a newer workflow, and no warning without
  a reason.

The `hazards` of `PROJECT.json` list these at their lines, with the properties
that would catch each of them.

## Modules

```
Handoffs            values and pure functions
  Relay             what the relay promises, one variable
  Workflow          the relay as processes, files and panes; INSTANCEs Relay
    MCWorkflow      instances for TLC
    WorkflowProofs  theorems
    Reports         Workflow with status and doctor reading beside it
      MCReports, ReportsProofs
Scrollback          one role's pane and the parser's scan; INSTANCEs Handoffs
  MCScrollback, ScrollbackProofs
Session             the life of the tmux session and of state.json; INSTANCEs Team
  Team              what the session service promises, and its theorem
  MCSession         instances for TLC
  SessionProofs     theorems
  Diagnostics       Session with doctor reading beside it
    MCDiagnostics, DiagnosticsProofs
Home                registrations and configuration layers
  MCHome, HomeProofs
```

**Handoffs** holds `transition`, `reconcile_state`, what `HandoffParser.parse`
accepts, digests and the text that is pasted. A body is a model value. A digest is
SHA-256 over role, decision and body; it is modelled by that triple, so collisions
do not exist. The pasted text does not contain the decision, and neither does `Text`.

**Relay** is the abstract specification: one `state`, changed by `Accept` (a transfer
by the role whose turn it is, with a decision it may take, a new text and the next
id) or forgotten. Two relaxations are the code's: the first transfer after an
interrupted reset may keep the id of a pending handoff that survived it, and while a
reset is between its two file operations a reader sees everything forgotten but the
last transfer (`ForgetAllButLast`).

**Workflow** is one project with `Procs` CLI processes. Each label of `pc` is a place
where the process can be interrupted, and a step between two labels has at most one
effect outside the process:

| Code | Actions |
|---|---|
| `cli.run` | `Invoke`: the command, and for the key binding the pane it names |
| `JsonProjectLock` | `Acquire`, and the `lock' = None` of `Done` and `Continue` |
| `_reconcile_unlocked` | `Reconcile` |
| `next` up to the retry | `Inspect` (session, source, turn, pending handoff) |
| `next`, capture | `Capture`: read the pane, parse, compare digests, write pending |
| `_deliver` | `Load`, `Paste`, `Submit` (tmux), `Mark`, `AdvanceWorkflow` (files), `Focus` |
| `_reset_fresh` | `Check` (no lock), `Acquire`/`Reconcile`, `Confirm` (no lock), `Wipe`, `Unlink`, then a start |
| `start`, `stop` | `Launch`, `Create`, `Kill`, as far as the relay sees them |
| failures | `TmuxFails` (no effect), the `Done` branch of `ThenOrTimeout` (effect, then a timeout), `Crash` |
| the world | `SessionEnds`, `PaneDies`, `UserFocuses`, `OtherProject` |

Choices a reader should know:

- The two reads at the start of a call are one step with the lock, because nobody
  else writes those files without it. `write_json_atomic` is one step: it renames a
  synced temporary file.
- An agent may print anything at any time, so the output is chosen when it is
  captured. Nothing the properties say depends on agents doing what their prompt asks.
- A crash drops the lock, as the kernel drops a `flock`.
- A timed-out tmux command has had its effect or has not; an effect that arrives
  after the process has given up is not modelled.
- `start` reads the workflow in `Launch` and the startup prompts are computed in
  `Create`. The lock is held in between, so the files are the same.
- `draft` and `inbox` are what a role has in its input line and was last given.

**Session** is the same project seen from `start`, `stop` and `status`, with the
tmux commands of a creation one by one, the rollback, and `state.json`. Besides this
installation's processes a `Rival` can create and kill sessions of the same name:
session names derive from the project's root, locks from `ATCODE_HOME`, so another
installation (or the user) is not excluded. A session is its creator, its layout and
the number of panes per role; a role can have two when a creation goes on in a
session that took the name of its own. Two history variables name the only excuses:
`stale` (the session or the layout changed outside a call that records) and `damaged`
(a pane died, the creator died, tmux refused the rollback).

**Team** is its abstract specification: the session as everybody but its builder
meets it, with no lock, process, command or layout. It is `Built` whole in one step or
`LeftBehind` damaged by a creation that broke off, `Loses` panes, and is `Gone`. Under
the refinement mapping a session is `Hidden` while the process that made it holds the
lock and builds it or rolls it back, so the commands of a creation are stutters until
it is verified, removed or left behind. A `Taken` session is a rival's; a creation that
finds the name taken under it works on that session (`Grafted`, `Abandoned`), which is
the same code that `session_rollback` is about. Without the rival, `Built`,
`LeftBehind`, `Loses` and `Gone` are what the one step `Create` of `Workflow` assumes,
with its `PaneDies`, `Kill` and `SessionEnds`.

**Scrollback** is what `Workflow` leaves open: which output a capture finds. A screen
is a sequence of lines (markers, STATUS lines, texts), of which tmux keeps the last
`History`. `EndOf` and `StartOf` say declaratively which block the non-greedy regular
expression matches last, `Output` what `parse` makes of it in the terms of `Handoffs`.
The role prints any line, a delivery pastes its envelope and a body, a resize breaks
wide lines anew (so the digest of a body that has one depends on the width), a
restart begins with what the program shows of its prompt, which holds an example
block, and a reset forgets the digests. Two histories spell out what the code
really does. `renewed`: after a resize, or when part of it has left the history, a
block already handed over passes for a new one. `settled` are the lines that were
delivered with no opening marker left open when they had arrived; they move up with
the screen. `OwnWords` says that none of them is ever inside the block `next` finds. An
opening marker that is left open, by the role or by a delivered text that quotes one,
joins what is printed next: the role's next block begins there, is refused, or takes
what lies between along. `ReadsNextBlock` therefore promises the role's next block only
if no marker is open, and otherwise the one it prints when asked again, wherever the
history ends meanwhile.

**Home** is the runtime home: the registered roots, and one `config.json` per scope.
Every read and every write of `init` and `config` is a step, because they take no
lock; the user edits layers at any time. A layer is a function from the names it holds
to values; `Bare` is a role that lost its adapter, `Legacy` the role names of the first
version. A project is its root. Histories say what was read when: `before` (the
projects when `init` looked), `first` (the configuration when its reading began),
`moved` (scopes written since), `broken` (scopes a user broke). They spell out what the
missing lock costs: concurrent changes of one layer are lost, a configuration can be
mixed from two moments if both layers are written in between, an `unset` can put back
a broken layer that was repaired under it, and two inits at a time can register a
directory and one around it.

**Reports** and **Diagnostics** put readers beside `Workflow` and `Session`. Readers
change nothing, so one of each kind stands for all of them, and the first theorem of
both is that the specification below still holds. `Reports` has the line of
`atcode status` (the workflow from `current()`, then, unlocked, `handoff.json`) and
doctor's check of the workflow (`Examine`, one step because it holds the lock); `cut`
remembers a death between two files. `Diagnostics` has doctor's comparison of
`state.json`, tmux and configuration as three unlocked reads; `calm` remembers whether
anybody was at work meanwhile.

## Runs

| Run | Instance | Shows |
|---|---|---|
| `safety` | 2 processes, 2 bodies, panes, all commands, 3 transfers, focus moves between pm and another pane, the developer's pane may die | types and lock; `ReadsStayCurrent`, `PendingIsNew`, `KeepsPending`, `TypesOnlyPending`, `AdvancesByDelivery` |
| `rounds` | 1 process at a time and two readers, windows, 5 transfers | `ImplementsRelay`, `RelayHistory`, `DeliveredIsApplied`, `TargetHasHandoff`, `TurnHasHandoff`, `PendingRetriable`, `LineNotBehind`, `DoctorFindsCut` |
| `lock_granted` | 2 processes, another project on the server, fairness | `LockHasWorker`, `LockIsGranted` |
| `session` | 2 processes, a rival and a doctor, both layouts | types and lock; `ImplementsTeam`, `OnePaneEach`, `RollsBackNoPeer`, `NoPartialSession`, `CacheIsCurrent`, `WarnsWithReason` |
| `scrollback` | a developer's pane, screens of up to 5 lines, one-line bodies, two widths | `ScanAgrees`, `ReadsNextBlock`, `OwnWords`, `NeverTakenTwice` |
| `home` | 2 processes, a directory and a git work tree inside it, two keys, two hand-written layers | `ConfigLoads`, `ChangesOneKey`, `ShowsEffective`, `FoundStays`, `RegistersNew` |

The bounds and why they are enough:

- **Two processes.** The lock lets one be inside; a second one is the one that
  waits, asks to confirm, or comes in after a crash. The proofs remove this bound.
- **Three transfers** reach every role as source once and let every stale file meet
  a later turn. **Five** are the fewest that hold a rejection, a second PM handoff
  and a second review, which is where rounds and digests can go wrong. `MaxTransfers`
  only stops new `next` commands (`IdsLeft`).
- **Two bodies** tell "same text again" from "another text"; with one, the digest
  check would refuse every second handoff of the pm and of the developer. Bodies and processes are
  symmetric and only used through equality.
- `UserPanes` and `FragilePanes` bound where the user looks and whose pane dies.
  The runs choose the focus on and off the turn, and the pane of a target.
- `lock_granted` needs one transfer: the lock is passed on the same way afterwards.
  It uses no symmetry, which would not be sound for liveness.
- In `Reports`, `Followed = {3}`: the status line of the third transfer is followed to its end, two
  transfers and any resets later. Its theorem is about every line.
- In `Diagnostics`, `Followed = {None, "running"}`: doctor's comparison is followed when it starts from no
  `state.json` or from a running session; "stopped" and "degraded" go the same way.
  Its theorem is about every status.
- **Five lines** hold a whole block with a line before it, or a cut block, and one
  character class each of what the parser tells apart: markers, a STATUS line, a text,
  a text that a narrow pane breaks. The scan is compared with a left-to-right reading
  of the regular expression on every such screen.
- **Two nested directories** are the fewest with a deepest match; one of them is
  configured (`Configured`), so that a project layer lies over the global one.
  `Commands` sets one key, the users write another: a command that touched a second
  key, or a layer that lost one, would show. `HandWritten` has a sound layer of the
  first version and one that does not load.

Every action and disjunct is taken in one of these runs, and for each property there
is a mutant of a definition, next to it in its module and named in `PROJECT.json`,
with which the run fails.

**Fairness.** `WF(LockedStep(p))`: the kernel runs a process that holds the lock,
and its tmux calls end after 15 s at the latest. `SF(Acquire(p))`: `flock` is a
blocking call with a queue, so a waiter is not passed over for ever although the
lock is taken again and again. Nothing is assumed of users (the answer to `--fresh`
may never come), of agents, or of new commands.

### What the documents say and the code does not do

Six runs expect a violation; each checks one sentence of the documentation.

| Run | Sentence | What TLC shows |
|---|---|---|
| `fresh_while_running` | "Stop the project session before using --fresh." (`cli.py:169`) | the session is looked for before the question and without the lock; one started meanwhile loses its workflow |
| `fresh_interrupted` | the next `atcode next` retries the pending transfer (phase 2 design, line 258) | `reset` dies between its two files; the pending handoff left behind is refused by every `next` |
| `shared_buffer` | several projects at once (`README.md:85`); exactly the next role (phase 2, line 518) | tmux buffers belong to the server, locks to the project: the wrong text is pasted and recorded as delivered |
| `windows_next` | next in a shell uses the current role of the workflow (phase 2, line 169) | in the windows layout every role's pane is active in its window: three matches, refused |
| `restart_pending` | a restart restores the latest delivered handoff (`README.md:231`) | the pending handoff has overwritten it. The phase 2 design (line 274) treats a pending handoff apart (the source stays, a retry is suggested), but not what the source had been given |
| `session_rollback` | "Removes only the newly created session" (phase 1 design, line 291) | `created` is set before the creation: a session that took the name meanwhile is killed |

For three of them a property that holds says how far the damage goes, and is proved:
a pending handoff is refused only between the two files of a reset or after a death
there (`PendingRetriable`, beside `fresh_interrupted`); a restart fails to give the role
its transfer only while that role's own handoff is pending (`TurnHasHandoff`, beside
`restart_pending`); and the session that a rollback wrongly takes away is a rival's,
never that of another process of the installation (`RollsBackNoPeer`, beside
`session_rollback`).

Three further differences have no run. The phase 2 design (line 262) lists `start` and
`doctor` among the commands that recover the workflow after a crash, but `start` with
a live session and `doctor` only report. The phase 1 design (line 301) calls a
session degraded when windows are missing; `sessions.py:180` also does so when only
the configured layout has changed. The phase 2 design (line 142) says that only the
latest complete region is used and no conversation outside it is relayed; with an
opening marker left open above it, the region the code takes begins at that marker, and
what lies between is refused with the block or relayed with it.

## Theorems

`tlapm` checks every proof to its leaves. They assume the constants' assumptions
stated in the modules (sets of the right kind, and a `None` that is in none of them)
and nothing about their size; `TargetHasHandoffTheorem`, `TypesOnlyPendingTheorem` and
`TurnHasHandoffTheorem` also assume `SharedServer = FALSE`, which `shared_buffer` shows to be needed.

`WorkflowProofs` goes in three layers, because none of the properties is inductive
as it stands:

1. `TypeInv` = `TypeOK` and `CallInv`: a process past `lock` holds the lock, knows its
   call, and has the local values its step uses. Only with it does "one process at a
   time" become a fact about the files.
2. `FileInv` adds what the two files say about each other (`HandoffInv`, `PendingInv`,
   `PendingIsNew`, `DeliveredIsApplied`) and what a process between two of its steps
   knows of them (`StepOK`): after `Reconcile` the local workflow is the file, from
   `Load` to `Mark` the file is pending and is the local handoff, between `Wipe` and
   `Unlink` the workflow is initial, and so on. A crash is then a step that
   drops a `StepOK`, and the file half has to stand alone: that is why `PendingInv`
   admits the initial workflow. `ReadsStayCurrent`, `DeliveredIsApplied`,
   `PendingIsNew`, `AdvancesByDelivery` and `KeepsPending` follow.
   The refinement follows too: under `state <- reconcile_state(workflow, handoff)`
   `Mark` is `Accept`, `Wipe` is `Forget` or `ForgetAllButLast`, `Unlink` is `Forget`,
   and every other step leaves `state` alone (`AdvanceWorkflow`, `Reconcile` and
   `Launch` do because reconciling is idempotent).
3. `PaneInv` adds `TargetHasHandoff` and, per process, what it has put in the buffer
   and the target's input line (`TypingOK`).

`LockHasWorkerTheorem` needs the first layer only. It is the safety half of
`LockIsGranted`: every step under the lock goes to another step under the lock or gives
it up.

`RelayHistoryTheorem` is an argument about the abstract relay's steps only; the
refinement supplies them.

`ReportsProofs` needs two facts that `FileInv` lacks: without a handoff file there was
no transfer (`NoFileInv`), and the workflow stays at or past the line until a reset
(`LineInv`, from `AdvancesByDelivery`). `CutInv` says that a delivered handoff the
workflow does not know is in somebody's hands or was cut; the lock rules out the first
when doctor looks. `TurnHasHandoff` is `NoFileInv`, `DeliveredIsApplied` and
`TargetHasHandoff` together. `PendingRetriable` needs `RetryInv`: a pending handoff that
is not the next transfer of the turn lies between a `Wipe` and its `Unlink`, or a
process died there and nobody has written since; the writes that could break it are
those `StepOK` rules out. `DiagnosticsProofs` carries `CacheIsCurrent` through doctor's three
reads: while it is calm, what it has read is still so (`Remembers`).

`ScrollbackProofs` is about positions: the end marker of the last block, and the first
opening marker behind the end marker before it, stay where they are when lines are
added, and move together when the history cuts. `ScanAgrees` compares that definition
with the recursive scan of the regular expression. No induction is used: the closed form
`Found` (the first opening marker still open, and the last block so far) satisfies the
scan's recursion line by line (`FoundAppend`), so the scan's function exists and
satisfies it too, and the least line at which the two could differ does not exist.
`ReadsNextBlock` is two facts: with nothing open above it, a block is found from its
first line to its last (`BlockIsRead`), and after a block nothing is open
(`CloseEnds`), nor does cutting lines from the top open anything (`TailOpensNothing`).
`OwnWords` needs the invariant `SettledInv`: no marker is open at a settled line
(`Sheltered`), which lines printed below and lines cut above leave true, so no block
that ends further down can begin above it. `NeverTakenTwice` needs one too:
while the block last taken is on the screen unchanged, either it is still the one
`next` finds, and then its digest is the last one, or a later one is.

`HomeProofs` rests on what single steps do: a loading layer stays loading under
`Changed` and `Merged` is `EffectiveOf` key by key. `ConfigLoads` needs to know that
what a process is about to write loads or comes from a broken layer; `ShowsEffective`
that a half-read configuration is the global half of one in force, as long as nobody
has written; `FoundStays` that the deepest of some nested roots is unique.

`SessionProofs` uses the same shape in one layer: `OpInv` (a status call never
builds or kills), `PartialInv` (an incomplete, undamaged session is in the hands of
a process that builds or rolls back), `CacheInv` with `CacheStepOK` per process
(until a call changes the session the file is right; a creation starts from a file
that says stopped; what is about to be recorded is right).

The refinement of `Team` needs `OwnInv`: the session that exists while a process builds
or rolls back is its own or a rival's (and a rival's if it was there before
`new-session`); its own has at most one pane of each role, none of a role still to come
(`ToCome`), and if it was damaged it lacks a role that was added, so a verified session
is undamaged. Under the mapping `Verify` is `Built`, a death or a failed rollback is
`LeftBehind`, and on a rival's session an addition is `Grafted`. `RollsBackNoPeer` is
the first part of `OwnInv`; `OnePaneEach` is proved of the abstract `Team` and comes
down through the refinement.

Only model-checked: `LockIsGranted` (liveness under fairness is beyond the prover)
and the six violations. Every other property of a passing run is a theorem.

## Not modelled

- The key binding (`install_next_action` looks for one and then binds: a binding the
  user makes in that moment is overwritten, and nothing else reads it), `attach`,
  `list` and `display-message`.
- The checks of `doctor` that no other process can disturb: python, platform, tmux
  version, adapters, prompts, directories. They are pure reads.
- Timestamps (`createdAt` may differ between two concurrent inits), wording, prompt
  text, error codes and exit codes, adapters' command lines, ports, installer.
- Corrupt JSON and files of other schema versions. The readers reject them: one
  `project.json` that does not parse makes every command that lists the projects fail.
  Layers that parse and do not load are in `Home`.
- Directories that vanish or move after their registration.
- A marker that a pane is too narrow for: the parser then finds no block.
- SHA-256 collisions, of digests and of project ids.
- Effects of a tmux command that arrive after its timeout.

## Plan

1. *Relay* (done): `Handoffs`, `Relay`, `Workflow`, the refinement and the proofs.
2. *Session* (done): `Session`, the abstract `Team`, the refinement and the proofs.
3. *Capture* (done): `Scrollback` and its proofs.
4. *Home* (done): `Home` and its proofs.
5. *Readers* (done): `Reports` over the relay, `Diagnostics` over the session.
6. Next: what a retried `next` must reach under a session that stays up (liveness of
   a delivery); the composition of two projects under a buffer per project; the key
   binding as part of the server's state.
