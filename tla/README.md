# cathook in TLA+

This directory holds TLA+ models of the parts of cathook in which several things
happen at once or one after the other in an order nobody chose: the shared memory
that the bots of one machine talk through, their common memory of who betrayed them,
the election of the bot that leaves a match, the navigation engine with its caches
and the bot that shares it among its jobs, the tick counters, and the settings file that
all bots write. TLC checks the models on
small instances; TLAPS proves some of the results for every value of the constants.
`PROJECT.json` lists the components, the runs, the mutants, which lines every
definition translates, the findings, the hazards and the theorems. Paths below are
relative to the repository.

To check one run: `tlc -config MCIpcRing_safety.cfg MCIpcRing.tla`. To check the
proofs: `tlapm M.tla` for each module `M` whose name ends in `Proofs`.

## 1. Inventory

cathook is a library loaded into the game client. Almost all of it runs on the
game's main thread, inside the game's own calls: *Paint* (every frame),
*CreateMove* (every tick), *LevelInit*, the handlers of game events, and console
commands. Concurrency proper is between *processes*: each bot is a client of its
own, and the bots share one segment of memory and one directory of settings.

| Component (source) | State it keeps | Operations | Talks to | What is hard |
|---|---|---|---|---|
| **IPC command ring** (`external/simple-ipc/include/SimpleIPC/ipcb.hpp`, `src/ipc.cpp`, the poll in `src/hack.cpp`) | `mutex`, `command_count`, `commands[]` in shared memory; `last_command` of each peer | `SendMessage`, `HasCommands`, `ProcessCommands`, joining and leaving, `ipc_fix_deadlock` | every bot; the handlers push on the command stack | readers take no lock; the ring overwrites; the mutex is not robust |
| **IPC peer table** (same files) | `peer_data[]` (`free`, `pid`, `heartbeat`), the name of the segment, `client_id`, `is_manager` | `Connect`, `~Peer`, the heartbeat thread, `SweepDead`, `ipc_connect`'s second attempt | the ring, AutoParty, CatBot, the external server | start-up races, killed processes, the full table, an exception under a lock |
| **Commands between bots** (`src/hack.cpp`, `src/ipc.cpp`) | `command_stack` | `ExecuteCommand`, `ipc_exec`, `ipc_exec_all`, the pop in `PumpEngine` | the engine's console | a stack, so commands run newest first; commands that send commands |
| **Betrayal and player list** (`src/PlayerTools.cpp`, `src/playerlist.cpp`) | `betrayal_list`, `playerlist::data` | `onKilledBy`, `shouldTargetSteamId`, `ChangeState`, `pl_mark_betrayal`, `pt_forgive_all` | aiming, IPC, AutoParty | a distributed count with late and repeated messages |
| **NavEngine** (`src/navparser.cpp`) | the `Map` (`vischeck_cache`, `free_blacklist`, the path finder's cache), `crumbs`, the current job | `navTo`, `abandonPath`, `cancelPath`, `CreateMove`, `LevelInit` | NavBot, FollowBot, AutoHeal, CatBot | four caches over one another; failures that repeat calls |
| **CatBot** (`src/hacks/CatBot.cpp`) | `waiting_for_quit_bool`, its timer, `ipc_blacklist` | the election of the bot that leaves a full match | peer table, player list | an election without messages, from three copies of who is there |
| **Tick shifting** (`src/hacks/Tickbase.cpp`, `Warp.cpp`) | `shifted_ticks`, `shifted_goal`, the modes and requests, `chokedcommands` | the hook of `CL_Move`, `CreateMove` inside it | the engine, the server's limit | counters changed by the loop that they bound |
| **Settings** (`src/settings/*`, `include/settings/*`) | values, callbacks, the file | `saveTo`, `loadFrom`, `writeEscaped`, `cat set` with autosave, callbacks | all | does the reader undo the writer; several bots on one file; a failure half way; order of callback and assignment |
| **AutoParty, AutoJoin, matchmaking** (`src/hacks/AutoParty.cpp`, `src/hacks/AutoJoin.cpp`, `src/tfmm.cpp`) | list of party hosts, timers | `find_party`, leave, lock, queue | peer table, the game coordinator | stale slots, order of commands, timers |
| **NavBot** (`src/hacks/NavBot.cpp`) | the target and the timers of each job; the timers that all supplies share | eleven jobs, tried in every tick in one order | NavEngine | jobs that share one engine, one cooldown and one flag |
| **FollowBot, AutoHeal, Walkbot** | targets, cooldowns | choice of a target | NavEngine | geometry |
| **Event callbacks** (`src/hooks/HookTools.cpp`) | a sorted vector per event | `Register`, `Unregister`, `run` | all | a vector that changes while it is walked |
| **Start, detach, shutdown** (`src/core/entry.cpp`, `src/hack.cpp`) | `mutex_quit`, the hooks | `Initialize`, `Shutdown`, `detach` | the game's threads | two threads, no lock |
| **Vote logger, chat, Nullnexus, Discord, objectives** | small | one handler for each message | player list | timers |
| **Entity cache, local player, player resource** | copies of the game's entities | refreshed every tick | all | |
| **Aiming, prediction, backtrack, crits; drawing, menu, ESP; hooks, netvars; vendored code** | | | | geometry, output, binding to the game's binary |

What makes the modelled ones correct:

- *Ring*: one writer at a time; the ring holds the newest commands, also after a writer
  died; what the handlers are given moves on and is for their peer; the newest
  command is not lost; a poller catches up. In one sentence: it is a log that each peer
  reads on from where it joined.
- *Peer table*: no two peers with one `client_id`; whoever makes a segment undoes nothing
  of those who are in it already; slots of killed peers come back; a peer that lost its
  slot to a sweep gets it back.
- *Betrayal*: hearsay never turns a bot; one warning for one betrayal; the commands
  about it end; a friend stays a friend.
- *NavEngine*: no path goes on over what is marked stuck or blacklisted, whatever is cached;
  a path that is left is found again, for the same job, if there is a way; a job that
  has no path does not hold its priority for good.
- *NavBot*: what is needed most is fetched first and in the end, whatever other searches
  fail; no job costs another one above it its path; who is turned back from metal goes
  there again; what is no longer needed is let go.
- *Election*: a surplus of bots ends, whoever was killed or refuses to leave; no more
  bots leave than have to; a bot gives up on the one that it waited for.
- *Tick shifting*: the counters are within
  their bounds whenever control goes back to the engine; the kinds of shift do not mix;
  a shift comes to its end.
- *Settings*: what was written is read back; one setting never gets a part of
  another's text, whatever is in the values and wherever the file ends; bots with the same
  settings may save them at once.

## 2. Modules

| Module | Models | Extends |
|---|---|---|
| `CommandLog` | what the ring promises: a log | |
| `IpcRing` | the command ring, one step for each access to shared memory that others can see; `ImplementsLog` | instantiates `CommandLog` |
| `MCIpcRing` | two peers, ring of two or three slots, symmetry | `IpcRing` |
| `IpcRingProofs` | types, the mutex and the ring, the order of what is handed over; the ring implements the log; who gets which text; the newest command | `IpcRing`, `TLAPS` |
| `IpcPeers` | start, slots, heartbeats and sweep of the peer table | |
| `MCIpcPeers` | three deployments | `IpcPeers` |
| `IpcPeersProofs` | segments and slots | `IpcPeers`, `TLAPS` |
| `PathEngine` | what the navigation engine is to the bots: one job, with or without a path | |
| `NavEngine` | the Map and the engine, one action for each handler the game calls; `ImplementsEngine` | instantiates `PathEngine` |
| `MCNavEngine` | meshes of three areas | `NavEngine` |
| `NavEngineProofs` | the engine implements its promise; types, marks, blacklist, and what `abandonPath` finds | `NavEngine`, `TLAPS` |
| `NavBot` | the jobs of the bot, on top of the engine's promise | `PathEngine` |
| `MCNavBot` | the list of priorities | `NavBot` |
| `NavBotProofs` | what a tick leaves of a path | `NavBot`, `TLAPS` |
| `Betrayal` | the betrayal count, on top of the ring and the command stack | |
| `MCBetrayal` | the states that the program learns by itself | `Betrayal` |
| `BetrayalProofs` | the proofs about the count | `Betrayal`, `TLAPS` |
| `QuitElection` | the bots of a match and which of them leaves | |
| `MCQuitElection` | three bots | `QuitElection` |
| `QuitElectionProofs` | the proofs about the election | `QuitElection`, `TLAPS` |
| `Tickbase` | the hook of `CL_Move`, one step for each tick that is run | |
| `MCTickbase` | shifts of up to four ticks | `Tickbase` |
| `TickbaseProofs` | the proofs about the counters | `Tickbase`, `TLAPS` |
| `SettingsFile` | the file of settings, its writers and its reader | |
| `MCSettingsFile` | two bots, three settings, texts of every kind | `SettingsFile` |
| `SettingsFileProofs` | what the writers leave, and what the reader makes of a part of it | `SettingsFile`, `TLAPS` |

A definition with a suffix (`SendFill_NumberFirst`, `FindPath_NoPurge`, ...) is a
mutant: the definition without the suffix, with a bug someone might well have made.
None of them is used by a specification; each is there to show that one property of
one run notices it.

### CommandLog and IpcRing

Peers are named by their slot. Each has one program counter, because `SendMessage`,
`ProcessCommands`, `Connect` and `~Peer` all run on its game thread.

| In the model | In the code |
|---|---|
| `mutex`, `command_count`, `commands` | the fields of `IPCMemory` |
| `last_command`, `pc`, `cmd`, `target`, `scan` | the members and locals of a peer |
| `SendMessage`, `SendCount`, `SendFill`, `SendPublish` | lock and test; `++command_count`; the text; header, number and unlock |
| `SendAlloc` | the path of a command of 63 characters or more, through the shared pool |
| `ProcessCommands`, `ScanSkip/Take/Check/Handle/End` | the unlocked loop over the slots |
| `ConnectSlot`, `ConnectCursor`, `Disconnect` | what the ring sees of `Connect` and `~Peer` |
| `Crash`, `fix_deadlock` | a killed game; the command `ipc_fix_deadlock` |
| `joined`, `posted`, `lost`, `handled` | history, for the properties only |

The text of a command (`cmd_data`) is the number it was posted under: enough to see
whether a handler got another text than the one it was called for. A handler is given
a reference into the ring, so `handled` logs the number that the scan had taken
(`called`) and the text that is in the slot when the handler runs. When the slot is
overwritten between `ScanTake` and `ScanHandle` the text is that of a later command, which
the handler may be given once more when the scan comes to its number. What can be relied
on is `HandlersMoveOn`: the numbers of the calls grow, and the text is that of the
number or of a later command that shares its slot, never of an earlier one. The text is
written in one step; that it is copied byte by byte, so that a reader may see half of it,
is not modelled.

`Faults` selects what may go wrong: "crash" and "payload" kill a sender, "rescue" is
`ipc_fix_deadlock` run when the owner of the mutex is dead, and "unlock" the same run at
any time, which takes the mutex from a live process as well. `lost` are the numbers whose
writer died before it published them.

`CommandLog` is the promise without ring, mutex and scan. A peer posts, joins at the
end, goes on to a newer command (`Advance`, which may pass over some: the scan does) and
then decides about it: `Give` or `Skip`, and for a command among the newest `Window`
this decision is the right one. `IpcRing!ImplementsLog` maps the log to `posted`,
the readers to the peers that are connected, the cursor to `last_command`, the peers that
are due to those at `check` or `handle`, and what was given to the calls in `handled` that
found the text of their number. It holds while nobody takes the mutex from a live
process.

### IpcPeers

Segments are numbered in order of creation: `shm_unlink` removes a name, not a
segment, so several may be in use. `phase` is how far a segment is: named, sized
(zeroes), cleared; `setup` is how many of its slots have been made free since. A process
goes through `Open` / `OpenFails` / `Remove` / `Create` / `Truncate`, as the maker of a
segment through `InitManager` (the memset, which covers the mutex), `InitSlot` (once for
each slot) and `InitPool`, all without the mutex and with others at work in the same
segment, then through `Lock` / `TakeSlot` / `StorePeerData` / `Unlock`; a full table goes to
`NoSlot`, the exception, and to `unwind`, where `~Peer` waits for the mutex. The heartbeat thread is a counter of its own
(`HeartbeatCheck`, `HeartbeatWrite`). Time is `GrowStale`: a heartbeat may become ten
seconds old whenever its owner is not about to write it. The server is outside the
repository; what it calls, the constructor of a manager and `SweepDead`, is in
`ipcb.hpp`. Ghost peers take no slot and are left out.

`Deployments` are the ways to run it: *Cold* (no server; the bots make the segment,
and somebody forces mutexes), *Plain* (a server, killed bots) and *Swept* (a server that
sweeps, killed bots).

The table has no simple rule that whoever touches it has the mutex: the maker of a segment
and the heartbeat threads do not. `AttachedSetUp` says why the first is harmless. The
memset makes every slot one that is *not* free, so nobody finds a slot before the
loop has passed it, and the loop passes each once. What the memset does to a mutex that
somebody has already locked is not: two searches may then be in the table at once and take
one slot, which is why `SlotExclusive` is stated for deployments with a server.
`SweptHeals` is about the second: a sweep may find the heartbeat of the last owner in the
slot of a live peer and free it, and the heartbeat thread takes it back.

### NavEngine

The game thread alone touches the engine, so a handler is one action; what
interleaves is the handlers, and the world. The state of the code is one record,
`nav`; a function of the code that changes it is an operator from a record to the set
of records it may leave, so that `CreateMove` is the composition of
`ensureMapLoaded`, `vischeckPath`, `checkBlacklist`, `followCrumbs`,
`updateStuckTime` and `updateIgnores`, with the calls of `abandonPath` and `navTo`
they make.

| In the model | In the code |
|---|---|
| `nav.vis[<<a, b>>]` | `vischeck_cache`: not tested, passed, failed, or marked stuck |
| `nav.known` | what the path finder remembers of the neighbours of each area |
| `nav.blacklist`, `blocked`, `sized` | `free_blacklist`, `free_blacklist_blocked`, the size it had at the last update |
| `nav.crumbs`, `last`, `goal` | `crumbs`, `last_crumb`, the area of the destination that the last crumb stands for |
| `nav.priority`, `local`, `repath`, `destination` | the current job and what `abandonPath` repeats |
| `nav.failed` | the destination whose 500 ms cooldown runs; `CooldownEnds` is its end |
| `nav.level`, `dirty` | the level of the Map; that a level was entered |
| `game`, `level`, `pos`, `jumped`, `closed` | the world |

Abstracted: geometry (a position is an area, a crumb is the area it leads to, a
cost is nothing: any route may be the cheapest, and the path finder may have asked for
the neighbours of any set of areas that it could have come through); what makes
enemies and sentries blacklist an area (any subset of `Dangers`); the minutes
until an entry expires (any entry may). MicroPather is external: `Routes`,
`Follows`, `RoutesFrom` and `Solve` say what it is used for, a search that remembers
neighbours until it is reset. Left out: `nav_debug_blacklist`, drawing, jumping and
aiming, `path_during_setup`, and the detection of a player who runs to and fro, which
is one more cause of a mark that `updateStuckTime` makes anyway.

`vischeckPath` tests pairs of crumbs. A pair in two areas fails at a closed door; a pair
within one area (from where the player stands to a centre) may fail there too, and then
the mark is on the area itself, `<<a, a>>`: `inner` is which of the two a closed door does.

What a path may not touch is said from its first crumb on (`Crossings`, `ObeysBlacklist`).
When there is no way from the player's own area, or it is marked itself, `navTo` starts
from another one nearby and looks up neither marks nor blacklist for it (`OtherStarts`); so
the first leg may lead into an area that the rest of a path would avoid.

`Supplies` are the priorities of the jobs that end at a dispenser: there NavBot assigns
`current_priority` from outside (`SetPriority`).

`PathEngine` is what is left of all this for who calls it: a priority, and whether there
is a path. A call of `navTo` either fails or takes the place of a job that is not above
it (`Started`); in a tick a path goes on, ends and leaves its priority for one more
tick, or is given up with it, and a job without a path ends (`Ticked`).
`NavEngine!ImplementsEngine` maps it to `nav.priority` and `nav.crumbs # <<>>`.

### NavBot

NavBot never sees the mesh, so it is modelled over `PathEngine`: the two compose by the
refinement. In a frame `NavEngine`'s `CreateMove` is an early handler and NavBot's the
last (`turn`); FollowBot's falls between them: unless the path is of a higher priority, it asks for
one of its own, or cancels the one there is as soon as it follows on foot, finds nobody or
is dead (`FollowBot`). A job is an operator from the engine
and the bot's own state to the results it may have: *busy* or not, and what it leaves.
`Tick` tries the jobs in their order (`Try`) and stops at the first busy one.

| In the model | In the code |
|---|---|
| `engine` | `navparser::NavEngine::current_priority`, `isPathing()` |
| `bot.cooldown`, `repath`, `lock`, `force` | `supply_cooldown_timer`, `supply_repath_timer`, `sticky_supply_lock_timer`, `supply_was_force` |
| `RunSupply`, `Remembered`, `Fetch`, `GetSupply`, `GetDispenser`, `GiveUp` | `RunSupply` and `GetSupply`, called for health at two priorities, for ammunition, and by the engineer for metal |
| `ShouldSearchHealth`, `NeedsHealth`, `ShouldSearchAmmo` | the thresholds of 64, 80, 90 and 92 %, as `Levels`; `Clips` |
| `MeleeAttack`, ..., `DoRoam` | the other jobs |
| `Jobs`, `Tick` | the order in `CreateMove` |
| `CreateMoveDisabled`, `CreateMoveNotReady` | its early returns |
| `reached` | which supplies there is a way to, when nobody above has a path |

Chosen freely: whatever is measured (distances, visibility, targets, spots), whether
the timer of a single job has run out, how often the engineer has tried a spot, whether
there is a dispenser that was seen lately. `fair` also stands for a player below 64 %
who is being healed. `defend_while_patrolling` is off. The cooldown tells a restart in
the current tick from an older one, because only the latter can run out before the next
tick. The properties that speak of the next tick quantify over the results of `Tick`.

`MetalTripKept` says how far the engineer's way to metal is safe from the search for
ammunition in the same tick. `supply_was_force` says who asked for the path, and a failed
search for health clears it, but locks the supplies as well. As long as one of the two
lasts the path is kept; after that the search for ammunition cancels it, and
the engineer's own search, if the tick comes so far, finds it again and sets the flag.

### Betrayal

One player is followed by all bots. `state` and `betrayals` are what each bot holds of
him; `inbox` is what the ring holds for it, `stack` its command stack. The actions are
`onKilledBy`, `PumpEngine` (poll, then one pop and what the engine does with it),
`ChangeState` and `pl_add_id`, and `pt_forgive_all`. The ring is taken for what
`IpcRing` shows of it: commands reach the peers other than their sender in order of their
numbers, but a scan that begins in the middle of the numbering passes over older ones,
at most all but the newest of all, which may be the bot's own (`ring_every_command`). So a poll hands over any suffix of what
is under way (`Polled`), and the rest is lost; nothing is claimed about all bots being
told. A poll is one step: that posts land during a scan, which may then also pass over a
command in the middle, is left to `IpcRing`. `ShouldTarget` is with "ignore cathook users" on.

### QuitElection

Time is counted in seconds. `update` of `CatBot.cpp` acts once in each
(`timer_abandon`), in the model after all running games in a match have had theirs
(`ran`, `Second`); the order within a second is free.

| In the model | In the code |
|---|---|
| `slot`, `occupant` | `ipc::peer->client_id`; the `friendid` that each slot of the shared memory carries |
| `listed` | the accounts that the player list of a bot holds as IPC or TEXTMODE; it forgets one only for the party or a friend |
| `friends` | those it holds as PARTY or FRIEND, which `UpdatePlayerlist` does not make bots again |
| `place`, `age` | where the server has the player; `level_init_timer`; how long a bot is on its way out |
| `waiting`, `waited`, `blacklist` | `waiting_for_quit_bool`, `waiting_for_quit_timer`, `ipc_blacklist` |
| `stubborn` | the bots with `requeue_without_abandon`, which never leave |
| `Update` | count, lower slots, leave, wait or give up, the reset below the limit |
| `Befriend` | `friend_party`, or the user: `ChangeState` to PARTY or FRIEND |
| `LevelInit`, `Kick`, `Crash`, `Vanish`, `Connect`, `Sweep` | the match and the table around it |
| `awaited`, `gaveUp` | history |

Assumed, and said in the module: a bot that has left is gone before the warm-up of a
new level is over (`Lag < WarmUp`), a slot is swept only when its account is
not on its way out (ten seconds without a heartbeat, against the few that a player
remains visible), and a game that starts again joins the table when the server has
dropped its old player.

### Tickbase

One action is one tick that is run: `RunTick` is the call of the engine's `CL_Move`
with the `CreateMove` inside it. `pc` says where the hook is: `drain` (more kept than
the limit allows), `spend` (the loop down to the goal), `through` (the tick of a choked
command). `MoveBegin` is `PrepareShift` and `MoveManage`; `MoveKeep` the count, the clamp
and what kind of shift it will be; `MoveInactive` the calls with both features off
or outside a match. The weapon, the key and the next shot are the Booleans `ready`,
`rapid`, `attack` and `firing`. `choked` stops at the value from which on a tick is
final anyway.

### SettingsFile

`value` is what each bot holds; `disk` the characters of the one file; `lines`, `at`
and `saving` a writer between open and close. The characters are those that the writer
or the reader tells apart, one ordinary one, and the character that a hole in a file
reads as. A save is `SaveTo` (truncate), `WriteLine` (flushed by `std::endl`, at the
writer's own position), `Close`, or it ends in `DiskFull` or `Killed`. The reader is
an automaton over characters (`PushChar`, `FinishString`), applied to one after the
other by `PushAll`.
`LoadFails` is a read that stops anywhere. A file is read in one buffer, so no write
falls into a load; settings are of type string, whose conversion is the identity in
the code as well.

## 3. Runs

Every property of a passing run has a mutant that breaks it under the same
configuration.

| Run | Asks | Bounds |
|---|---|---|
| `ring_safety` | `RingHoldsLatest`, `HandlersMoveOn`, `OnlyAddressed`, `NewestHandled`, `ImplementsLog`, with killed processes, long commands, and `ipc_fix_deadlock` after them | 2 peers, 2 slots, 3 commands |
| `ring_live` | `CatchesUp`, with `ipc_fix_deadlock` run at any time | 2 peers, 2 slots, 2 commands |
| `ring_every_command` | violates `EveryCommandProcessed` | 2 peers, 3 slots, 4 commands |
| `peers` | `SlotExclusive`, `AttachedSetUp`, `OrphansReclaimed`, `SweptHeals` in all three deployments | 2 processes, 2 slots, 2 segments |
| `nav_doors` | `TypeOK`, `AvoidsStuck`, `AbandonRecovers`, `RepathKeepsJob` | 3 areas, 4 connections, 1 door, 2 jobs, 1 mark at a time |
| `nav_dangers` | `BlacklistObeyed`, `JobDropped`, `ImplementsEngine` | 3 areas in a cycle, 1 dangerous, 2 levels, 2 jobs to one place, of which one may end at a dispenser |
| `navbot` | `TypeOK`, `MetalTripKept`, `PathKept`, `HealthServed`, `AmmoServed`, `Released` | 12 priorities, 3 levels of health, 2 of ammunition, all phases |
| `betrayal` | `HearsayNeverTurns`, `WarnsOnce`, `FriendlyStays`, `StormEnds`, with polls that hand over a part | 3 bots, limit 1, 2 kills, 1 change of state |
| `quit` | `NoStampede`, `SurplusEnds`, with and without a bot that never leaves, and with parties | 3 bots, 4 slots, limit 2, 3 arrivals, 1 mishap |
| `quit_awaited` | violates `GivesUpAwaited` | 3 bots, 3 slots, limit 2, 3 arrivals |
| `tickbase` | `Settled`, `OneShift`, `GoalReturns` | shifts of 4 ticks, server limits 0, 1, 2 |
| `settings` | `RoundTrip`, `OwnLine`, `InOrder`, `Agreement` | 2 bots, 3 settings, 1 change, 2 saves, up to the first load |

Why the bounds are enough for the interesting cases:

- *Ring.* Three commands in two slots wrap the ring, so a slot is overwritten while it
  is scanned, between the test and the handler too. Three also leave two for those who post
  after one of them has died in the mutex. Whatever a third peer could do to
  one of these two the second can do, because the commands of either are for one peer
  or for all. For `EveryCommandProcessed` three slots are needed: with two, the slot
  after the newest one holds the newest but one, which a peer that joins late may miss
  as well, but with three the ring still holds several that were skipped. The proofs
  take the bounds off all safety properties.
- *Peers.* Two processes are both in any step of `Connect` at once; two segments are
  what a name that is removed and created again needs. Two slots for two processes
  are full only when slots of killed peers, or of a segment that is still being made, count;
  a Connect that then throws ends in a deadlock (section 4), and the properties except it
  (`threw`, `Abandoned`).
- *NavEngine.* Three areas are the least with two ways to one place, a long and a short
  one, of which a door or a mark may close one. A path, a repath, and a job of another
  priority in between happen within them. Walks are never longer than the number of
  areas, because a cheapest route enters no area twice. Each door may be in the way
  between two areas or within the first, and a start other than the player's own is
  tried in both runs.
  The jobs of `nav_dangers` go to one destination at two priorities, so that one may
  refuse, replace and repeat the other.
- *NavBot.* All jobs and all priorities are there, and everything that they share. Of the
  five levels of health those are visited at which a search is due, at which only the
  search of low priority is due, and at which none is; ammunition that is only low enough
  to go on (`some`) is left to the module. The longest waits are for three timers that
  run out one after the other.
- *Betrayal.* Three bots are the least for which an echo has an echo: the warning of
  one makes both others send, each to the third. With a limit of one, the first kill
  takes a count to the limit and the second beyond it; the theorems hold for any limit.
- *QuitElection.* With three bots and a limit of two, one bot too many has a bot
  with a lower and one with a higher slot beside it, and two may have to leave. The spare
  slot is for the game that was killed and comes back while its old slot still carries its
  account. The times are 13, 10 and 10 seconds in the code; what matters is their
  order and that a wait may end before, with and after a departure: warm-up 2, list
  period 1, patience 1 and lag 1 in `quit`, and 3, 2, 2, 2 in `quit_awaited`, where
  a wait must be long enough for another bot to come into it.
- *Tickbase.* A shift of four ticks (22 in the code) has a first, a last and two
  ticks between, which a limit of two cuts in half and a limit of one forbids. The
  proofs take the bound off.
- *SettingsFile.* Three settings: one with the text in question, one after it which
  it could damage, one with an ordinary text that must be in its place. The texts of the
  first are each kind of character alone and after an ordinary one, and the pairs that
  could be taken for each other. Two saves overlap; the third writer would be in the
  place of one of them. The two bots are symmetric.

`CHECK_DEADLOCK FALSE` is where the system may stop: in `MCIpcRing_safety` a killed
process stays dead and its mutex locked; in `MCIpcRing_every` the bound on commands is
reached with everybody gone; in `MCIpcPeers_all` two processes may wait for a mutex that
a third party left locked, or have used up the segments; `MCSettingsFile` is followed
up to the first load.

### Fairness

- *IpcRing.* The game loop of every peer polls each second, and a thread inside
  `SendMessage` or `Connect` goes on: weak fairness of `Poll`, `Posting` and
  `ConnectCursor` of each peer. Nobody must post, connect, leave or die. A waiting
  sender needs no fairness for what is claimed: that who *has* the mutex leaves it.
- *IpcPeers.* A thread that connects, leaves or beats goes on (weak), time passes
  (weak, `GrowStale`), a server that sweeps does so over and over. `SweepLock` is
  strongly fair: the mutex it waits for is held for moments, and the lock of the
  operating system hands it over. Game threads get weak fairness only.
- *NavEngine.* The game calls `CreateMove` in every tick: weak fairness. Nothing is
  assumed of the bots, the player or the world.
- *NavBot.* Frames go on: weak fairness of the turn, where a tick of engine or bot that
  changes nothing else counts as well. The supplies' timers run out, unless they are
  restarted (weak). Nothing is assumed of the outcome of a job: a bot that could go
  on with the same failing search for good is allowed to.
- *Betrayal.* Each bot pumps the engine in every frame and polls every second: weak
  fairness of the pump with a poll.
- *QuitElection.* Seconds pass, running games have their update, and the server drops
  who has left (weak, each). Nobody must arrive, be kicked, or be swept.
- *Tickbase.* The engine calls the hook again and again (weak, `Move`), over and over
  with the last tick of a frame, and not every tick that is let through is choked
  (both strong: neither is decided by this code). Without the last, a user who chokes
  every command would keep the goal out of reach.
- *SettingsFile* claims safety only: a save that ends early is the case of interest.

## 4. Findings

Two runs end in a violation on purpose: what a comment or a tooltip says of the code
is not what the code does.

1. `ring_every_command`: "Processes every command with command_number higher than this
   peer's last_command" (`ipcb.hpp:274`). The loop goes by slot and raises
   `last_command` as it goes; a scan that meets a newer command first skips the older
   ones behind it for good.
2. `quit_awaited`: "Waiting for that ipc id to quit, we use this timer in order to
   blacklist ipc peers which refuse to quit" (`CatBot.cpp:1218`). There is one flag and
   one timer for whichever bot is the lowest: one that has just come, or is just
   leaving, is given up for the time that another one has used.

Met while modelling and not made into runs:

- A command of 63 characters or more kills its sender inside the mutex (`cmp.hpp:131`
  takes an offset for an address), and all others block in their next post. `ring_safety`
  includes it as a fault.
- A full table: "throws runtime_error if there are no free slots" (`ipcb.hpp:186`). The
  exception is thrown with the mutex locked and unwound through a destructor that
  locks it again. It is in the model (`NoSlot`), and out of the run's bounds.
- `ipc_fix_deadlock` lets two writers in when the owner was only slow: with "unlock"
  in `Faults`, `MutualExclusion` and `RingHoldsLatest` fail, as the theorems'
  assumption says. `ring_live` shows that the system goes on nevertheless.
- `Connect` does not write a heartbeat: a sweep that comes before the new peer's first
  beat may take its slot again, after which two peers have one `client_id`
  (`SlotExclusive` is therefore stated for servers that do not sweep; `SweptHeals` says what
  becomes of the slot if nobody else takes it).
- Without a server two processes may each create a segment and be manager of it; and
  `InitManager` clears a mutex that another process may have locked, so two searches may
  take one slot (`SlotExclusive` is stated for deployments with a server, and
  `AttachedSetUp` for all). "must be locked every time you access IPCMemory" does not hold
  of `InitManager`, of the heartbeat thread or of the scan.
- A handler is given a reference into the ring (`ipcb.hpp:292`): it may find the text of a
  later command than the one it is called for, and be given that one again.
- "We want to repath on failure" (`navparser.cpp:1087`): a refused job of lower
  priority to the same destination arms the cooldown that stops the repath.
- "ensure we don't try to use a bad area" (`navparser.cpp:398`): what the path finder
  remembers may be older than the blacklist, until the next check of the path.
- "navTo" tries other starts (`navparser.cpp:974`) without a look at marks and
  blacklist: a player may be led into an area that is marked as a whole or blacklisted,
  as the first of the path (`AvoidsStuck` and `BlacklistObeyed` speak of the rest).
- `free_blacklist[&area] = SENTRY` keeps the time of a sticky that was there.
- The detection of a player who runs to and fro never fires across a repath, since
  `navTo` clears its history.
- With two bots the warning "Notify other bots" (`PlayerTools.cpp:118`) tells nobody
  but its author: what is sent is the command to tell the others.
- A mark that arrives late lowers a count that was beyond the limit, and the bot stops
  shooting who betrayed it (`pl_mark_betrayal` assigns).
- `pl_clean` restarts at `begin()` and then increments.
- "Stop movement on the extra ticks so you do not slide"
  (`data/menu/nullifiedcat/ticks.xml:36`): whether a shift is a doubletap is decided
  before its loop, and a doubletap starts inside the loop, so `in_doubletap` is never set.
- NavBot: "If we aren't getting health, get ammo" does not hold of a hurt bot with no way
  to health: the search that fails restarts the cooldown of all supplies in the tick
  in which it has run out, and ammunition is never looked for. `AmmoServed` is stated for
  bots that are not hurt. In the same way an engineer who lacks metal and finds none
  restarts it in every tick, and "Second priority should be getting health" does
  not hold of him; `HealthServed` leaves him out.
- NavBot: a failed search for health clears `supply_was_force` (`NavBot.cpp:847`) while an
  engineer is on the way to metal; once the lock of the supplies is out, the search for
  ammunition cancels that way (835), and the engineer has to look for it again.
- NavBot: a bot that stands at a dispenser takes the priority without a look at who has
  it, and the path with it (`GetSupply`).
- NavBot: `updateEnemyBlacklist` goes on to the next enemy unless dormant ones are
  wanted *and* this one is dormant, so enemies in sight are never blacklisted.
- NavBot: the count of attempts to build ("Gives us 4 1/2 seconds to build") is not
  reset when the building stands or the bot has moved to another spot.
- NavBot: who picks up the flag, or stands where nothing can be built, while it escapes,
  returns before its job is cancelled, and the path of `danger` goes on.
- Settings: the writer does not escape quotation marks, and a blank before an escaped
  character is written and read in another order; such values are outside `Safe`. A
  quotation that a value opens changes how all later settings are read. Bots with
  *different* settings that save to the file of one minute leave a mixture of both.

## 5. Proofs

The proofs use the named assumptions of the modules and, where a theorem says so, one
about the faults; a theorem names the very definition that the run checks.

### IpcRingProofs

For any number of peers, any size of the ring and any number of commands:

- `TypeCorrect`: `Spec => [](TypeOK /\ ReadsInRing)`. The type of `scan` allows one
  place beyond the ring; `ReadsInRing` says that a peer that is about to read is not
  there. It is needed for the types themselves, since the cursor takes the number of
  the slot it reads.
- `MutualExclusionHolds` and `RingHoldsLatestHolds`, both under the assumption that nobody
  takes the mutex from a live process (`"unlock" \notin Faults`; "rescue" is allowed).
  `RingHoldsLatest` speaks only of moments when nobody posts and is not inductive. The invariant is `RingInv`:
  `WritesNewest` (who is past the count works on the newest number) and
  `RingKeepsPublished` (of the last `command_buffer` numbers all are in their slots but
  the one that is being written, `Writing`, and those whose writer died, `lost`). A post overwrites the
  slot of the oldest number because two numbers in one slot are `command_buffer` apart
  (`SlotOfInjective`, by arithmetic on `%`). A sender that dies in between costs its
  own number only, and after the rescue the next one writes the next slot.
- `HandlersMoveOnHolds`, under the same assumption. That the numbers of the calls grow
  (`CallsInOrder`) is inductive with `CursorInv`: in `check` and `handle` the cursor is above
  all calls. That the text goes with them (`TextsOfCalls`) is about a slot that writers
  change between the test and the handler: `TextAhead` says that the text of a slot is
  never older than its number and belongs to that slot, so what the handler finds is the
  text of its number, or of one that is a multiple of the ring later.
- `RingImplementsLog`, under the same assumption: `ASSUME "unlock" \notin Faults PROVE Spec =>
  ImplementsLog`. The invariant `LogInv` adds to the two above what ties the slots to
  the log: `CountIsLog`, `SlotTruth` (a number in the ring is in its own slot with the
  header of its post), `WriterPosted`, `CursorBehind`, and `Decides` (who decides about
  a command looks at the slot of its number, which holds that command or a newer one,
  and handles what was for it while it is among the newest). Then each step of the
  ring is a step of the log: `PostStep`, `TakeStep`, `GiveStep`, `SkipStep`, `JoinStep`,
  `EndStep`, or hidden (`HiddenStep`).
- `OnlyAddressedHolds` and `NewestHandledHolds`, under the same assumption, from
  `DeliveryInv`: the text of a slot is never older than its number (`TextAhead`), so a
  handler that finds the text of its command was let in by the header of its command
  (`TextForReader`).

### IpcPeersProofs

For any number of processes, slots and segments:

- `TypeCorrect`, in every deployment. `Counted` is the part that the types need: a
  sweep counts at most one peer for each slot.
- `AttachedSetUpHolds`, in every deployment and with forced mutexes, from `SegInv`:
  segments are numbered as they are made (`Numbered`); a slot is free only when the loop of
  `InitManager` has passed it (`NothingFree`), and so is the slot that a process has found
  (`Placed`), but for the slot 0 that the destructor frees after a Connect that threw; whoever
  makes a segment is alone in doing so (`OneMaker`); and whoever locked one before its
  memset found nothing there and does not come out of its search (`Kept`).
- `SlotExclusiveHolds`, if nobody forces the mutex of a server (`Unforced`), from `ServerInv`: with a server there is one segment, and between lock
  and unlock its mutex is owned (`Served`); without a sweep a connected peer keeps its slot,
  and the slot that a search has found stays free until it is taken (`Held`).

### NavEngineProofs

`EngineImplements`: `Spec => ImplementsEngine`, for every mesh, all jobs, and any set of
doors, dangers and levels. The functions of the Map, down to each search of the path
finder, leave the job alone (`Kept`), so of the routes nothing matters but that they are
sequences of areas. The parts of a tick either end the job or go on with its priority,
and never give a path to a job that had none (`Goes`); `followCrumbs` then ends a job
without a path (`Ticks`). The invariant `EngineInv` says that a level which is not
loaded yet has no job: so `ensureMapLoaded`, which is called first by everything and
cancels the job of another level, finds nothing to cancel.

The second part of the module proves, for every mesh, all jobs, and any number of doors,
dangers and marks, `TypeCorrect` and the four invariants of the runs `nav_doors` and
`nav_dangers`:

- `AvoidsStuckHolds`, for the path from its first crumb on. The invariant is `Heeds`: neither the crumbs nor what the path
  finder remembers (`Within`) has a connection that is marked (`Free`). A mark may break
  it, but whatever marks a connection calls `abandonPath` next, which resets the path finder
  and drops the crumbs (`AbandonHeeds`, for any marks). `Heeds` also has that areas
  as a whole fail no tests when a path is looked for, since a door joins two areas (they
  may be marked when a walked path is tested), and that a job which repeats
  walks to where it would start again to.
- The heart is `SearchFinds`: a search changes tests and answers only (`Same`), so if a
  set of connections holds what may be taken now (`Ways`) and what is remembered, it
  holds the path that is found, whatever is purged and from whichever start. With the
  unmarked connections for this set it gives `Heeds`; with `Ways` itself, after the
  path finder was reset, `BlacklistObeyedHolds`. For the latter it also matters where the
  path begins: `FoundFrom` carries the starts that were tried (`Starts`) through the search,
  and a first crumb in the blacklist is then one of `OtherStarts`.
- `RepathKeepsJobHolds`: from `Heeds` and `AbandonFinds` (what `abandonPath` leaves has no
  crumbs, or those of its own search for the job).
- `AbandonRecoversHolds`: a path that is open in the world is followed by the path finder
  once no test is failed (`OpenFollows`); if the first search fails, either no test is
  failed, and there was no such path, or the failed ones are purged and the second search
  finds one (`FindPathSucceeds`).

### NavBotProofs

For every set of priorities that has the twelve of the list, and whatever the jobs find:
`TypeCorrect` (`Spec => []TypeOK`), `PathKeptHolds` and `MetalTripKeptHolds`.

- A tick is the last of the stages that it goes through, one for each job (`TickWithin`:
  what holds of the first stage, and of each if of the one before, holds of the tick).
- `JobLeaves` is what one job may leave, by its priority (`Rank`) and the priority of the
  path: a job that is not busy leaves the engine alone or cancels a path of its own
  (`Own`); a busy one of lower priority leaves the path, perhaps under another name.
  Each of the eleven jobs is shown to keep to it (`MeleeLeaves`, ..., `EveryJobLeaves`),
  the four that look for supplies from the cases of `RunSupply` (`RunSupplyCases`).
- `PathKept` follows, because the path of one of `Kept` is nobody's own.
- `MetalTripKept` needs that the path is not looked for again before its time and that
  either it is still known who asked for it or the supply is locked (`Trip`): the
  searches for health that come first may forget who asked, but lock when they do. That
  an engineer whose path is cancelled takes it up again is shown from the other end: a
  tick that ends with the engineer's job ends with his search for metal, which sets the
  flag (`EngineerRemembers`, `TickResumesTrip`).

### QuitElectionProofs

For any number of bots and slots, any limit and all times: `TypeCorrect`, and
`NoStampedeHolds` under `ListPeriod + Lag <= WarmUp` (10 and 13 seconds in the code, so for
bots that are gone within three; the run `quit` has 1, 1 and 2). The invariant
`LeaversSeen`: a bot on its way out has its account in a slot below that of any bot in
the match, or that bot came so late that it may not vote before the other is gone. A bot
leaves only if it lists everybody who has been there for `ListPeriod` and finds no slot
below its own; a bot that is still counted by another one therefore keeps it from leaving.
Both the property and the invariant speak of elections in which nobody was given up or made
a friend (`Undisturbed`): `DisturbedStays`, once that has happened it stays so.

### TickbaseProofs

For every size of a shift and every set of server limits: `TypeCorrect`, `SettledHolds` and `OneShiftHolds`, from `ShiftInv`. `Places` says what may be left of
a shift at each place of the hook; its heart is that in `drain` a running warp
still has ticks to spend, which is what keeps the doubletap of a tick that is let through
from meeting it.

### BetrayalProofs

For any finite set of bots, any limit, any number of kills and changes:

- `TypeCorrect`.
- `HearsayHolds`: `HearsayNeverTurns` is inductive with the types. Only a kill that is
  counted goes beyond the limit, and a count beyond the limit takes part in no
  further one, because the player is then a target.
- `WarnsOnceHolds`: needs `Warned`, that a bot which has warned (and not pardoned since)
  has a count at the limit or beyond, and that marks do not take it below.
- `FriendlyHolds`: an action property, from `FriendGivesFriend`: a friendly state gives
  way to friendly states only.

### SettingsFileProofs

For every table of settings with their defaults, all texts, any number of bots and saves:
`TypeCorrect` and the four invariants of the run `settings`. A name is one character here,
other than those that the writer or the reader treats in a way of its own
(`NamesAssumption`); the names in the code are longer and consist of such characters.

- `AgreementHolds`. The invariant is `AgreementInv`: each writer has exactly the rest of
  the text to write, behind its place (`Remaining`), and as long as nobody was cut short,
  a place of the file that does not yet hold what it should is in front of a writer
  (`Filled`). A second `open` makes all places such ones, but also puts a
  writer in front of them all.
- `RoundTripHolds`, `OwnLineHolds`, `InOrderHolds` are about one load. The state needs
  little: what a bot has after a load is what the reader had after a beginning of the
  file, with or without the value that was being read (`Loaded`, `Ending`). The rest is
  about the reader. Induction over a value gives what each escaped text does to a
  reader (`Reads`, `EscapedKeeps`, `EscapedCut` for one that is cut); `Meaning` is
  what a value is read as, and `SafeMeaning` that `Meaning(text) = text` exactly if
  `Safe(text)`. For a value without quotation marks it keeps track of whether all so far
  was read but for the blanks at the end (`ReadSoFar`) or a character has come into
  the place of another (`Displaced`), which nothing repairs. From a reader at the start
  of a line, `ReadsLine` says what a line gives and `ReadsCut` what a part of it
  gives. Induction over the names then gives the text (`TextNext`), the reader after its
  first lines (`ReadsText`) and where a part of it ends (`TextCut`).
- `InOrder` and the exact part of `RoundTrip` need readers without an open quotation
  (`Clean`); `OwnLine` does not, because within a quotation no key ends, and a key that
  starts with blanks left by a quotation is no name.

The library's induction theorems take an operator as a parameter, which the provers
cannot instantiate. `NavBotProofs` and `SettingsFileProofs` use its well-foundedness
theorem `WFMin` instead, which is about sets, for an induction over sets of numbers
(`Induction`) and from it one over sets of sequences (`SequenceInduction`). Recursive
definitions are functions within a LET, whose existence is proved (`StagesExist`,
`JoinedExists`, `PushedExists`) before their equations are used.

### Model-checked only

All liveness (`CatchesUp`, `OrphansReclaimed`, `SweptHeals`, `JobDropped`,
`HealthServed`, `AmmoServed`, `Released`, `StormEnds`, `SurplusEnds`, `GoalReturns`): the prover has no ENABLED and no fairness. All invariants,
action properties and refinements that the passing runs check are proved.

The types of `IpcRing`, `IpcPeers`, `Betrayal`, `QuitElection`, `Tickbase` and
`SettingsFile` are proved (`TypeCorrect`), so no run spends its time on them.

## 6. Not modelled, and why

The components with status `not_modelled` in `PROJECT.json`: those planned in the next
section; those whose content is arithmetic on floating-point numbers and geometry
(aiming, prediction, crits); those that only put something out (drawing, menu, chat); the
binding to the game; vendored libraries; and start and shutdown, where the hazard is
the absence of any lock and a model would only say so again. By far most of the
lines of the repository are in these: the map covers the core logic, not the volume.

Left out of the components that are modelled in part: the reader of the shared
`client_data`, `ipc_sync_all` and `ch_exec`'s own thread; the saving of the player list;
the reasons to leave a match other than its bots, and the queue after that; NavBot's
choice of weapons, its jumps and its blacklist of enemies; the movement
code of Warp; settings of other types, renamed settings and change callbacks. AutoParty
would need a model of the game coordinator, of which the repository shows little but
the calls.

## 7. Plan

Done: the ring and its promise, the peer table, the navigation engine and its promise, the
bot that uses it, the betrayal count, the election, the tick counters, the settings file;
the proofs of all their safety, and that ring and navigation engine implement their
promises.

Left, in this order:

1. Change callbacks of settings, and the event callbacks of `HookTools.cpp`.
2. `AutoParty`, with the coordinator as an external module.

The number of runs is kept small: a new component takes the place of a run that shows
a finding which an inspection confirms.
