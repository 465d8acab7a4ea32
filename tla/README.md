# A TLA+ model of shclaw

shclaw is a daemon, written in C, that runs several LLM agents for one owner.
This directory holds TLA+ modules translated from its source, the TLC
configurations that check them on small instances, and TLAPS proofs of the
properties that matter most. `PROJECT.json` maps every definition to the lines
it models and lists the runs, the hazards they are for, and what they found.

    tlc -config DispatchFaults.cfg Dispatch      # one run (module and cfg: PROJECT.json)
    tlapm DispatchProofs.tla                     # the proofs of one module

## 1. The system

One process. The **main thread** (`daemon_run`) polls IRC, a control socket and
its clients for at most a second, runs their handlers, then `dispatch`, which
starts **session threads**; every 5 s it also looks at the schedules and scans
the plugins. A session (`agent_run_session`) calls the model, runs the tools it
asks for, and ends. Sessions of different agents run at the same time; sessions
of one agent must not.

| Component | State | Operations | Talks to |
|---|---|---|---|
| Dispatcher (`daemon.c`) | trigger queue (64), per agent `busy` and `last_session_time` | enqueue, dispatch, start_session, session_worker | all below |
| Session loop (`agent.c`) | history, `session_state_t`, kept conversation | model call, run_tool, nudges, deliver_answer | provider, tools, mail, chat |
| Owner conversation (`session.c`) | ring of 20 lines, id, seq, time of the last line | chat_id, chat_render, chat_add | shared by all sessions, one lock |
| Mail (`messenger.c`) | one file per mail and recipient | send, broadcast, receive | sessions write, main thread reads |
| Schedules (`scheduler.c`) | one JSON list per agent | add, update, cancel, get_due, mark_done | sessions and main thread, one lock per agent |
| Session records (`session.c`) | one JSON file per session | create, add_message, set_status | dispatcher, sessions |
| Plugins (`plugin.c`, `tools.c`) | registry (32), failed sources, files on disk | compile, scan, execute, create_plugin | sessions and main thread |
| IRC (`irc.c`, `irc_parse.c`) | connection, registration, back-off | connect, poll, keepalive, reply | main thread reads, sessions write |
| Control socket and TUI (`sock.c`, `daemon.c`, `tui.c`) | client table (8) | accept, message, broadcast | main thread, sessions broadcast |
| Memory (`memory.c`) | append-only log, cache, facts | add, search, clear, set, get | the agent's sessions |
| Provider and HTTP (`provider.c`, `http.c`) | per thread: headers and timeout of its next request | retry, request, redirect, conversion of the history | sessions, plugin children |
| Children (`tool_exec.c`, `plugin.c`) | pipes, processes, deadlines | fork, collect, kill | sessions, several at a time |

What is hard: two atomics that are read and written one at a time by two
threads; a time read at the start of a pass and used later; mail and tasks
that are taken off the disk by one thread and worked on by another; locks that
cover single calls while the decisions span several; limits (64 queue slots, 64
remembered calls, 8 remembered recipients, 20 chat lines) that silently change
behaviour; a model that may do anything; descriptor numbers that are closed by
one handler and given out again before another runs; servers that go silent,
disks that fill up, children that outlive their output. The hazards are listed, each at its
line, in `PROJECT.json`.

What makes the parts correct: an agent runs one session at a time and rests
between two; owner messages come first and in order; no trigger disappears
unaccounted for; whoever wrote gets one answer; a history sent to a provider is
well formed; a session ends; a conversation continues while it is open, closes
when it is silent, and every line reaches each agent once; the daemon neither
leaks nor confuses descriptors, comes back to a server that answers and leaves
one that does not in peace; a tool call returns, with all its output, and leaves
nothing behind; what was remembered is there after a restart; a request carries
its own headers and no other's.

## 2. The modules

| Module | Models | State and actions |
|---|---|---|
| `AgentJobs` | the abstract promise of the dispatcher | jobs waiting, in service, gone; Arrive, Serve, Drop, Finish, Restart |
| `Dispatch` | `dispatch`, `start_session`, `session_worker`, the queue, mail receipt, due tasks, the end of the process | one action per step of the main thread between two shared accesses, and per store of a session thread |
| `DispatchProofs`, `JobProofs` | the proofs about `Dispatch` and its refinement of `AgentJobs` | |
| `AgentSession`, `MCAgentSession` | `agent_run_session` | one action per kind of reply, per way a tool call can go, and for the end |
| `PluginRegistry`, `MCPlugins` | the plugin scan, `plugin_compile` and `create_plugin` | one action per step of the main thread or a builder between two accesses to files or tables |
| `PluginProofs`, `SessionProofs`, `ChatProofs`, `LoopProofs` | the proofs about `PluginRegistry`, `AgentSession`, `OwnerChat` and `MainLoop` | |
| `CallProofs` | the proofs about `ChildProcs` and the requests of `LlmProvider` | |
| `DataProofs` | the proofs about `MemoryStore`, the conversions of `LlmProvider`, and `Mentions` | |
| `OwnerChat` | the chat log and the kept histories of all agents | one action per `chat_*` call of a session |
| `MCConversations` | `AgentSession` and `OwnerChat`, for TLC | |
| `IrcLink` | `irc.c`, `irc_lost`, `irc_maintain` | the link, what BearSSL holds, the server; connect, read a line, keep, drop |
| `TuiClients` | `sock.c`, the client table of `daemon.c`, the clients of `tui.c` and `main.c` | descriptors, table, backlog, each connection; accept, handle, broadcast, the clients' own steps |
| `MainLoop`, `MCMainLoop` | the loop of `daemon_run`, composing the two above with session threads that speak | one action per descriptor served, per pass of `irc_maintain`, per half of `irc_reply` |
| `ChildProcs` | `tool_exec_cmd`, `plugin_execute`, `compile_check`, `child_collect` | calls with their pipes, children and background jobs; one action per system call that another process can see |
| `MemoryStore` | `memory.c` | log, cache, facts; one action per operation, which holds the lock |
| `HttpClient`, `LlmProvider` | the settings and redirects of `http.c`; retries and conversions of `provider.c` | one action per request; one per turn of a conversation |
| `Mentions` | `parse_mentions` | a message that grows token by token |
| `Lists` | loops that keep some elements of a list | `Listed`, `Picked`; used by `MemoryStore`, `LlmProvider` and `Mentions` |
| `MCCalls` | `ChildProcs` and the modules after it, for TLC | |

**Dispatch.** The main thread is a program counter `at` with the two loop
indices. `agent_idle` is two steps (`QueueBusy` then `QueueSkip`/`QueueStart`,
`AgentBusy` then `AgentGap`), because it loads two atomics; a session thread
stores them in two steps (`StoreTime`, `StoreIdle`). `messenger_receive` unlinks
one file per step, under the messenger's lock, so a crash can fall between two
files. `DueStart` and `MarkDone` are two steps with the session already running
between them. Time is kept as timers since the code only uses differences:
`age` is the time since `last_session_time`, saturating at the gap; `aged` is
the outcome of the gap test for the `now_s` of the pass. A task is reduced to:
present, ticks until due, interval. A session's record is "active", "ended", or
"left": active on disk although nobody will close it, because `session_set_status`
failed (its result is ignored, `daemon.c:244` and `289`) or the process ended. `Faults`
selects what may fail: "store" (the session record cannot be created), "close" (it
cannot be closed), "start" (no memory or no thread), "read" (a
mail file that cannot be read; it is unlinked all the same), "crash" (the
process ends; `Crash` also stands for the owner's stop, which abandons the
detached sessions and frees the queue), "stall" (a session thread is not scheduled
for the whole gap between its last two stores). Variables under "History" are only read
by properties and bounds.

**AgentSession.** The model is unconstrained: every reply is any combination of
text (none, some, some that holds a plugin's code), tool calls, refusal or
failure. A tool call is a record of tool, recipient and whether its arguments
are an object that fits the schema; the code compares calls by a 64-bit hash of
exactly this. A history is its sequence of turns. `conv_fit` cuts by size in
characters; sizes are not modelled, so any number of exchanges it could drop may
go. `trim_history` shortens the text of tool results and changes no turn: it is
left out, as are session messages, logs and what is shown on IRC. `Faults`:
"memory" (allocation fails), "deliver" (a mail file cannot be written).

**OwnerChat.** The ring is modelled with its indices. A session goes through
`Open` (chat_id), `Render` (chat_render), `Start` (the owner's line), `Say` (a
relayed text) and `ChatEnd`; anything may happen in between. `given` is the set of
lines the sessions of a kept history were given or spoke themselves; the history it
leaves may hold fewer, since `conv_fit` drops old exchanges while `conv_seq` stays
(section 5). `silence` is the time since the last line, saturating. Only sessions that talk to the owner are
modelled; the others do not touch this state. A `conversation_timeout` of 0 is
not covered.

**PluginRegistry.** Files, registry and the list of failed sources, with the
main thread and the builders as processes that run the same `plugin_compile`.
Its check child and its build each read the source; the registry's lock covers
single steps, `compile_lock` a compilation, and nothing the files, which others
`Edit` and `Remove` at any moment. `Cut` is what the registry stores of a declared
name: `tool_name_valid` admits 64 characters and the entry has room for 63
(`plugin.c:451`), while `Clash` compares stored names with whole ones. Mtimes are whole seconds. `create_plugin` reads
the time, compiles, registers, writes the file (`Save`) and sets its time back
(`Stamp`): five steps a scan may fall between. `plugin_get_schemas` only reads the
registry in one critical section and is left out; `plugin_execute` is in
`ChildProcs`. A directory that cannot be opened is not modelled. `Faults`: "check" (a
text that builds fails to, for want of a process or memory), "save" (the file
cannot be written or its time not set).

**MainLoop, IrcLink, TuiClients.** `PollReady` takes the snapshot: `todo` is
the polled array in the order the loop serves it: the link and the socket when they
are ready, every client with whether it is, each with the connection that was open
there. Numbers in `desc` are given out lowest first, as the kernel
does, so that a number closed in a pass can come back in it. A frame to a client
that does not read is cut short after two seconds ("half"). The server is free to
answer, to be late, to close or to fall silent; a TLS record carries one or two
lines and is read a line at a time. Session threads speak in two steps, since
`irc_reply` tests the descriptor before `irc_sendf` takes the lock. Time passes between
two `poll()`s: one unit when nothing is ready, and up to `MaxPass` when `dispatch` or
`plugin_scan`, which may wait for several compile checks of 30 s, has kept the loop.
`floor` follows what the back-off has to be, without its cap; `asked`, `waited` and
`longest` what a silent server was given. Which nick follows one in use is left out. A
behaviour keeps to one of four budgets of faults, programs
and lines (`MCMainLoop`): together they cover what the loop can meet, apart they
keep the state space small.

**ChildProcs.** What decides is who holds the write end of a pipe: the daemon
between `pipe()` and `close()`, every child forked meanwhile, the background jobs of
a command. An "exec" child closes what it inherited; a "plugin" child does not, and
neither does the copy of the daemon that `compile_check` forks ("check": one at a time,
under `compile_lock`, a child that writes a verdict and exits).
`setpgid` is called on both sides of the fork, as in the code. `late` says that the
deadline has passed; it may pass at any moment of a collecting call.

**MemoryStore.** The file is what matters: an append that fails leaves the whole
line without its end, a beginning, or nothing, and the next append goes on from
there. `load_cache` parses the beginning of a line and ignores the rest, as
`cJSON_Parse` does. A search is the code's insertion into a bounded list (`Insert`,
`Top`), compared with what the best n of all entries are (`Best`). A key of a fact
stands for all its spellings in upper and lower case, which cJSON does not tell apart
(`memory.c:262`, `util.c:157`).

**HttpClient, LlmProvider.** A request is its headers and timeout; `do_request` is
the status it returns and the settings it uses up. `http_get` refuses a URL that does
not fit its buffer before there is a request (`UrlTooLong`). A plugin runs in a fork of
the thread, with a copy of its settings. Of the ids in a conversation the first
`ServerIds` numbers are those a server may give, as often as it likes; the code's own are
new. The conversation is a sequence of blocks;
`ToOpenai` is `append_openai_message` over it, `FromOpenai` the ids `call_openai` gives.
`MaxTurns` and `MaxCalls` bound the turns of a conversation and the calls of a reply.

**Mentions.** Tokens stand for what the scanner tells apart; `Turns` is the loop with
its `pending` index, and `MentionsRouted` says in one formula what it computes.

**How they fit.** `MainLoop` is the outside of the loop whose inside is `Dispatch`: a
MSG or PRIVMSG it handles is `OwnerMessage` there, after `Mentions`. The tools a
session runs end in `ChildProcs` and `MemoryStore`, its model calls in `LlmProvider`.
`Dispatch` sees a session as a thread that may write mail and change tasks until it
returns. `AgentSession` refines what happens in between
for one agent, with the chat reduced to "still open or not"; `OwnerChat` is that
chat for several agents, with the loop reduced to the texts it relays.

## 3. The runs

| Run | Shows | Bounds |
|---|---|---|
| `dispatch_faults` | sessions of an agent do not overlap and keep the gap; owner messages in order; mail stays on disk until the agent is free; every job waits, runs or is counted as dropped, once; an active record has its session; `Dispatch` implements `AgentJobs` | 2 agents, 3 threads, queue of 3, 2 owner messages (to one agent or all), 1 mail, schedules in every pass, records that cannot be closed, failing starts and reads, 1 crash |
| `dispatch_tasks` | no task overtakes an owner message, also when a session ends between the two loops of a pass; only tasks given to a session are marked; due tasks are served | 1 agent, 2 tasks, 2 owner messages, queue of 1, stalled threads, unsaved records, 1 crash, fairness |
| `dispatch_live` | owner messages and mail are served, also behind another session | 2 agents, queue of 1, 2 owner messages, 1 mail, fairness |
| `dispatch_reschedule` | *violated*: a task rescheduled by its own session is deleted | 1 agent, 1 task |
| `session_mail` | every requester is answered, once; in the owner's chat: ring order, each line given once, histories resumed exactly while open | 2 requesters, `sent_to` of 2, 2 turns of up to 3 calls, faults; 2 agents, ring of 2, timeout of 2 ticks, 4 lines |
| `session_owner` | histories well formed across sessions; repeats refused, stuck sessions stopped; sessions end | a hub (a plain agent while it lists no agents) or a builder; triggers from the owner and from mail; 3 turns of up to 2 calls; a call table of 2; histories of up to 4 turns kept |
| `session_ping_pong` | *violated*: a broadcast sends the requester a request | |
| `plugins` | names and files unique; equal mtimes mean equal texts; plugins leave only with their files; the registry comes to match the disk | 2 files, 2 names that are the same once cut, 1 builder, 2 texts, 2 seconds, 1 deletion, faults, fairness |
| `chat_continues` | *violated*: an answer after a long silence closes its own conversation | 1 agent |
| `main_loop` | descriptors accounted for, never served for another's; whole frames; no line stranded in the TLS buffer; back-off, keepalive and recovery of the link; dead clients leave | 3 clients for a table of 2, 4 descriptors, buffers of 1 frame, delays 1, 2, 4, a PING after 1 and a drop after 3 units, passes of up to 3; 4 budgets, at most 3 faults each; fairness |
| `calls` | children reaped once, output complete, timeouts explained, calls return; memory and facts kept, searches right; requests carry what they should; tool ids and results match; mentions routed | 2 calls at a time of any kind (one of them lively), 3 memory entries with 2 words, 2 facts; every status of a request; 3 turns of up to 2 calls; messages of up to 5 tokens over 2 agents |
| `header_kept` | *violated*: headers set for a GET with a long URL go with the next request | |

*Why the bounds are enough.* Three threads let a second session start while the
first still has its two stores to make. With two agents the middle of the queue
is removed while entries of both wait. The gap is one tick, so that it can
be over, or not, at every point of a pass; `GapKept` proves `SessionGap` for gaps
of any length. Limits of the code (64, 8, 20) are scaled to 2 or 3 so that
they are reached, exceeded and wrapped. Four chat lines wrap a ring of two
twice, and close it in between. Three faults in a row take the back-off to its
cap, which is two doublings away. A pass of three units is longer than the two
between PING and drop, so a link can be lost unasked; shorter ones show that the PING
had its time. Two calls are enough for one to inherit the
other's pipe, and memory files of three entries for a line that goes on after an
unfinished one and is followed by a good one. A server has two ids, so that it can
repeat one within a reply and across turns. Five tokens hold two mentions with
and without text between, before and behind them. In `calls` the parts share no
variable, so only one of them moves in a behaviour; so it is in `session_mail`. Every property has a mutant of the code, listed
in `PROJECT.json`, that the run rejects.

*Fairness.* `Dispatch!Fairness`: the main thread goes on (its poll has a
timeout), time passes, and each session returns, which `SessionEnds` of
`AgentSession` supports: turns are bounded, tools and requests have timeouts.
Nothing is assumed of owners, mail or crashes. `AgentSession!FairSpec` only says
that a session that has begun takes its next step. `PluginRegistry!Fairness`: the
main loop scans again and again and a builder's call goes on; nothing is assumed
of who gets `compile_lock` first. `MainLoop!FairSpec`: the main thread goes on, and a
server that is connected and not silent answers what it was asked; faults are
bounded, so a server that keeps failing is not covered by `LinkRecovers`. Clients owe
nothing. `MCCalls!Spec`: a thread that runs a tool goes on and its deadline passes;
the programs it runs owe nothing, not even to execute their shell.

## 4. What is proved

### Dispatcher

`DispatchProofs` proves, for any number of agents, threads and tasks, any faults and any
bounds (`DispatchAssumption`: the sizes are natural numbers, positive where zero
makes no sense):

- `DispatchSafe`: `TypeOK` and `DispatchInv` always hold;
- `OneSessionAtATime`, `GapKept`, `OwnerHasPriority`, `MailStaysOnDisk`: the
  properties `OneSessionPerAgent`, `SessionGap` and `MailWaitsOnDisk` of
  `dispatch_faults`, and `OwnerFirst` of `dispatch_tasks`.

None of these is inductive alone, because the main thread acts on values it
loaded several steps before. `DispatchInv` says that they are still true when it
acts: between the load of a flag and the start of a session the flag stays down
(`MainIsRight`: only the main thread raises it); a live thread is covered by a
raised flag of its agent (`FlagCoversThread`: the flag is its last store); and,
except between a session's return and its first store, the time the dispatcher
uses is never too old (`TimesAreSafe`). The proof has one step per action; the
action properties follow from the invariant and from the lemma `StartedBy`,
which says that only the three start actions create a live thread.

`JobProofs` goes on from there:

- `NoJobLost` (`JobsConserved`): every message of the owner and every mail waits, has run
  or is counted as dropped, in exactly one of these ways, and an agent takes the owner's
  messages in the order they were sent;
- `NoRecordLeftOpen` (`RecordsClosed`): a record that is active has a running session
  of its agent, and any other is closed or known to be left by a failure;
- `TasksRunFirst` (`TaskRunsBeforeItGoes`), for a daemon that can start its
  sessions (`"start" \notin Faults`; the code marks tasks of failed starts too);
- `Refinement` (`ImplementsAgentJobs`), for sessions that are not held up for a whole
  gap between their last two stores (`"stall" \notin Faults`, see section 5): every step of
  `Dispatch` is a step of `AgentJobs` or a stutter.

`JobInv` is what they rest on. That each job is in one place (`Conserved`) needs that
numbers are given out once (`Numbered`), that mail read by `messenger_receive` is
already off the disk (`ReadOnce`) and that a flag which is up belongs to a thread with
work (`FlagHasThread`). That the queue never lets a newer message of an agent overtake
an older one needs `InTurn`: an agent that `dispatch` has skipped once in a pass is
skipped by the rest of the pass, because its session still runs or because the
`now_s` of the pass is too early for it.

### Plugin registry

`PluginProofs` proves, for any files, names, builders, faults and bounds
(`PluginAssumption`): `RegistryUnique` (the property `NamesUnique`: no two plugins
share a file, or a tool name that is stored whole, and the table does not overflow),
`PluginsStay`
(`LeavesWithItsFile`) and `SameMtimeSameText` (`MtimeTellsText`). The invariant
`TableInv` adds that the table is finite, so that its cardinality can be counted;
`TableSteps` says which steps change the table, and `ReplaceKeepsTable` that the
tests in `Install` are enough. The run has too few files to fill its table; the
theorem covers the limit. For the mtimes, `TextInv` follows a text from its making
through check, build and install to the table: whatever is registered or about to
be goes back to a text that had the mtime recorded with it, though the file may
have been replaced between any two of these steps (`Origin`), and a text that a
builder has not written yet is nowhere else.

### Session loop

`SessionProofs`, for any peers, tools, table sizes and numbers of turns, whatever the
model replies: `RequestsAnswered`, `AnsweredOnce`, `RepeatsAreRefused`, `StuckSessionsStop`
and `HistoriesWellFormed` (the safety properties of `session_mail` and `session_owner`).
`HistoryChained` says where a history may end at each stage of the loop: with tool
calls only while their results are being collected, so that nothing is kept, cut
or sent in between. `AnswersKnown` ties `sent_to`, which forgets when it is full, to
the answers really sent; `RunsCounted` ties the call table, which also fills up, to
how often a call ran.

### Owner conversation

`ChatProofs`, for any number of agents, ring size and timeout: `LinesInOrder`
(`RingInOrder`), `OpenMeansResumed` (`ResumesWhileOpen`) and `EveryLineOnce`
(`ShownOnce`). `Ordered` is the arithmetic of the ring: the line in the slot of index i is the
i-th of the last n. `IdsTellLapses` says that the conversation id a session or a
kept history carries is the current one exactly when no silence came since;
`HistoriesGiven` says, for each stage of each session, which of the lines still in the
ring it and its history were given: those up to its `seq`, and its own.

### Child processes

`CallProofs`, for any number of calls at a time and any amount of output:
`CallsCleanUp` (`NoStrayProcess`), `OutputIsWhole` (`OutputComplete`) and
`CommandsDelayNoOther` (`TimeoutsExplained`), from what each stage of a call says about
its child, its group, its pipe and who can hold it.

### Main loop and link

`LoopProofs`, for any number of clients, descriptors (`ClientAssumption`: two more than
the table has room for, so that `accept` and `socket` find one), session threads and
messages, and all delays that `LinkAssumption` allows (those of the code among them):
`DescriptorsAreAccounted`, `FramesAreWhole`, `NoLineStranded`, `PolledIsServed`,
`ReconnectsSlowDown` and `AskedBeforeDropped`, which are the safety properties of
`main_loop`. `LoopInv` has a part for each:

- `TableFits` and `EndsMatch`: descriptors, table, link and backlog agree with the ends of
  the connections, each client under one number at most. `ClientMoves` lists the eight
  things a step can do to them, and `ClientStep` shows that there is no other;
- `PeersFine`: a frame that was cut short is the last one because its connection is shut
  in the same step, and `sock_send` writes nothing to a shut one;
- `SnapshotHolds`: a client still to be served is open under the number that was polled.
  It is true although `accept` runs first, since only serving a client closes it;
- `LinesInHand`, `PassEnds`: `irc_poll` reads on while BearSSL holds lines, and every
  pass ends in `irc_maintain`;
- `PingInTime`: hence a silent server is pinged in the pass in which `PingAfter` is
  exceeded, and silence, less the time since that PING, is `PingAfter` and the longest
  pass at most;
- `BackoffGrows`: the delay is at least `floor`, which starts with LostDelay and doubles
  with each connection that ends, up to the cap, and time since the last attempt and time still to wait add up to it.

### Requests

`CallProofs` proves `RequestsAreClean` (`RequestsClean`), for any room for headers
(`HttpAssumption`: the two of a provider fit), any number of redirects and any cap
on the waits: the thread's settings are fresh whenever it does not make a request,
so a plugin's fork inherits none, and a plugin's are those it set since its last
request (a GET refused for its URL is none, see section 5). `AttemptsCounted` bounds requests and waits by the attempts.

### Memory, conversions, mentions

`DataProofs`: what three algorithms on data compute, for every input. Each is a loop over
a list; its result is stated at once and shown by induction over the turns of the loop.
The prover cannot instantiate the induction theorems of its library, whose parameter is
an operator; the induction is instead the argument that a set of numbers has a least
element (`LeastOf`, from the well-foundedness of `<`), and the claim is the set of turns
at which it holds (`UpTo`). `LoopRuns` shows that a loop over a list has a result,
`ListedInOrder` that `Listed` enumerates a set of numbers in order.

- `MemoryIsKept` (`MemoryKept`), for any words, entries and results asked for, and any
  failed append or restart. `InsertKeepsBest`: if a list holds the best n of the entries
  seen so far, then so it does after `Insert` of the next older one; hence
  `SearchReturnsBest`. The rest is the invariant `MemInv`: entry numbers grow along the
  log, what was remembered begins a line or is `hurt`, the facts are those saved;
- `ServersAcceptTheHistory` (`TranslationWellFormed`), for any number of turns and calls.
  The translation of a longer history is that of the shorter one followed by that of
  the turn (`ToOpenaiConcat`), a turn is well formed in itself (`TurnIs`), and its ids
  are new or given by the server (`WellFormedGrows`);
- `MentionsAreRouted` (`MentionsRouted`), for messages of any length, any agents and any
  limits but a `MaxRoutes` of 0 (`MentionsAssumption`; the code returns at once then).
  `OutAt` and `PendingAt` say what the routes and the index are after i turns: each
  mention seen has the nearest text seen behind it, and the index is the last mention
  with a text. `TurnStep` shows that a turn of the code leads from one to the next, also
  when the routes are full; `TurnsAre` is the induction.

### Sessions end

`SessionsRunOut` (`SessionProofs`) is the half of `SessionEnds` that needs no fairness:
`StepsLeft` is a number that every step of a session lowers, nudges, refusals and failed
calls included, and it is at most MaxTurns * (MaxBatch + 2) + 1. Only that a session
takes its next step is left to fairness and to TLC.

### The rest

Every safety property of the passing runs, invariant or action property, is a theorem.
Only model-checked are the liveness properties (`JobsServed`, `TaskServed`,
`SessionEnds`, `Settles`, `LinkRecovers`, `DeadClientsLeave`, `CallsReturn`): they need
fairness and `ENABLED`, which the prover does not handle.

Each inductive invariant can also be given to TLC, in a module that extends the proof
module and the one of a run; they hold on the instances of section 3.

## 5. What the checks found

Four runs end in a violation, each against a sentence of the repository; the
details and the quotations are in `PROJECT.json`, "findings".

1. A session that reschedules its own one-shot task before the main thread
   reaches `sched_mark_done` loses it (`daemon.c:369-378`).
2. `send_message` to "all" sends the requester an unmarked mail, and
   `deliver_answer` another one (`agent.c:387-400`).
3. A session that is silent for `conversation_timeout` and then answers is cut
   off from its own conversation (`agent.c:766`).
4. Headers that a plugin sets for a GET whose URL is too long for `http_get` are
   not used up and go with its next request, to whatever host (`http.c:471-472`).

Some limits are stated as exceptions in the properties that meet them: after 64
different tool calls a call that is not in the table is no longer refused when
it repeats (`RepeatsRefused`, `agent.c:350`), and a conversation without lines
does not time out (`ResumesWhileOpen`, `session.c:160`).
Two more concern plugins (`Blurred` and `rejected` in `PluginRegistry`): two texts of
a file written within one second look alike to the scan, which keeps the first
until the file changes again; and a failure is remembered for a file and second
whatever its cause, so a plugin refused because its name was taken, or because no
child could be started, is not tried again until its file changes.

Further exceptions are named by the properties that meet them:

- two files can register the same tool name of 64 characters: it is stored cut to 63
  and compared whole (`IsCut` in `NamesUnique`, `plugin.c:436` and `451`; "Same name from
  another file: refuse", `plugin.c:431`);
- a record that cannot be saved when its session ends stays active on disk ("left" in
  `RecordsClosed`, `session.c:132-148`);
- a plugin's child, and what it leaves behind, and the child of a compile check keep
  open the pipes of other calls that were open at their fork; such a call can time out
  although its own program has ended (`TimeoutsExplained`, `plugin.c:369` and `583`;
  commands close what they inherit);
- a pass longer than the time between PING and drop (180 s: six or more compile checks that
  time out) loses a silent link unasked (`longest` in `AskedFirst`, `irc.c:239`);
- lines of the chat in exchanges that `conv_fit` has dropped are in no history and are
  not shown again (`ShownOnce` speaks of the lines given, `agent.c:763` and `767`);
- a server that gives the same id to two calls gets it back twice
  (`TranslationWellFormed`, `provider.c:464`);
- an entry reported "Remembered" that was appended to an unfinished line is gone
  after a restart (`hurt` in `MemoryKept`, `memory.c:133`).

Read in the code on the way, and true of the models: a terminal that writes to a
connection the daemon has closed dies of SIGPIPE, which only `cmd_daemon` ignores
(`main.c:144`), instead of showing "Send failed"; a registration and a loss within
one drain of `irc_poll` leave the back-off as it was; `irc_reply` speaks before the
link has registered; a memory file that cannot be read leaves an empty cache
until the next restart; a fifth header is dropped without a word; redirected
requests carry no headers, even on the same host; a 200 whose body was cut short
is not retried.

Found by the proof of `JobsConserved`, which did not go through without it: a session
thread that is held up between its two last stores for the whole gap lets a newer
message of the owner overtake an older one. `session_worker` stores the time, then
clears `busy` (`daemon.c:246-247`); if the flag falls only when the gap has passed, it can
fall while `dispatch` is between two entries of the queue, which skips the older and
starts the newer (`daemon.c:345-347`; "owner messages first (in order)", `daemon.c:339`).
With the code's gap it takes a thread that does not run for seconds, so the order is
claimed for systems without the fault "stall", and everything else with it. To see it,
check `OwnerOrder` on `DispatchFaults.cfg` with one agent, three owner messages and
"stall" among the faults.

Known and not claimed otherwise by any document: a failed start marks due tasks
done; a crash after a start runs the task again; queued owner messages and mail
already read die with the process; a file that cannot be read is unlinked.

## 6. Plan

The modules are complete as far as the list in section 7 allows. Worth adding:

- `Delegation`: agents, mail and sessions composed, to follow requests and answers
  across sessions;
- `Scheduler`: the validation and update rules of the task list, which `Dispatch`
  reduces to present, ticks until due and interval.

Theorems to come: variants like `StepsLeft` for the other liveness properties (the
passes until a queued job is served, the attempts until the link is back).

## 7. What is not modelled

- Line editing, scrolling and drawing of the terminal interface, argument
  handling, `config.ini`, log files: sequential, no shared state.
- Bytes: URLs, TLS, headers, chunks, JSON, time formats, prompts. Names and texts
  are reduced to what the properties tell apart.
- In the link: a line cut by a record boundary (`readbuf` carries it over), the port
  without TLS, descriptors running out (`accept` and `socket` then fail and the pass
  goes on), a client that sends a frame a byte at a time (each read of
  `handle_new_client` may take two seconds, there is no total).
- In `child_collect`: `poll()` itself failing, and a `waitpid` after the kill that is
  interrupted by a signal.
- Hash collisions of `repeated_call`, equal random ids, ids of a server that agree in
  their first 63 characters (they count as the same id), and counters that wrap after
  2^32 steps.
