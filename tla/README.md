# Smithly in TLA+

Smithly is a controller for LLM agents: one process (`smithly start`) that
serves agents over HTTP and Telegram, runs their tools and skills, and keeps
their memory, their spending and what they may reach in SQLite files. This
directory models it in TLA+, component by component, checks the models with
TLC on small instances, and proves the main theorems with TLAPS for every value
of the constants.

`PROJECT.json` lists the components, the runs, the mutants every property is
tested against, the source lines of every definition, the hazards and the
theorems. Paths below are relative to `src/`.

## 1. The system

### Components

| Component | State it keeps | Operations | Talks to | What makes it correct |
|---|---|---|---|---|
| **Agent** `internal/agent/agent.go` | none between calls; per call the message list | `Chat`: load history, request, run tools, save, audit | database, LLM API, tools, spending windows; called by gateway, Telegram, CLI, heartbeat | what the user was answered is remembered; what was not said is not; a call ends |
| **Context window** `internal/agent/context.go` | none; rows of the memory table | `trimHistory`, `compactHistory` | LLM (summary), database | the request fits; history in order, without holes |
| **Loop detector** `loopdetect.go` | signatures of the calls of one `Chat` | `record` | agent | a loop is reported in the round that closes it, once |
| **Spending windows** `tokenlimit.go` | per window: start, spent | `record`, `exceeded` | shared by every `Chat` of an agent | spent is what was paid; no request over a limit; the agent resumes |
| **Heartbeat** `heartbeat.go` | last run, ticker | tick, quiet hours, skill heartbeat | agent, notifications | comes again and again outside quiet hours, never twice at once |
| **LLM clients** `llmclient*.go` | none | convert messages; assemble streams | HTTP API | requests are what the API accepts; a truncated stream is no answer |
| **Database** `internal/db` | memory, audit log, domain allowlist, embeddings | queries, `Migrate` | all | rows are ordered by id; migrations run once |
| **Gatekeeper** `internal/gatekeeper` | the allowlist table | `CheckDomain`, `SeedSkillDomains`; proxy | database; CLI processes on the same file | fail closed; the user's word stands |
| **Sidecar** `internal/sidecar` | token map | issue, revoke, check; OAuth2, notify, store handlers | object store, credentials; called by skills | a token works from issue to expiry or revocation |
| **Object store** `internal/store` | versioned rows, one connection | Put, Get, Delete, Query, History | sidecar | append-only, contiguous versions, no waiting for ever |
| **Gateway** `internal/gateway` | rate limiter, server | handlers, `allow`, `cleanup` | agents | at most `maxReqs` requests per client and minute |
| **Channels** `internal/channels` | Telegram offset; terminal mode | poll, send; read keys, approve | agent | each message answered once; keys reach who asked |
| **Sandbox, skills** `internal/sandbox`, `internal/skills` | registry map, files, containers | run, build, review, register | sidecar tokens, gatekeeper | token and container end with the run; registry matches the disk |
| **Tools, credentials** `internal/tools`, `internal/credentials` | robots cache, token file | fetch, search, write_skill, OAuth2 refresh, ... | HTTP, files | a refreshed token is not lost; no stale cache entry |
| **Memory search** `internal/memory`, `internal/embedding` | embeddings | search, backfill | database, HTTP | every message is embedded in the end |
| **Controller, CLI** `cmd/smithly` | servers and goroutines | start, shutdown, the other commands | all | shutdown waits for what is in flight |
| **Config, workspace** | files | load, append, rewrite | CLI | the file loads, with what was commanded; its token stays |

### Where it is hard

* **Shared agents without a lock.** HTTP handlers, the Telegram goroutine and
  the heartbeat call `Chat` on the same `Agent`. They share the memory table
  and the spending windows; between loading the history and saving the answer
  minutes can pass.
* **Several statements where one is meant.** The two inserts of a turn, the
  summary after a compaction, Delete's read and put, the gatekeeper's lookup
  and insert: others get in between, and a failure or a process's death can
  come between.
* **Errors that are logged, or not looked at.** An audit entry that cannot be
  written, a part of the configuration, an answer of a token endpoint that is
  none: the code goes on.
* **Several processes on the same files.** `smithly domain` and
  `smithly skill add` write the allowlist, the skills' directories and the
  configuration while the controller reads them; every command migrates the
  database when it starts.
* **The end of the process.** A signal, the servers' shutdowns, the return of
  `Serve`, the context's end and the chats in flight come in an order of several
  goroutines; Telegram's offset is in memory, its updates are on a server.
* **One keyboard, two readers.** The terminal's loop and the approval prompt
  take keys from one channel.
* **Time.** Windows that expire while nobody looks, timestamps that leave the
  rate limiter's window while it is cleaned, tokens, timeouts.
* **Protocols nobody checks.** The model APIs want alternating turns and each
  tool result right after its call; the message list is built by appending.
* **Waiting.** The object store has one connection; the tool loop goes on as
  long as the model asks for tools.

`PROJECT.json` "hazards" names each at its line with the properties that would
catch it; those without a property yet say where the plan has them.

## 2. The modules

| Module | Models | Code |
|---|---|---|
| `ContextWindow` | token estimates, trimming, compaction's decisions, as operators | `agent/context.go` |
| `ChatHistory` (extends it) | concurrent calls of `Chat` on one memory table | `agent/agent.go`, `agent/context.go`, `db/sqlite` |
| `MessageFormat` | message list and its conversion for both APIs, as operators | `agent/llmclient_anthropic.go`, `agent/llmclient_responses.go` |
| `AgentLoop` (extends it) | the tool loop inside one `Chat` | `agent/agent.go`, `agent/loopdetect.go` |
| `StreamAssembly` | answers put together from complete and streamed responses, as operators | `agent/llmclient*.go` |
| `CostWindows` | spending windows shared by the calls | `agent/tokenlimit.go` |
| `Heartbeat` (extends it) | the heartbeat goroutine, its ticker and quiet hours | `agent/heartbeat.go`, `cmd_start.go` |
| `Controller` | `smithly start`: agents, gateway, Telegram, signals, exit and restart | `cmd_start.go`, `gateway/gateway.go`, `channels/telegram.go` |
| `Terminal` | `smithly chat`: keys, line editing, ESC, interrupts, approvals | `channels/cli.go` |
| `SlidingWindow` / `RateLimiter` | what the limiter promises / how it does it | `gateway/ratelimit.go` |
| `VersionedLog` / `ObjectStore` | what the store promises / how it does it | `store/sqlite.go`, `sidecar/sidecar.go` |
| `Gatekeeper` | the allowlist under requests, seeding skills, the user | `gatekeeper`, `cmd_domain.go` |
| `SkillRun` | a skill's token, its build and program as processes, and their limits | `sandbox`, `skills/runner.go`, `skills/env.go`, `sidecar/sidecar.go` |
| `SkillRegistry` | a skill's directory and its registry entry | `skills`, `tools/writeskill.go`, `cmd_skill.go`, `helpers.go` |
| `Credentials` | OAuth2 refreshes and authorizations on one token file | `tools/oauth2.go`, `credentials`, `cmd_oauth2.go` |
| `ConfigFile` | `smithly.toml` under commands that load, append to and rewrite it | `config/config.go`, `cmd_init.go`, `cmd_agent.go` |
| `MemoryIndex` | migrations, full text index and embeddings of one database file | `db/sqlite`, `cmd_memory.go` |
| `MemorySearch` | hybrid search, as operators | `memory/search.go` |
| `Robots` | parsing and matching of robots.txt, as operators | `tools/robots.go` |
| `MC*` (each extends the components of one run) | bounds, symmetry, inputs and reference definitions for TLC | |
| `*Proofs` | theorems | |
| `DataInduction` | induction over the numbers, and what a fold over a sequence or a set is, as lemmas | |

The three modules about `Chat` are three cuts through one function.
`ChatHistory` keeps its accesses to the database and makes the tool rounds one
step; `AgentLoop` opens the rounds up and makes loading and saving one step;
`CostWindows` keeps what each response is charged. Each lets the others'
part end in every way it can (the model answers, fails, or takes a window over
its limit), so what holds in one cut holds in the whole. `Controller` and
`Heartbeat` begin and end the calls.

**ChatHistory.** `memory` is the memory table of one agent, a sequence by id.
`pc[c]` says where call `c` is: *idle*, *compact* (waiting for the summarizer),
*insert* (about to store the summary), *call* (the tool rounds), *saveUser*,
*saveAssistant*, *audit*, or its result. `active[c]` is the history loaded,
from the latest summary on, and `context[c]` what is sent. A row carries
`ids`, the turn messages it tells the model of: itself, or, for a summary,
those of the rows the summarizer was shown. They are not in the database; they
let the properties speak of what a history contains. One action per database
access or model answer, with its failure as an action of its own; `Crash` ends
every call and leaves the rows.

**AgentLoop.** `messages` is the request's list (role, ids of the calls, the
call answered), `todo` the calls of the answer still to run, `seen` the loop
detector's history. `AnswerWithCalls` lets the model call anything at any time. A
tool that fails, is refused or unknown gives a text all the same
(`agent.go:265-272`), so `RunTool` has one outcome, but it may never come. `audit`
are the entries written, and `lost` those whose insert failed: `LogAudit` has both
outcomes wherever it is called, and the call goes on (`agent.go:275-283`). A call may
start from a history that begins in the middle of a turn, or has two questions or
two answers in a row: `Contexts` is any set of histories, and the theorems are about
all.

**MessageFormat.** The fold of `convertToAnthropicMessages`, with its pending
tool results and the merging of user turns, and the items of the Responses API.

**StreamAssembly.** An answer is a sequence of text and call blocks in pieces;
`ReadFull` is what a client makes of the complete response, `ReadStream` a fold
over the events of a stream. The three clients file a call's pieces under
different keys (index among the calls, among the blocks, `call_id`).

**CostWindows.** Only differences of times enter the code, so a window's clock
is its age, stopped at its length (expired). `spent` is the field; `paid[n]`, a
history variable, is what was really paid in the last `n` ticks, up to the
longest window's length. `record` is a load and a store: the field has no lock. `Store` moves on to the next window
and decides at the end whether `Chat` may go on.

**Heartbeat.** `due` is the ticker's channel, with room for one tick; `Hour`
moves the clock of the day, the ticker and the windows together. `Select` is one
round of the goroutine's loop: it ends, skips (quiet, paused) or beats, by a
chat or by a skill. `ParseHeartbeatConfig` is the parsing, with its defaults
for what is malformed.

**Controller.** `proc` is the main goroutine, `sig` the one that waits for a
signal, `tg` Telegram's, `request[c]` a client's chat, `inside` the other servers
(the gatekeeper's proxy, the sidecar) that serve a request just now; their
Shutdowns come before the gateway's and wait for those requests without a limit.
Telegram's server is `sent` and `confirmed`,
and keeps an update until a poll asks for a larger offset. `Gone` is the end of
the process, however it comes: what is in memory is lost, what the server keeps
is not.

**Terminal.** `bytesCh` is the channel of keys, `mode` where the loop is,
`chat` the chat's goroutine with the approval it asks for. Loop and prompt each
take the next key when they can. `meant` and `prompt` are history variables for
what the user typed after an ESC and whether a prompt was waiting at it.

**RateLimiter.** `clients` maps a client to its timestamps; `accepted` is a
history variable with everything let through. One mutex covers `allow` and
`cleanup`, so each is one step: `Allow`/`Refuse` prune as the code does before
they count, and `Cleanup` may come at any time, more often than its ticker.

**ObjectStore.** `rows` are the committed rows, `conn` the transaction that
holds the only connection, `stage`/`pending`/`answer` the callers. A step is an
SQL statement: `Begin` takes the connection and reads the next version,
`Commit` inserts and publishes, `Rollback` is any failure of the transaction.
The handlers are included: who may see an object, and what a caller is told.

**Gatekeeper.** `table` is `domain_allowlist`. A request looks its domain up,
perhaps persists a default, counts the access, and is audited; a seeder
(`smithly skill add`) looks a domain up and sets it; the user sets any domain
at any time. Each can fail, and the controller can die between any two steps.

**SkillRun.** `phase[r]` is where the call of `Run` is, `main[r]` the process
it waits for (bash, the program, docker's client), `children[r]` the kinds of
processes left beside it: in its group or not, holding its output or not, or a
container. `cmd.Run` is os/exec's: it waits for the process and then for the
pipes, and the context's end calls `Cancel` only while the process lives.
`provider` chooses between `NoneProvider`, `DockerProvider` and `skills.Runner`
(used by tests only), which differ in what is killed and in when the token is
issued. `tokens` and `age` are the sidecar's map; `Usable` is `requireToken`.

**SkillRegistry.** `dir` is the directory, file by file (a manifest may be
torn), `registry` what `Load` last returned. `call[c]` is a caller's
`write_skill`, one action per file, then remove, load and register; `cli` is
`smithly skill add` or `skill remove`, which touch the directory only. `unsynced`
is a history variable for the three ways they may come apart.

**Credentials.** `file` is the JSON file or `Torn`, `grant[p]` the provider's
latest refresh token, `lock` the controller's mutex; `seen[a]` is what a put
loaded. A put is load, truncate, write; the command line goes through the same
steps without the mutex, which it does not share. `overlapping` chooses whether
anybody runs it beside the controller's calls. `answer[a]` is what the provider
said to who is to save: a new refresh token; an access token only, for which
`GetToken` preserves the old one and `oauth2 auth` saves none; or an error with
status 200, which is taken for an answer.

**ConfigFile.** `file` is what a TOML decoder sees: token keys, agents'
sections in their order, with the number of times their keys occur and whether they
are `tuned` (have settings that `rewriteConfig` does not write), and whether bytes
of several writers are mixed. `cmd[t]` is a command: load, perhaps append a token (a second
read, then a rewrite in place), prompt, then append or rewrite. A rewrite is a
truncation and a write for the gateway and for each section; a command may be
killed between any two, and a write may fail, which only `appendToken` looks at.
`wanted` is a history variable with the sections there should be: those the last
remove had loaded and kept, `Rewritten` (less their tuning), and those added since.

**MemoryIndex.** `schema` and `effects` are the versions recorded and how often
each one's statements were committed; `writer` is SQLite's write lock. A process
migrates, then serves (appends messages, which triggers index) or runs
`smithly memory embed` on a batch.

**MemorySearch, Robots.** Pure operators. Sorting leaves equal scores in any
order, so `HybridSearch` is the set of results the code may return.

## 3. The runs

Parts of the system that share nothing are checked in one run: its module has a
variable (`kind`, `part`, `command`, `shared`) that says which part a behaviour
is about, and the others stay as they are. That adds their state spaces instead
of multiplying them, and hides nothing, since no action of one part reads or
writes a variable of another.

| Run | Distinct states | What it shows |
|---|---|---|
| `algorithms` | 278,752 | Every bounded input against a reference definition. `WalksExact`: trimming returns the longest suffix that leaves 20% free; over 60% a compaction has something to summarize, keeps as much as 40% holds, and leaves the history at or under 60%. `StreamsAssembled`: a complete stream gives what the complete response gives, a broken one nothing the model did not say. `RobotsDecides`: groups, longest rule and wildcards. `SearchBest`: the cut-offs leave out nothing better. |
| `chat_history` | 8,843 | `AnswerIsSaved`, `NoUnsaidAnswer`, `ContextChronological`, with three overlapping calls. |
| `chat_hole` (violation) | | what a compaction keeps verbatim is missing from the next call |
| `agent_loop` | 188,592 | The loop: `RequestWellFormed` (every request is one both APIs take, but for what the history itself has wrong), `NudgedIffLooping`, `AuditComplete` (trail and failures in the log together are what happened), and `ChatReturns` (liveness): unless a tool never does. The memory behind it: `SchemaComplete`, `IndexComplete` under racing, killed migrations; `Backfilled` (liveness). |
| `heartbeat` | 950,208 | One goroutine: `SpentExact`, `NoRequestOverLimit`, `TrailingBound`; `QuietKept`: no heartbeat starts in quiet hours or while a window is used up; `HeartbeatRuns` (liveness): if not every hour it ticks at is quiet, only a chat or skill that hangs keeps it off for good. |
| `cost_race` (violation) | | two goroutines: a cost is lost |
| `object_store` | 48,213 | `AnswerStands`, `TombstoneOfVersion`; `IsVersionedLog`: refinement of `VersionedLog` (contiguous, append-only); `RequestsEnd` (liveness). |
| `skill_run` | 253,164 | `TokenEndsWithRun`, `TokenLasts`: the token is there while the program is, and no longer. `RunReturns` (liveness): only a child that holds the output keeps a run from returning. |
| `skill_timeout` (violation) | | such a child outlives the timeout, and the run waits for it |
| `credentials` | 150,107 | `OnlyFailuresLose`: overlapping refreshes lose no authorization; failures do, and answers about the same provider that are saved unchecked. `CallsEnd` (liveness). |
| `smithly` | 500,281 | `smithly start`: `ConfirmedIsHandled`: no Telegram message is lost over lost polls, deaths and restarts; `GivenOnceInOrder`: one process answers none twice; `ShutdownEnds` (liveness): only a request that never ends holds up the exit. `smithly chat`: `TypedAheadKept`; `InterruptEnds` (liveness): an interrupt needs no further key, and only a chat that works on for ever keeps the loop waiting. The limiter: `RateBound`; `IsSlidingWindow`: refinement of `SlidingWindow`. |
| `commands` | 930,609 | The allowlist: `AllowExplained`: nothing opens an unknown domain; `SettledStands`: an entry is the user's once the races on it are over. The configuration: `AgentsAsCommanded`, `TokenOfFirstRun`: it loads, with the sections that were commanded, in order, less what a rewrite drops, and with the first token, unless two writes meet, or one is killed or fails halfway. Skills: `RestartChangesNothing`: the registry is what a restart would load. |

Every property of a passing run has a mutant: an operator in the model, marked
`Mutant:`, that is a plausible slip in the code and under which the run fails.

### Findings

1. **A compaction loses what it keeps** (`chat_hole`; `context.go:150`,
   `context.go:76`). The summary is a new row, with an id above those of the
   recent messages it does not cover. The next call starts at the latest
   summary and sees neither the messages nor a summary of them.
2. **Lost costs** (`cost_race`; `tokenlimit.go:139`). `spent += cost` without a
   lock in goroutines that share the windows.
3. **A timeout that does not end a run** (`skill_timeout`; `none.go:80`). A
   program that starts something in the background and ends leaves a child with
   its output open. `cmd.Run` waits for it without limit, and nothing kills it,
   although the process group is there for that (`none.go:65`).

### Observations

Disagreements seen while modelling that no run of their own shows. Where a
property is named, it states what does hold.

Conversations:

* User message and answer are two inserts; a failure or a death between them
  (`agent.go:330`) leaves the orphan `agent.go:315` says there is none of.
  `NoUnsaidAnswer`: never an answer without its question.
* What `compactHistory` returns after compacting is not trimmed against the
  system prompt and the tools, so a request may pass `max_context`, although
  `docs/MODELS.md:285` says every request is trimmed to fit. `WalksExact`
  bounds the history alone.
* The compaction's own request is charged to no window (`context.go:137`).
* `llmclient_anthropic.go:112` promises alternating turns. An assistant message
  is never merged into the one before it, so the promise is kept only where each
  answer of the history follows a question. A single caller can do without
  that: trimming (`context.go:49-61`), the split of a compaction
  (`context.go:107-129`) and the load's `LIMIT 200` cut in the middle of a turn,
  and the request then begins with an answer; overlapping calls save two answers in
  a row. `RequestWellFormed` says that these are the only ways, and that everything
  made inside the call is in order.
* An audit entry that cannot be written is an error in the log and no more
  (`agent.go:281`, `300`, `344`): the tool has run, and the answer is returned. A
  cancelled context makes every later insert fail. `AuditComplete` is about trail
  and log together.
* A tool may keep `Chat` for ever: `bash` (`bash.go:50-56`) and the sandbox
  (finding 3) wait for every child that holds the output, and an approval waits for
  the user. `ChatReturns` is about the others.
* A stream that ends early is taken for a complete answer (`StreamsAssembled`:
  it holds nothing the model did not say, but may lack the end of what it did).
  A streamed Chat Completions answer is charged by an estimate of its output.
* The usage of Anthropic answers has cached tokens subtracted from
  `input_tokens`, which already leaves them out in that API.
* `tokenlimit.go:12` calls the windows rolling. They are fixed periods that
  start with the first cost; `TrailingBound`: twice a period's most, not once.
* A limit below a millicent becomes 0 (`tokenlimit.go:153`) and pauses the agent
  before its first request.
* Heartbeat: an interval of zero or less makes `NewTicker` panic
  (`heartbeat.go:63`). Quiet hours with equal ends (`9-9`) are quiet all day
  (`heartbeat.go:137`), so it never comes; nor does one whose ticks all fall into
  quiet hours. The goroutine calls `Chat` and the skill itself, so one that hangs
  is the last. `HeartbeatRuns` leaves these three out.

Start and channels:

* A signal before `gw.Start` has made the server finds nothing to shut down;
  the gateway then serves for ever, and further signals are ignored.
  `ShutdownEnds` is about signals after it.
* The three Shutdowns run one after the other with a context that nobody cancels
  (`cmd_start.go:107-114`), and each waits for the requests of its server. A plain
  HTTP request through the proxy has no timeout (`proxy.go:154-167`), so that one
  slow transfer of a skill keeps the gateway from being shut down, deaf to further
  signals; so does a chat whose tool hangs. (Tunnels are hijacked and not waited
  for.) `ShutdownEnds` says that nothing else does.
* `Serve` returns as soon as its listener is closed, so main may run before the
  context is cancelled and end a clean shutdown as fatal; it may also end while
  chats are in flight, whose responses are lost.
* Telegram's `getMe` is tried once: a failure leaves the process without the
  channel. A piece of 4096 bytes of a long answer may split a character.
* A prompt that is waiting when ESC is pressed shares the keys with the line
  typed ahead, and a `y` of the line approves its tool. A Ctrl+C that a prompt
  reads only denies its tool. `TypedAheadKept` and `InterruptEnds` say when
  neither happens.
* After Ctrl+C the terminal waits for the chat to return without a limit
  (`cli.go:353`, `363`, `411`), and a tool that waits for a child's output does not
  look at the context: the program then reads no key any more. `InterruptEnds`
  says that a prompt never is the reason.

Files and tables:

* `rewriteConfig` (`agent remove`) says it writes the full config
  (`config.go:309`). It drops the sections memory, oauth2, notify, credentials,
  sidecar, gatekeeper and channels, and, of the agents it keeps, max_context,
  cost_limits, pricing, a heartbeat that is not enabled and its auto_resume. The
  file still loads, but an agent that had limits has none. `AgentsAsCommanded`
  says that nothing else of a section changes (`tuned`).
* Two overlapping `agent add`s may add one agent twice (`cmd_agent.go:72` looks
  at what was loaded before the prompts), and a remove takes back what was added
  after its load. Nobody looks at the errors of `Fprintf`
  (`config.go:261-281`, `317-362`), so that a half-written file is reported as done.
* With `token = ""`, or text after `[gateway]`, `appendToken` makes a duplicate
  key or table and the file no longer loads. Two first loads at once leave two
  tokens or lose one; overlapping `agent add`s can interleave their lines.
* Overlapping or failed writes of a skill, and `smithly skill add` beside the
  running program, leave the registry different from the disk until a restart
  (`unsynced`); the registry's map has no lock.
* `SeedSkillDomains` looks a domain up and sets it in two statements; a
  `smithly domain deny` between them is overwritten, although
  `gatekeeper.go:89` says denials are not. `SettledStands` says when one stands.
* `Query` applies its limit in SQL and its filter afterwards
  (`store/sqlite.go:200-217`), so it can return nothing while a matching object
  exists (`store.go:50`).
* Delete reads the latest version and puts a tombstone in another transaction;
  a put in between is buried by a tombstone with the older content
  (`TombstoneOfVersion`).
* Beside the controller, `smithly oauth2 auth` may take a refreshed token back,
  or the controller the new authorization: the mutex is not shared and each put
  rewrites the file. `OnlyFailuresLose` is therefore stated for
  `~overlapping`; without it TLC shows the loss in ten steps.
* `smithly oauth2 auth` saves whatever comes with status 200
  (`cmd_oauth2.go:136-161`): an answer without a refresh token, a state that
  `smithly oauth2 list` knows (`cmd_oauth2.go:204-206`), or an error with that
  status, overwrites an authorization that works. `GetToken` takes such an error for
  an answer without a refresh token (`oauth2.go:121-129`, `176-192`) and saves the old
  one, with a provider that rotates over a newer one that another call has just
  saved. `OnlyFailuresLose` shows both as the only losses without a failure.
* A death or an error while the file is written leaves it torn, and from then
  on every `Get` and `Put`, `smithly oauth2 auth` included, fails to parse it.
* Of two overlapping refreshes with a provider that rotates, the second gets an
  error, although the first has saved a token by then. A provider that revokes
  the grant when an old token is used again (not modelled) would revoke it.
* The DSN's `_busy_timeout` is not the form modernc's driver reads (`_pragma`),
  so a locked database is an error at once, which `MemoryIndex` has.

Skills, search, robots:

* The sandbox issues a token before the build (`none.go:40`), for the program's
  timeout and 30 seconds; a build may take two minutes, and the program then
  starts with a token that has expired. `skills.Runner` issues it after the
  build. `TokenLasts` states both.
* When docker's client is killed, the container goes on until its program ends.
* 100 messages that can never be embedded, if they are the oldest, keep every
  later one from its embedding (`Backfilled` assumes fewer).
* Semantic search sorts by similarity, not by the score it shows; a hybrid search
  whose embedding fails ranks by keyword only; of more matches than twice the
  limit the others have no keyword part. `SearchBest` is about the rest.
* `search_history` finds the messages after a hit only among the latest 10,000
  (`searchhistory.go:130`).
* An anchored pattern with a wildcard (`/a*$`) may miss a path it should match:
  parts are placed at their first occurrence and no other is tried
  (`RobotsDecides` says so). A slow fetch may overwrite a newer cache entry
  (`robots.go:73`).

## 4. Bounds, symmetry, fairness

**Bounds.** Every one is a CONSTANT of its module or a line of its cfg.

* `algorithms`: five messages of 10, 11, 20 or 40 tokens in a context of
  100, system prompts of 0, 29, 30, 45, 70: the 40%, 60% and 80% budgets are
  met exactly, missed by one token and by one message, and the trim budget is
  positive, zero and negative. Five answers with text before, after and between
  calls of up to three pieces, in every order an API may send them, one
  malformed event, and every place to break off. Four lines of a robots.txt:
  two groups with a rule each, or three rules of one; patterns and paths of
  up to four characters. Four memories of one wanted: some are neither among
  the matches looked at nor among the similar ones.
* `chat_history`: three calls; two saved messages (22 tokens) pass 60% of the
  30-token context and one is kept, so the second call may already compact
  while the first saves and the third reads. `HistoryLimit` 4 makes the load
  cut rows off. A call's rows depend on the others only through the table, so
  a hazard needs two writers and a reader.
* `agent_loop`: four requests of up to two calls and two signatures, threshold
  3: loops that close inside a round, across rounds and are broken, and the
  exhaustion of the rounds. A history with a summary and a turn, one that begins
  with an answer, and one with two questions and two answers in a row. One audit
  entry that cannot be written (`MaxLost`), at any place. Two processes, three messages of which the first
  can never be embedded, batches of two, one kill. Of the
  long-running commands one runs at a time (`Open`; another could not have the
  gateway's port), beside any number of `embed`s.
* `heartbeat`: windows of length 2 and 3 with limits 2 and 3, a response
  costs 0 to 2: below, at and over each limit, expiring at different times. A
  day of three hours with none, one, two (past midnight) or all of them quiet;
  heartbeats every other hour, which meet every hour of the day, or every third,
  always at the same.
* `object_store`: two requests of two skills on one object and three versions.
* `skill_run`: two runs, a program of one tick, a grace of one, a build of two:
  builds within and beyond the grace, and every limit met exactly. `MaxChildren`
  1: kinds of children do not act on each other.
* `credentials`: two calls, one authorization, a provider that rotates and one
  that does not, two tokens of the first: two refreshes of one token, and two
  puts of different providers, each with every answer a provider may give. More
  tokens repeat the round.
* `smithly`: three updates, the second without a text, and two starts: a batch
  with a gap in its texts, a lost poll, a death before and after the offset is
  told, and the next process's first batch. One client, one agent. Six keys in
  a channel with room for three: a line, an ESC and a line typed ahead with a
  correction. A limiter's window of 2, two requests in it, cleaning age 3, the
  clock to 4: timestamps leave the window, are pruned and are cleaned.
* `commands`: two requests, two seeders, a default and an unknown domain, one
  counted access (no decision reads the count). Two terminals, two names of
  agents, three commands, from no file or one with a section, tuned or not: a
  writer, one that overlaps it, and one that reads what they left; nothing starts
  once the file is `spoiled`, which the properties are not about. Two chats and the command line with three contents of a skill: a
  write over a write, and a change from outside between them.

**Symmetry** on calls, clients, requests and seeders in runs without liveness;
no definition tells their members apart. Runs with a liveness property have none.

**Fairness.** `AgentLoop`: WF of all steps but `RunTool`. The goroutine runs, and
each request ends, if only by the HTTP client's five-minute timeout; nothing is
assumed of what the model answers, and no tool has to return. `MemoryIndex`: a process that was started goes on; the user
runs `embed` again and again, and the API answers a message it can embed if it is
asked often enough (strong fairness: a failure ends neither). `Heartbeat`: time
passes whatever is being recorded (strong, as recording takes its turns with it), the
goroutine runs and recording goes on; no chat or skill has to end, no user to come.
`Controller`: main once it serves, and the signal's goroutine; no chat and no
request to another server has to end, and nothing is assumed of Telegram's
goroutine, signals, deaths, users or starts.
`Terminal`: loop and prompt run, and a chat does not ask for approvals for ever
without returning (its rounds are bounded); no chat has to return, and nobody
has to press a key.
`ObjectStore`: an open transaction ends (SQLite answers, or the request's
context is cancelled); strong fairness for getting the connection: `database/sql`
hands a free connection to one of those that wait, in no strict order, so that
none waits for ever only with probability one. `SkillRun`: clocks
advance, a deadline fires, a finished command is noticed; nothing of the
programs. `Credentials`: a refresh ends (ten-second client timeout), who holds
the mutex goes on, and strong fairness for getting it, since Go's mutex hands
itself to a waiter that starves. The other modules have no fairness.

**Deadlock** is not checked: every modelled part may stop (all calls returned,
the clock at its bound) by design. Waiting is checked as liveness instead.

## 5. What is proved

For every value of the constants that satisfies each module's named ASSUME.
Where a theorem has a hypothesis of its own, the table says so.

| Theorem | States | Argument |
|---|---|---|
| `ConversationProofs!Invariance` | `IInv` | `ToldOK`: a row tells only of rows up to itself; `LoadedOK`: what a call holds is in order and was in memory; `SavedOK`: the stage of a call says exactly which rows it wrote. |
| `AnswersAreSaved`, `NothingUnsaid`, `InOrder` | `AnswerIsSaved`, `NoUnsaidAnswer`, `ContextChronological` | from `IInv`. `ContextChronological` alone is not inductive: a summary made of a stale history must still be older than the row it is stored in, which is `ToldOK` and `LoadedOK`. |
| `WalksAreExact` | `WalksExact` | a history's cost is a recursive sum, its reference a fold: both grow in the same way by a message, so they agree (`SumIsUnique`, `CostIs`). Costs fall as the start moves on (`CostFalls`), so where the walk stops is the first start within the budget (`WalkIs`). Needs a context of at least 50 tokens, for a summary to have room in its 20%. |
| `StreamsAreAssembled` | `StreamsAssembled` | for every API, answer and order of pieces, from answers whose blocks have a piece each (`AnswersAssumption`). `StreamOK`, of the reader after the events so far: the text it holds is the answer's up to the last text piece that was sent (`Reached`); a call that was begun is filed under its API's key with the pieces sent of it, and no other is (`FiledAs`); the keys come in the order of the calls, for chat after sorting (`KeptKeysAre`). Each event is one step of the fold `Scan` (`ScanAppend`), each block one of `Full` (`UptoNext`). |
| `SearchesFindBest` | `SearchBest` | for every memory, limit and scores (`SearchAssumption`: scores of matches and trust are natural numbers). All matches are looked at (`TopIs`), so a similar message with a text score is never scored without it (`ScoredWhole`). A similar message that was left out is no better than each one taken in; either one of these is left out of the result too, or the result is exactly these (`OthersScoreLess`). |
| `RobotsAreObeyed` | `RobotsDecides` | for every robots.txt and path but the empty one, which the code replaces by "/", and every rule (`RobotsAssumption`); the clause about patterns alone is about those of up to four characters, but `MatcherIs`, which gives it, is about every pattern. The matcher: after each character of a pattern, the reference may be where the part being read ends, from any place at which it can begin behind the parts before it (`InStep`, by induction in `StepsAll`); a part's first place leaves the most of the path (`StarSteps`), so only an anchored end can be missed. The parser: `RobotsRead` says after each line that the open group is the nearest user-agent's and that the rules kept are those under it (`AgentAt`, `RulesAt`). The choice: `Best` is the longest match (`BestIs`). |
| `AgentProofs!RequestsAccepted` | `RequestWellFormed`, from any histories | `RequestInv`. The conversion is a fold over the message list, so a message appended is one more step of it (`ConvAppend`, `ItemsAppend`). `AnthropicOK`: in the middle of a round the turns made so far are good and the open ones lack exactly the results in `todo`; between rounds nothing is open. A role is repeated only by an assistant turn of text alone, which only a saved answer is; from a history whose answers follow questions the turns alternate, since user messages in a row are merged. `ResponsesOK`: each item that answers has its call before it. |
| `LoopsAreTold`, `TrailComplete` | `NudgedIffLooping`, `AuditComplete` | `RoundOK`: the calls of a round that are done each have their result, and `looping` says whether one of them closed a loop. An entry is new, and later than all before it, wherever `LogAudit` is called, whether it is written or lost. |
| `MigratedOnce`, `NothingUnindexed` | `SchemaComplete`, `IndexComplete` | `MemoryInv`: the write lock is held from a version's first statement to its commit (`Locked`), and a process applies a version only when all before it are recorded and it is not (`Migrating`). |
| `HeartbeatProofs!SpentIsExact` | `SpentExact`, with one caller (`OneCaller`) | `SpentKept`: a window is behind what was paid since it started by what its caller has yet to store in it, and a window that is to start again by all of it; `StoreReady`: nobody came between the load and the store. With two callers the property fails (run `cost_race`), which is what the hypothesis is for. |
| `RequestsWithinLimits` | `NoRequestOverLimit`, with one caller | with `OverKnown` (no used-up window is forgotten on the way through the windows) and `CallAdmitted`. |
| `TrailingBounded` | `TrailingBound`, with one caller | `PeriodsBounded`: the period that runs and what is left of the ones before it each cost at most one period's most. |
| `QuietIsKept` | `QuietKept`, with one caller | the hours of clock and configuration stay within the day (`HoursOK`), so the test of the code is membership in the quiet stretch, which is the whole day for equal hours; and `CallAdmitted`. |
| `SmithlyProofs!NothingDropped` | `ConfirmedIsHandled` | inductive with `OffsetOK` (what the offset has passed was handled, but for the update in hand, until the context is done) and `BatchOK` (a batch begins where the last one ended, without a gap, and is worked off before the next poll): a poll tells the server an offset only when everything below it is handled. |
| `GivenOnce` | `GivenOnceInOrder` | the same invariant, with `GivenOK`: what was given is below the offset, and the next update is not. |
| `AheadIsKept` | `TypedAheadKept` | `AheadInv`: without a waiting prompt, the line is the fold of the first n keys meant for it, none of them Enter, and the channel holds the others in order. |
| `SmithlyProofs!Invariance` | `IInv` of the limiter | `Remembered`: what is in the window is in the map, whatever pruning and cleanup removed; needs CleanAge >= Window. |
| `RateIsBounded`, `Implements` | `RateBound`, `IsSlidingWindow` | pruned count = true count, so `Allow` maps to `Accept`, `Refuse` to `Reject`, `Cleanup` to a stutter. |
| `ObjectStoreProofs!Invariance`, `Contiguity`, `Durability` | `IInv`, `VersionsContiguous`, `AnswerStands` | `Locked`: the connection is a lock, so the version read in `Begin` is still next at `Commit`. |
| `Tombstones` | `TombstoneOfVersion` | `Held`: what a tombstone on its way was made from is there; rows are only added. |
| `RowsStay` | `AppendOnly` | action by action. |
| `ObjectStoreProofs!Implements` | `IsVersionedLog` | `Numbered`: an object of n rows has the versions 1 to n. So the version a commit inserts is n + 1, and the log's sequence grows by one at its end; all other steps leave the rows alone. |
| `CommandsProofs!FailsClosed` | `AllowExplained` | entries are never removed, a request is let through only by one or by a default. |
| `OnlyUserChanges` | `SettledStands` | only a grant that looked up before the entry was made can change it. |
| `AgentsKept`, `TokenKept` | `AgentsAsCommanded`, `TokenOfFirstRun` | `ConfigInv`, about runs in which the file is not `spoiled`. While nobody is halfway, the file is whole (`WholeFile`); while one command is, what it has written and what it has still to write are together the sections it is to leave, in order (`Continues`, with `Begun` and `HalfDone` for a rewrite and `ButKeys` for an append); and what a command has read is what the file says as long as nobody else wrote (`Agrees`). |
| `RegistryIsDisk` | `RestartChangesNothing` | `Alone`: without interference at most one call writes, and no command; `Synced`: where that call is says what the registry holds, and what it has loaded is still what the directory loads to; `Down`: without a program there is no call. |
| `SidecarProofs!TokensEnd`, `OutputsComplete`, `TokensLast` | `TokenEndsWithRun`, `OutputComplete`, `TokenLasts` | inductive with `Clocks`: while a program is within its limit, its token is no older than the wait before it and the program's time together. |
| `SidecarProofs!Invariance` | `IInv` of the credentials | `Mutex`; apart from the command line also `Fresh` (a put's copy is the file) and `Latest` (who was given a token to save has the provider's latest, and nobody else knows it; who saves an unchecked answer is left out). |
| `AuthorizationsStay` | `OnlyFailuresLose` | from `IInv`, action by action: a truncation is covered by `Fresh`, a save by `Latest`, an unchecked one by the exemption of its own provider only. |

A proof module is about all components its run has together. `ConversationProofs`
also has the lemmas on the selection operators (what is kept is a suffix, the
split is within the history, and what a part of a history costs), on how an
answer is put together, and on two tools of a conversation: the search of its
memory and robots.txt.

`DataInduction` is what the proofs about sequences share. The library's
induction theorems take a predicate, which no installed prover can instantiate.
`NatInduct` says the same of a set (a set that holds 0, and n + 1 with n, holds
every number), and sets can be instantiated; it follows from the
well-foundedness of `Below`. From it come the folds: what `FoldLeft` gives for a
sequence with one more element (`FoldedAppend`) and `MapThenFoldSet` for a finite
set of numbers (`SetFoldIs`). An operator is first shown to be a fold of a step
written as a function (`ConvIs`, `ItemsIs`, `IdsIs`, `RewrittenIsFold`,
`EditIsFold`, `ScanIs`, `FullIs`, `KeptKeysIs`, `CharsSplitIs`, `EndsIs`,
`MatchIs`, `ParseIs`), and then reasoned about one element at a time.

Only model-checked:

* Liveness (`ChatReturns`, `Backfilled`, `HeartbeatRuns`, `RequestsEnd`,
  `RunReturns`, `CallsEnd`, `ShutdownEnds`, `InterruptEnds`): fairness and
  ENABLED are out of this prover's reach.
* That `SpentExact` fails with two callers, and the two other findings.

## 6. What is not modelled

* In modelled parts: callbacks, streaming to the user, the boot message, texts
  and prompts; `recordResponse` of the loop detector (only tests call it);
  prices, tokens and rounding (a cost is chosen from a set) and the conversion
  of limits; the gatekeeper's approval callback, which is nil wherever a
  gatekeeper is made (`cmd_start.go:209`, `cmd_skill.go:126`), host
  normalization and the tunnel's bytes; type and data of an object beside its
  one content; HTTP bodies and JSON.
* Tools that are one request or one file access (`search`, `fetch`, `bash`,
  the file tools, notify) and the cache of robots.txt.
* The terminal's line mode, for input that is no terminal: one goroutine reads
  lines and nothing overlaps.
* Keyword-only and vector-only searches, which are the two halves of the hybrid
  one, and the floating point of a similarity.
* Service prompt, pricing table, workspace files, `doctor`, `audit` and the
  listing commands: texts, constants, reads and printing, without state.
* `db/storetest` is a test suite that runs the database's operations one at a
  time.

## 7. What could be added

In this order:

1. The compaction's request in `CostWindows` (it is not charged), and the
   conversion of limits and prices in fixed point.
2. The robots.txt cache with concurrent, failing and late fetches.
