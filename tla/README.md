# Verification of ytyango

ytyango is a Telegram bot in Go. Updates arrive through a long-polling
updater, whose dispatcher runs the matching handlers of each update in a
goroutine of its own; schedulers, an HTTP backend, an inner HTTP server and
timers run beside them. The goroutines share caches, sessions, maps and one
SQLite database. This directory holds TLA+ modules of the parts in which that
concurrency matters, TLC configurations that check them on small instances,
and proofs, checked by TLAPS, of what holds for every instance.

- Section 1 is the inventory of the system.
- Section 2 says which module models what, and how.
- Section 3 lists the runs, their bounds, and what they show.
- Section 4 is about fairness, section 5 about what is proved.
- Section 6 says what is only model-checked or not modelled, section 7 is the
  plan.

`PROJECT.json` maps every definition that models code to the lines it stands
for, lists the hazards of the code at the lines where they bite, and gives for
every property a fault of the code (an operator defined next to the original)
that breaks it.

To run: `tlc -config LruSf.cfg MCLruSf.tla` (and so on, section 3) and
`tlapm LruSfProofs.tla`; likewise `DataProofs`, `ChatStatProofs`,
`ChatCfgProofs`, `HandlersProofs`, `ServicesProofs`, `CommandsProofs` and
`CalculatorProofs`.

## 1. Inventory

Paths are below `src/`. "Hard" names what a test would hardly reach;
"right" is what makes the component correct.

### Caches

**LRU cache with single flight** (`helpers/lrusf/lrusf.go`, `singleflight.go`).
State: a recency list, a map into it, the running flights, each behind its own
mutex. Operations: `Get` with a fetch function, `TryGet`, `Add`, `Remove`,
`Len`, `Range`; a callback on eviction. Used by users, chat configurations,
daily statistics, file caches, and the vision results.
*Hard*: what happens between the first lookup, `Do`, the second lookup, the
fetch, the `add` and the callback, each of which takes and releases a lock (or
none); failing and panicking fetches; `Range` over slow yields.
*Right*: list and map agree and obey the capacity; one fetch per key at a
time; every caller is answered, with a value of its key or the failure; every
victim reaches the callback once; the victim is the least recently used key.

**Daily chat statistics** (`globalcfg/q/udb_chat_stat.go`,
`globalcfg/q/udb_withopt.go`, `handlers/chat_stat.go`, `group_stat_*.go`).
State: live `*ChatStat` objects in a cache of 64, one row per chat and day.
Operations: load or create, twelve increments, `Save`, `FlushChatStats`,
reports. *Hard*: an object that is evicted while handlers hold it, the row
being read again before the eviction's save, a save that fails, a flush during
all that, the end of the process. *Right*: nothing is counted twice; nothing
that the code could save is lost; rows do not go back; a flush that reports
success has saved everything.

**Chat configuration** (`globalcfg/q/udb_chat.go`,
`handlers/modify_group_cfg.go`). State: shared `*ChatCfg` objects in a cache
of 2048, rows. Operations: look-up by id or web id, toggling a field by a
button, saving, saving on eviction. *Hard*: unlocked read-modify-write of one
object, two objects of one chat. *Right*: a chat has one object; a button's
change is not undone by a save of another goroutine.

**Users** (`globalcfg/q/udb_users.go`): look-up, creation and rename through
the cache. *Hard*: the creation joins a failing look-up. *Right*: a user that
wrote a message exists afterwards.

**File caches of messages** (`globalcfg/h/msg_helpter.go`, used by
`handlers/gen_prpr.go`): a memory cache of bytes, a disk cache whose eviction
removes the file. *Hard*: a path found in
the cache whose file is just being removed. *Right*: what is answered exists
or is downloaded again.

### Conversations

**Gemini sessions** (`handlers/genbot/session.go`, `gemini_ai.go`,
`sess_utils.go`, `gemini_v2.go`, `globalcfg/q/udb_gemini.go`). State: maps from
session id and from topic to session, session objects with pending and saved
contents, database rows. Operations: find or create a session for a message,
append, request, persist, discard, forget the last session, change the model.
*Hard*: two messages for one session, a failing request or commit, early
returns, a session forgotten by the maps while in use. *Right*: memory and
database hold the same history; a failed turn leaves no trace; turns do not mix.

**System prompts and memories** (`handlers/genbot/sysprompt.go`), **variable
replacer** (`replacer.go`). *Hard*: the cached prompt is deleted before the
write. *Right*: after a prompt was set, the next request uses it.

### Games and media

**Battles** (`handlers/dnd_dice.go`, `helpers/cocdice/char_status.go`).
State: two maps (by chat, by message), a battle's ordered characters and the
index of whose turn it is. *Hard*: unsynchronised maps, check-then-act, old
buttons. *Right*: one battle per chat, both maps agree, the index is valid.

**Pictures and ratings** (`globalcfg/q/udb_pics.go`, `sql/schema_pics.sql`,
`handlers/nsfw_send_rnd.go`). State: picture rows, ratings, counters kept by
triggers, prefix sums in memory. *Hard*: concurrent ratings, triggers for
insert and update, stale prefix sums. *Right*: the counters are the sums of
the ratings; each picture is chosen with its weight.

**Media group moderation** (`handlers/nsfw_moderate.go`). State: a map from
group id to a channel owned by the first photo's handler. *Hard*: time-out
against late photos. *Right*: the entry of a group leads to an open channel
and to one collector; nobody waits for ever.

**Video downloads** (`handlers/ytdlp.go`, `helpers/ytdlp`,
`globalcfg/q/udb_ytdlp.go`). State: a counter of running downloads, a single
flight group, a result table, files. *Hard*: shared downloads, one upload
among many callers, cleanup. *Right*: the counter returns to zero, a file is
sent once and then removed, every request ends.

### Services

**Configuration** (`globalcfg/globalcfg.go`, `logger.go`): current
configuration, a file watcher, linked pointers, log levels. **Exchange rates**
(`helpers/exchange`, `handlers/exchangerate.go`): rates and the time of the
last request. **Debounce and answer helpers** (`handlers/uilts.go`): timers.
**Process** (`main.go`): registration, flush on a signal, exit. **Statistics
scheduler** (`handlers/group_stat_sender.go`). **HTTP** (`http/backend`,
`handlers/inner_http.go`): requests, stateless but for the backup, which copies
databases into a directory while the bot writes them.
*Hard*: a client made from the old configuration while the new one is stored;
tables of rates that hold each other up; a timer that has fired and waits for
the lock; a transaction between two rounds of a copy.
*Right*: clients, log levels and databases follow the configuration or stay
where they must; a rate is as fresh as it can be; the last text is the one that
is shown; a backup is each database at one moment.

### Sequential and external parts

CoC dice (`helpers/cocdice/coc_dice.go`) and the attributes of characters
(`handlers/dnd_dice.go`), calculator (`helpers/mathparser`,
`handlers/solve_math.go`), Bilibili links (`helpers/bili`,
`handlers/convertbili.go`), Markdown conversion (`helpers/mdnormalizer`,
`helpers/ent2md`), image work (`helpers/imgproc`), HTTP clients
(`helpers/azure`, `helpers/meilisearch`), generated database code
(`globalcfg/q/*_gen.go`).

### Interactions

Handlers call `g.Q` (cache, then database); `Cache.add` calls the component's
`Save` from whichever goroutine happened to overflow the cache; the flush
ranges over the cache and calls `Save` with `c.mu` held; the daily report calls
`ChatStatAt` and `Save`; `ChatStatAt` reads the chat configuration for the
timezone; handlers of videos and pictures increment the statistics.

## 2. Modules

| module | models | kind |
| --- | --- | --- |
| `LruList` | the recency list (`container/list` as the cache uses it) | operators on sequences |
| `LruSf` | the cache and its flights | state machine |
| `LoadingCache` | what the cache promises | abstract specification |
| `LruSfRefinement` | how `LruSf` implements `LoadingCache` | refinement mapping |
| `SharedObjects` | what the users of a cache of pointers have in common | operators on `LruSf` |
| `ChatStat` | daily statistics on top of the cache | state machine, composed |
| `ChatCfg` | chat configurations on top of the cache | state machine, composed |
| `BattleRound` | what happens inside one battle | state machine |
| `Battle` | the maps of battles and their handlers | state machine |
| `GeminiSession` | conversations with the model: sessions and turns | state machine |
| `Download` | downloads of videos, from request to clean-up | state machine |
| `NsfwGroup` | the photos of a media group and who looks at them | state machine |
| `Debounce` | a message that shows the last of several texts | state machine |
| `LinkedCfg` | the configuration, its watcher, clients and loggers | state machine |
| `PrprFiles` | files behind a cache of paths, and stickers | state machine |
| `PicRates` | pictures, ratings, triggers and prefix sums | state machine |
| `Exchange` | tables of exchange rates and when they are fetched | state machine |
| `SysPrompt` | prompts in the table and in the map | state machine |
| `StatTime` | the day and the ten minutes a message counts in | state machine |
| `CocAttrs` | the attributes of a character | state machine |
| `Backup` | the backup of the databases over HTTP | state machine |
| `Normaliser` | the walk from Markdown to text and entities | state machine |
| `Calculator` | the parser by binding powers and exact arithmetic | functions, inputs chosen by actions |
| `Dice`, `Report`, `Captions` | dice; the daily report and ranking; captions | functions, inputs chosen by actions |
| `MCLruSf`, `MCChatStat`, `MCChatCfg`, `MCBattle`, `MCGeminiSession` | constants and symmetry for TLC | |
| `MCMedia`, `MCServices`, `MCCommands` | several components beside each other, for TLC | |
| `DataProofs` | lemmas about lists, least elements and sums | proofs |
| `LruSfProofs` | invariants of `LruSf`; it implements `LoadingCache` | proofs |
| `ChatStatProofs`, `ChatCfgProofs` | invariants and action properties of those modules | proofs |
| `HandlersProofs` | invariants and an action property of `GeminiSession`; invariants of `Download`, `NsfwGroup`, `Debounce` | proofs |
| `ServicesProofs` | invariants of `LinkedCfg`, `PrprFiles`, `PicRates`, `Exchange`, `SysPrompt` | proofs |
| `CommandsProofs` | the turn order of `BattleRound`; invariants of `Battle`, `Backup`, `CocAttrs`, `StatTime`, `Captions`, `Dice`, `Normaliser`, `Report` | proofs |
| `CalculatorProofs` | the parser reads what is written, and all of it; the operations are exact | proofs |

**LruSf.** A step is one critical section of `c.mu` or `g.mu`, or one call made
outside of both (the fetch, the callback, the return to the caller). `ll` is
the list, front first; `items` the key set of the map (its element pointers are
positions in the list: `CacheConsistent` is what makes that meaningful);
`flight` is `g.m`, a name mapped to the goroutine that runs it; `pc`, `key`,
`res` and `evicted` are the goroutines' places and local variables; `mu` is
only taken across steps by `Range`, every other section is one step. `Get` is
`GetHit` or `GetMiss`, then `Join` or `Lead`, then for the leader `RecheckHit`
or `RecheckMiss`, `FetchOk` or `FetchFails`, `AddFetched`, perhaps `OnEvict`,
and `Finish`, which also answers the waiters. `Add`, `RemoveKey` and the three
steps of `Range` compete with it. The keyFn is a parameter (`FlightKey`), with
the uniqueness its comment demands as an assumption. A failure stands for an
error, a recovered panic or a Goexit: the flight treats them alike up to what
it tells the caller. `DoChan` and `Forget` are not modelled, nothing calls
them. (`lrusf.go` imports `golang.org/x/sync/singleflight`; `singleflight.go`
beside it is the same source, and the one that is modelled.) A cache without a
callback is one whose `OnEvict` does nothing.

**LoadingCache** knows neither lists nor flights: a store, the order of last
uses as a relation, callers that ask and are answered, and loads that callers
join. `LruSfRefinement` maps the list to the store and the relation (`Stored`,
`NewerThan`), a caller that has its result to one that is answered (`Answer`), and
the flight of a name to the load of its key: who waits for it or runs it has joined
it (`Joined`), and its result is known once the value is listed or the fetch has
failed (`Outcome`).

**SharedObjects** says what it means that the values of a cache are addresses
of objects (`Objs`): a fetch takes a free address, and an address is free again
once nothing refers to it (`InUse`), which is garbage collection. Two objects of
one key can thus be alive at once if the code lets that happen.

**ChatStat** adds the objects, the rows and the flush. A load fills an object
from the row; increments and saves act on the object. All the counters of an
object change under the object's mutex in the same way, so one number stands
for them; a save is one UPDATE under that mutex, so it is one step. `counted`,
`due` and `astray` are history variables; `astray` holds the keys with which one
of three things happened that the code does not prevent: an object was loaded
while an evicted one was still in use, a handler counted on an object that had
been evicted and saved, the save of an evicted object failed. `Restart` is the
end of the process at any moment (a crash, or `os.Exit` after the flush) and the
start of the next one.

**ChatCfg** is the same cache with objects that have no mutex. A press of a
button sets a field to the opposite of what the button showed (`v` is any value,
for the message may be old) and starts a save; a save reads the fields one by
one (`ReadField`) and then writes the row (`Update`), and others may press, save
and evict in between. The callback of an eviction saves in the same way.
`wanted` and `crossed` are history variables, `crossed` being to presses what
`astray` is to counts. `GetChatByWebId` and the creation of a row are called by
nothing, so a chat without a row is a fetch that fails.

**BattleRound** is one battle: the characters in their order, `current` (from 0
as in the code) and the round. Each command and the button is one action, with
the sort or the shift of `current` that belongs to it. `waiting` is a history
variable: who was there when the round began, was not moved by `chg`, and has not
had a turn in it. A sort puts at each place the character whose order has as many
orders below it (`Ranked`), for no two characters have the same. The numbers that order characters are taken small enough for the
comparison, a subtraction, not to overflow.

**Battle** is about `battleGroupIdToUuid` and `battleMap`, which handlers of
concurrent updates use without a lock: a step is one access to a map, or the
reply that gives a message its buttons. Messages keep their buttons when their
battle is over and when the process has been restarted. A battle's inside is
left out here; a handler's `Run` is one action of `BattleRound`. That the Go
runtime may stop the process when it notices concurrent map writes is covered
by `Restart`. `crossed` is again a history variable.

**GeminiSession** is one chat with its topics. `contents` and `lastSid` are the
tables; `sidToSess` and `chatIdToSess` the maps; `sess` the objects at their
addresses, with the garbage collection of `SharedObjects`. A handler that
`GeminiReply` runs on passes through *get* (`GeminiGetSession`, one step under the
lock of the maps, with its outcomes), *lock* (the memories, then the
session's mutex), *add*, *generate*, *reply* and *persist*; each early return is
an action, with or without the discard that is deferred only after the messages
have been added. What a message consists of is left out; that it may be
unreadable is not. A silent model discards what is pending and its answer is
saved all the same, as in the code. The table refuses a message that is in
another session (`Takes`). Messages are numbered as they come, the answers among
them. `abandoned` and `crossed` are history variables: answered messages left
pending by a turn that ended between adding the one and the other, and sessions
of which a commit failed or an object was loaded while another was in use.

**Download** is what a request does with `DownloadVideo` after it: a row that
was found answers it (`FindInDb`); else it shares a download that is running for
its key (`DoShared`) or runs it: `CountDownload` (the counter is raised first
and compared afterwards, the directory is made last), `RunWithTimeout`,
`UncountDownload`, `Publish`. All that shared it go on with one `DlResult`, named
by who ran it; its `sync.Once` is `stage`. The first uploads, saves the row and
removes the directory (`UploadFirst`, `UploadMedia`, `SaveResult`, `Clean`), the
others wait for that and return without an error. A failed download leaves its
directory behind, for nobody has the result that would remove it.
`UpdateYtDlpCache` sets every column to itself on a conflict: a row is final.

**NsfwGroup** is one media group. Who stores its channel first is its owner
(`nsPc` "own") and looks at what the others send; a time-out deletes the entry,
closes the channel and returns, and the deferred delete deletes the entry again,
which by then may be that of a photo that came late. `stolen` names those whose
entry was deleted by another. A send on a closed channel panics
(`SendOnClosed`), as it does in Go; the dispatcher recovers.

**Debounce** is one handler with its texts, one timer variable, and the callbacks
that have fired and wait for the mutex; a callback is one step under that mutex.
`overtaken` records that the handler took the mutex before a callback that was
waiting, `failed` that Telegram refused a request.

**LinkedCfg** follows a file (`cfgFile`, `fileEvent`, `watching`) through `koanf`
(`loaded`, which merges), the atomic pointer (`configPtr`) and the watcher's three
steps, to a `PtrLinkedCfg` (`pCfg`, `pPtr`, `gMu`; one action per access, two of them
without the lock) and to loggers. A load may fail in two ways that leave different
traces: a file that cannot be read or is no YAML changes nothing (`WatcherReadFails`),
while what `Unmarshal` refuses has been merged before it is refused
(`WatcherDecodeFails`; `Malformed` is a value that is not of its key's type). `WatchError` is
the callback's early return on an error of the watch, after which koanf may have stopped
to watch. `InitConfig` panics if its own load or its watch fails (`InitLoadFails`,
`InitWatchFails`), and registers the watcher before it stores the first configuration:
`WatcherCrash` is the nil dereference of a file that is edited in between. `torn`,
`refused`, `byHand` and `missedEdit` are the history that conditions name.

**PrprFiles** is the cache of paths (`diskCache`), its flights, the files, the
evicted files that are yet to be removed (`victim`), and the stickers that
`/prpr` makes, sends and removes. A restart forgets the cache and keeps the files.

**PicRates** has the rows of the three tables, the triggers as part of the
statement that sets them off, presses between their SELECT and their other
statement, and the prefix sums in memory with the draw. `UserRate` is the
generated column, with its rounding. `missed` are rates a picture was moved to
while their counter had no row (the UPDATE of the trigger changes none),
`early` pictures that were rated before they were saved.

**Exchange** counts the time in hours. `Due` is the condition for a request, with
`lastReqTime` shared by all currencies; `Refreshed` keeps a table under the
currency asked for, whatever base it names; `FindLeast` is the choice of a table
to answer from. `blockedBy` is the currency that was fetched last.

**SysPrompt** has the table's rows, the map, and `getSysPrompt` in three steps
under its mutex; commands delete from the map without that mutex, before their
statement. In a chat without topics the thread of a chain of replies is a key
that no look-up uses (`newTopic`).

**StatTime** has a chat's timezone and the one each day's statistics were loaded
with; messages come in any order. `strayDays` are days with a message whose
configuration could not be read.

**CocAttrs** reads a row and writes it in two statements for each word of a
message; sums wrap at `AttrWidth` bits (`AttrHalf` of them are negative). `afterAll` is what the assignments in the
order of their writes would have made.

**Backup** copies each database in `Parts` calls of SQLite's `Step`, which starts
anew when another connection has written, streams the copies and ends with a
manifest; every failure has its answer and its clean-up.

**Normaliser** walks a document that is chosen while it is walked. The text is
what Telegram counts: units of UTF-16. `read` is the whole document so far, also what
the code does not write: each part has its place (in the body, or in an item, a cell, a
label, a header, or the line that closes a block of HTML) and its kind. Items, cells and
labels are not walked but read by `plainText`, which has a case for texts, addresses and
code spans and drops every other node without children (`"other"`); `LeftOut` names
what of a document never reaches the message. The document's parser is a library's and
left out; so are the escapes put in before it.

**Calculator**, **Dice**, **Report** and **Captions** are functions of an input. An
action chooses the input, and the invariant compares the result with an
independent definition: a tree is right if it yields its tokens and each
operation's operands bind as tightly as they must; a quotient if it fits the
remainder; a rank if it adds up. The parser of `Calculator` is a recursive function of
the calls that parseExpression can get (`Calls`: the next token, the power, and in its
loop the left operand). A node is named by the token it stands for and says which
piece of the input it was read from, so that a tree is a set of nodes. A message that
asks for dice has its modifier in two groups of the expression, a sign and a number
(`Signed`); the code reads the number (`Added`).

**MCMedia**, **MCServices**, **MCCommands** put components that share no state into
one run. A variable `part`, chosen in the initial state, says which of them moves;
the others stay as they began. So the states add up and do not multiply.

## 3. Runs

| run | configuration | what it shows |
| --- | --- | --- |
| `cache` | `LruSf.cfg`, `MCLruSf` | safety of the cache; it implements `LoadingCache` |
| `cache_live` | `LruSfLive.cfg`, `MCLruSf` | every `Get` returns |
| `stat_counts` | `ChatStat.cfg`, `MCChatStat` | nothing is counted twice; what can be lost, and when |
| `stat_flush_evicted` | `ChatStatFlush.cfg`, `MCChatStat` | a flush misses objects being evicted (expected violation) |
| `cfg` | `ChatCfg.cfg`, `MCChatCfg` | presses reach cache and table; when a chat has two objects |
| `gemini` | `GeminiSession.cfg`, `MCGeminiSession` | memory is history; failed turns leave nothing; turns do not mix |
| `gemini_schema` | `GeminiSchema.cfg`, `MCGeminiSession` | no turn is saved on the schema's table (expected violation) |
| `battle_nobody` | `BattleRoundEmpty.cfg`, `BattleRound` | a battle with a character but no turn (expected violation) |
| `battle_old_button` | `BattleOldButton.cfg`, `MCBattle` | two battles in a chat (expected violation) |
| `media` | `Media.cfg`, `MCMedia` | downloads, media groups, debounced answers; everybody ends |
| `services` | `Services.cfg`, `MCServices` | configuration, files, pictures, rates, prompts |
| `commands` | `Commands.cfg`, `MCCommands` | battles, backups, attributes, documents, and the functions |

Many properties are conjunctions of named parts, each with its own comment:
`DownloadsCounted` is `LimitHolds` and `CountReturns`, for instance. For most
parts `PROJECT.json` has a fault of its own that breaks it.

*Bounds.* Cache: three goroutines are enough for a leader, a waiter and a third
that adds, removes, ranges or evicts in between; three keys on a capacity of two
make the choice of the victim depend on the order of uses; two values per key
tell an old value from a new one. In the liveness run two keys on a capacity of
one keep evictions frequent. Statistics and configurations: two handlers (one
evicts what the other holds), two keys on a capacity of one, and five addresses,
which are as many as can be in use at once there; the statistics have a flusher
beside them and two increments per key (`MaxCount`), so that one can be lost and
a later one survive; a configuration has one field, which two saves can already
read and write in every order. Conversations: two handlers on one topic, for they
meet in a session whatever topic it was found through (`@id`, an answered
message); two sessions, four messages with the answers among them, so two whole
turns or one turn and the start of two others; three objects, as many as can be
in use.

`media`: three requests, of which two share a download and the third shares it or
has a key of its own, with a limit of one, so that a request can be refused; four
photos, for an owner, one that is late, the owner that comes after it and one
more, while a channel has room for all ten photos of a group in the code and here;
three texts, so that a timer can be stopped, another fire and a third be armed.

`services`: two goroutines that get a client and three loads of five files (a new
section and level, a section that goes, other database paths, a malformed section, so
that a good file can be read before and after a refused one); two handlers and
two photos in a disk cache for one of them; two pictures with one user and two
presses at a time, rates up to two; three currencies over nine hours, tables every
three hours; two handlers in three threads, one of them a topic.

`commands`: three handlers that start or stop a battle, in two chats, with three
battles; four characters, which can be before, at, and on both sides of the turn,
five orders, which leave one free to move to, and two rounds to compare and a third
to end in (`MaxRound`); copies of two parts and three transactions; two handlers
of one attribute of three bits, so that a sum wraps; dice with up to three faces or
`DefaultFace`, abilities down to -10, modifiers with either sign that take the sum within,
beyond and far beyond the range of the dice, and ints of eight bits (`RollWidth`: the
dice's own numbers go to 100), so that the largest modifier, the largest int, makes the
sum wrap; four users with up to two messages each, a rank of three;
documents four deep with texts of a character that is two units long (`w`) and of an
`a` before one that is to be escaped (`e`; `MCPieces`), and items, cells and labels with
nothing, a code span, something that is dropped, or that between two texts
(`MCContents`); expressions of five tokens
and numbers of four bits; captions of sixteen bytes; a day of four units in two
segments, and three timezones. The small numbers are scaled together: what
matters is that every limit is reached from both sides.

All sets of model values are symmetric except in runs with liveness. Deadlock is
not checked in `services`, where the configuration has been loaded as often as it
can be, the process has crashed or the hours are over, and in `commands`, where a
function has its input; a `part` that only waits is not a deadlock of the bot.

*What holds only under a condition.* With eviction and two handlers counts and
presses can be lost, and the code does not claim otherwise: a handler may
change an object whose eviction has already been saved, a key may be loaded from
its row before the save of its evicted object, which then overwrites the newer
row, a save may fail, and two saves of one unlocked configuration may write the
older state last. `Accounted`, `RowsOnlyGrow`, `CacheIsCurrent` and
`LostOnlyIfCrossed` say that nothing else can: they exempt the keys of `astray`
and `crossed`, and those only. The capacities of 64 chat-days and 2048 chats make
the situations rare. `NoDoubleCount` holds without exception. In the same way
`SecondOnlyIfCrossed` of `Battle` says which two races give a chat two battles.
In the new modules likewise: a client may be that of an older configuration if
it was read while it was assigned (`torn`) or none could be made (`refused`); an
edit is missed before the file is watched, or when the watch or the read has failed,
until another one is read (`missedEdit`); one that was read is not in effect only if the
`koanf.Koanf` has other database paths or a malformed value that the file has or has
dropped (`FileInEffect`); text of a document is missing only where `LeftOut` says; a second photo collects
only after a late delete (`stolen`); an older text stays only if the handler came
between a timer and its callback (`overtaken`); a cached path leads nowhere only
if it was looked for when its removal was to come (`crossedPhotos`), a sticker is
taken away only if two handlers made it (`shared`); counters are short only of
rates without a row (`missed`) and of early ratings (`early`); a rate is stale
only while another currency blocks (`blockedBy`); a prompt is old only after a
look-up crossed its command (`crossedTopics`) or failed (`unread`); an
assignment is lost only if another crossed it (`crossedAttrs`). Each of these is a
race or a failure the code does not exclude, and each property says that there
are no others.
`MemoryIsHistory` exempts the sessions in `crossed` of `GeminiSession`,
`NothingPending` and `WholeTurns` the messages in `abandoned`. The run `gemini`
takes a table without the constraint on `user_id` (`UserIdRequired` is `FALSE`):
the bot does not create its tables, and with the constraint nothing is ever saved,
which is the run `gemini_schema`.

*What the turn order does.* An added or removed character moves `current` along
with the character whose turn it is; `chg` does not, so changing an order may
move the turn to somebody else, and `TurnKept` names it as an exception. A
character that is moved by `chg` may be passed over or act twice in the round:
`NobodySkipped` is about the others.

*The expected violations.*

- `stat_flush_evicted`. The comment of `FlushChatStats` says that it "saves all
  in-memory chat statistics" and is "safe to call concurrently with other stat
  operations". The trace: one handler counts a message; another handler's `Get`
  of a different key evicts that object and has not yet run the callback; the
  flush starts, sees only the cache, and ends without an error; the count is in
  no row. `main` then calls `os.Exit(0)`. `FlushSavesCached` is what does hold.
- `battle_nobody`. `CurrentCharacter` indexes the characters by `Current`, and
  the test calls it after an `add`. `AddCharacter` on a battle without
  characters leaves `Current` at 1, behind the only one. `NewFromText` resets it
  after its own adds; the command does not.
- `battle_old_button`. `NewBattle` refuses a second battle in a chat.
  `StopBattle` deletes the chat's entry without looking whether it is the entry
  of the battle of the button; one handler at a time is enough.
- `gemini_schema`. `/session_id` in answer to a message is to give the session of
  that message. `sql/schema_gemini.sql` declares `user_id INTEGER NOT NULL`;
  `AddTgMessage` sets it, `Save` and its INSERT leave it out. One handler and no
  failure of anything else: the turn is answered, its save is refused and rolled
  back, and the answer is in no session.

*Seen on the way.* These are in the models as the code has them, and no run is
about them alone.

- The comment at `udb_chat.go:114` demands one object per chat. A chat whose object
  is evicted may be loaded again before the callback has saved it, and then has
  two; `SecondOnlyIfCrossed` says that nothing else leads there.
- `/set_system_prompt` in answer to a message looks for that message's text and
  keeps the empty text of the command (`sysprompt.go:17-37`).
- A word of an attribute message that is no assignment makes the handler panic
  after earlier words were saved (`dnd_dice.go:79`), and an error of the read is
  taken for no row (`:81`).
- `/roll` with one argument below 1 panics, and the report does if none of the three
  most active users can be looked up.
- The factorial takes the low bits of a large number (`node.go:222`).
- A value of a wrong type that `Unmarshal` refuses stays in the `koanf.Koanf`, for the
  file has been merged before (`globalcfg.go:161-169`). To take its key out of the file
  again does not help: every later edit, of whatever key, is refused until the file
  gives that key a value that can be read, or the bot starts anew. A change of the
  database paths is remembered likewise.
- A modifier is added whatever its sign: `dndDiceRe` has the sign in a group of its own
  (`matches[6]`) that nothing reads, so `1d20-5` adds 5, where the help says `+/-`
  (`dnd_dice.go:176`, `:204-206`). `DiceFair` states the sum as the code makes it.
- The normaliser drops the headers of tables, the line that closes a block of HTML, and
  in items, cells and labels all that `plainText` has no case for: raw HTML, boxes to
  tick, in items blocks of code and of HTML. Nothing is reported, with `Strict`
  neither (`normalize.go:33` promises an error for nodes that are not supported). The
  items of a nested list run together with the text before it.

## 4. Fairness

In the cache (`cache_live`): A goroutine that is runnable is run by
the Go scheduler, and a fetch or a yield comes back because callers bound them
with a context or a client time-out: weak fairness of `Unlocked` per goroutine.
A section of `c.mu` may be disabled again and again by another goroutine's
`Range`; Go's mutex goes into starvation mode and hands itself to the waiter:
strong fairness of `Locked`. Nothing is assumed of requests: `GetHit`,
`GetMiss`, `Add`, `RemoveKey` and `RangeBegin` are the environment's choice.

In `media`: weak fairness of each request's `Handle`, for every step of it ends, if
only by a time-out (thirty minutes for the download, the HTTP client's for the
upload); of each photo's `NsStep`, for a goroutine that can run is run and the
owner's `select` has a timer of ten seconds; and of `DbTimers`, for Go's timers fire.
Nothing is assumed of what comes from outside: `FindInDb` of a new request,
`LoadOrStore` of a new photo, `Say`.

## 5. Proofs

All theorems hold for all values of the constants that the named assumptions of
the modules admit; no number of goroutines, keys or messages is fixed.

| module | theorem | states |
| --- | --- | --- |
| `LruSfProofs` | `TypeCorrect` | `Spec => []TypeOK` |
| | `ListAndMapAgree` | `Spec => []CacheConsistent` |
| | `FlightsAreHeld` | `Spec => []FlightsHeld` |
| | `KeysKeepTheirValues` | `Spec => []NoCrossTalk` |
| | `EvictionsAreHanded` | `Spec => HandedToOnEvict` |
| | `CacheImplements` | `Spec => ImplementsLoadingCache` |
| `ChatStatProofs` | `CountsAreKept` | `StatSpec => []CountsKept` |
| | `RowsNeverShrink` | `StatSpec => RowsOnlyGrow` |
| | `FlushesSaveCached` | `StatSpec => FlushSavesCached` |
| `ChatCfgProofs` | `SecondOnlyByEviction` | `CfgSpec => []SecondOnlyIfCrossed` |
| | `PressesAreKept` | `CfgSpec => []PressesKept` |
| `HandlersProofs` | `SessionsTyped` | `Spec => []TypeOK` |
| | `HistoryIsRemembered` | `Spec => []MemoryIsHistory` |
| | `NothingStaysPending` | `Spec => []NothingPending` |
| | `TurnsStayWhole` | `Spec => WholeTurns` |
| | `LimitIsKept` | `DlSpec => []DownloadsCounted` |
| | `FileIsShared` | `DlSpec => []SharedFileKept` |
| | `EntryIsKept` | `NsSpec => []EntryKept` |
| | `LastTextIsShown` | `DbSpec => []LastTextStays` |
| | `MediaKeepsTypes` | `MediaSpec => []MediaTypeOK` |
| `ServicesProofs` | `ConfigIsFollowed` | `LcSpec => []ConfigFollowed` |
| | `EditsAlwaysArrive` | `LcSpec => []EditsArrive` |
| | `FilesAlwaysKept` | `PfSpec => []FilesKept` |
| | `CountersAlwaysCount` | `PicSpec => []CountersAreCounts` |
| | `RatesAlwaysAddUp` | `PicSpec => []RatesAddUp` |
| | `RatesAlwaysKept` | `ExSpec => RatesKept` |
| | `CachedPromptAlwaysRow` | `SpSpec => []CachedPromptIsRow` |
| | `ServicesKeepTypes` | `ServicesSpec => []ServicesTypeOK` |
| `CommandsProofs` | `MapsStayTogether` | `Spec => []MapsAgree` |
| | `AttrsAlwaysAddUp` | `AttrSpec => []AttrsAddUp` |
| | `SegmentsAlwaysLocal` | `TimeSpec => []SegmentsAreLocal` |
| | `BackupAlwaysKept` | `BackupSpec => []BackupKept` |
| | `CaptionsAlwaysClose` | `CaptionSpec => []CaptionCloses` |
| | `DiceAlwaysFollowRules` | `DiceSpec => []DiceFollowRules` |
| | `MessageAlwaysFits` | `NmSpec => []MessageFits` |
| | `ReportsAlwaysTrue` | `ReportSpec => []ReportIsTrue` |
| | `TurnsAlwaysInOrder` | `RoundSpec => TurnOrder` |
| | `CommandsTyped` | `CommandsSpec => []CommandsTypeOK` |
| `CalculatorProofs` | `AlwaysCalculatesRight` | `CalcSpec => []CalculatesRight` |

Everything a theorem needs of the constants is in the assumption that their module
names, and TLC evaluates each of them in a run. Most say that a marker
(`None`, `NoOne`, `NoTable`) is not one of the values it marks the absence of, that
limits are positive, and that numbers are numbers. Those that say more: keyFn is
injective (`KeyFnAssumption`, the comment at its declaration demands it); a load
takes any free object (`ObjAssumption`); tables are published at least once in the
time that is looked at (`ExchangeAssumption`); raters are finitely many and rates
within the limits of the table (`PicAssumption`); a day has a whole number of
stretches of ten minutes (`StatTimeAssumption`); the ints of the dice have room for
the 20 of `/roll`, counts, faces and the number of a modifier are natural numbers
(`DiceAssumption`, from the expression that messages are matched with); a malformed value
is no number (`LinkedCfgAssumption`); an int of the attributes has a bit at least
(`AttrAssumption`); the names of a battle's characters are finitely many
(`RoundAssumption`); texts are made of the characters the module tells apart
(`NormaliserAssumption`). `Calculator` assumes nothing.

**Data.** `DataProofs` has what the arguments below share. The lemmas on the recency
list say what pushing to the front, unlinking and dropping the back do to its keys,
its values, its entries and their order. Those on sums say that
`SumFunctionOnSet`, a CHOOSE of a function, is a sum: it exists for every finite set,
adds the rest of the set to one of its members, and is kept by renaming the members.
The library's induction takes an operator and is out of reach; in its place
a smallest counterexample is refuted (`LeastNatural`, `SmallestSubset`, from the
well-founded inclusion of finite sets), and `ByAppending` and `ByCounting` take the
set of the sequences, or numbers, for which a statement holds.

**Cache.** From the four assumptions of `LruSf` (the cap is positive, keyFn is
injective, `None` is not a value, results and failures are disjoint). None of the
invariants is inductive. `IInv` adds what the code relies on at each place
(`WellPlaced`: a goroutine about to add holds a value of its key) and that the
goroutine inside a flight is the one `g.m` has for its name (`LeaderFlies`); it is
split into `CacheInv` (list, map, capacity) and `ControlInv` (places and flights),
for a step disturbs mostly one of them. `SingleFlight` then follows: two leaders
of one name are both the value of `flight` at that name. That a waiter's flight
ends only through `Finish`, which wakes it, is what keeps `NoOrphanWaiter`.
`HandedToOnEvict` needs `EvictedPlaced`: a goroutine has an entry in hand exactly
where it is about to call `onEvict`.

*The refinement.* `RefInv` is `IInv` with `OnlyGetsAsk`. Each action maps to
one step of `LoadingCache` or to none: a hit, a recheck that hits, an `Add` and the
adding of what was fetched move one key to the front of the relation, and the victim
is older than every other because it is the last of the list (`FrontOrder`);
`Join` and `Lead` join a load, `Finish` answers all that joined it. For that a
flight must be the one of its key, which is where keyFn's injectivity comes in.

**Users of the cache.** Both proofs rest on what is *in use*: `Kept` are the entries
that are listed or in the hands of a goroutine that evicts them, `Uses` adds what
goroutines have got or are about to list. `LruSfProofs` shows once how each step of
a Get changes these sets (`GetsInv`; a fetched key is not listed, `FetchedMisses`,
for these users never call `Add`), and both modules build on it.
For statistics `StatInv` says that an object in use counts for its key, that there
is one of a key unless the key is astray, and that it has all its increments; the row
has them when no entry of the key is kept (`RowsCount`) - an eviction is thus the one
moment in which the row may lag, and the callback ends it. `FlushKept` is the same
for a flush under way: of the keys it has already seen the row has what was due.
For configurations `CfgInv` adds the saves: who saves has the object in
use, has read what the fields still are, and is the only one to save it, up to
`crossed` (`SavesOwn`, `ReadsCurrent`, `OneSave`).

**Battles.** From the assumption that `None` is neither a chat nor a battle. If a
chat's entry names a battle that is not in `battleMap`, some handler is between
the two accesses that would make them agree. It stays a witness when another
handler frees a chat, because a handler frees the chat its own battle was started
in, and the witness's battle belongs to a different chat: `OwnChat` (the battles
of entries and handlers were started in their chat) and `Equipped` (a handler
under way has its chat and battle) make the invariant inductive. That two battles
need a race (`SecondOnlyIfCrossed`) rests on where a battle can be: a handler that
starts one is the only one with its name and has it in no map yet (`StoredOnce`),
one that was stopped is never stored again (`StoppedForGood`), and a battle of a
chat that has not been crossed is the one of the chat's entry (`OneInChat`).

**Turns.** `RoundInv` adds two things to the types and the order that `Ordered` states:
names differ, and nobody at or before the turn still waits for one (`WaitingAhead`), so
a round that ends has skipped nobody. Whether the list stays in order depends on the
command: a removal keeps it, and the other two sort, so what they leave is in order
whatever they began with (`RankedIs`, by counting how many are smaller, and `ByOrderIs`).
An insertion or a removal moves the turn by comparing orders, or places; that this is the
place where the same character ends up is what the lemmas about each command show.

**Conversations.** From the assumption that `None` is no message, session or
address. A save changes the contents of one object and of one session in the
table. `MemoryIsHistory` survives it only if no other object in use stands for that
session (`Single`, again up to `crossed`) and the handler's object is one in use
(`Living`); a new session starts out right because the table has nothing of a
session to come (`Unwritten`). Objects are in use by way of maps and handlers, and
most steps only take references away: the lemma `Untouched` covers those, and
`OpensOne` the two steps that add one. For the turns, `OneTurn` (the session's
mutex lets one handler in), `OwnPending` (what is pending in a session is of the
turn in it, or abandoned) and `Known` (no session or turn has a message that is
yet to come, so the answer is in nobody else's). `OnlySavesWrite` splits the
action property: every step but a save leaves the table as it is.

**Downloads.** From a limit of at least one and finitely many requests. The counter
is the number of requests between their increment and their decrement
(`CountIsSize`, by `FS_AddElement` and `FS_RemoveElement` on that set); the ones
that run are a part of it and saw a counter within the limit. For the file,
`ShareInv` says of each place of a request what `stage` and `tmpPath` of its
result are (`ResultKnown`, `DirKept`), and that one request at most is inside the
Once (`OneUploader`).

**Media groups.** The entry's channel belongs to a photo in the part of its handler
that ends by deleting it, and is open (`EntryHasOwner`); a photo that collects has
the entry, unless it was stolen (`OwnersHaveEntry`); a photo that comes anew has
closed nothing (`ClosedHaveBegun`). Two collectors that are both not stolen from
would both have the entry.

**Debounce.** `OnlyTheLast`: until something is overtaken only the last text can
have a timer that is armed or a callback that waits, after `done` none has, and
when all is quiet the chat sees what it should or a request has failed.

**Configuration.** From the assumptions of `LinkedCfg` on files and names. The ids in
the code's variables are of configurations that were loaded (`ConfigsLoaded`), the
program is up before anybody gets a client (`StartedUp`, `GettersPlaced`), the
client fits its configuration unless the one with the lock is making another
(`FitsUnlessMaking`; here `gMu` is what makes it inductive), and the loggers have
the level of the current configuration but for the watcher's last step
(`LevelsFollow`). That edits arrive needs two things more (`FileFollowed`). What is
loaded has every key of the file that was read last, whether that was taken or refused;
and unless it has a malformed value it is the last configuration, and the watcher is busy
with that or has stored it. Hence a file that was read and is not in effect has, or
has dropped, a key whose loaded value is malformed. For the answer of a Get
(`AnswersSeen`): a Get compares sections of configurations, not configurations, so
what it returns may be a client made from an older one with the same section; it was
in effect during the call because no configuration in use is newer than the stored
one (`CurrentDuringGet`) and a section never goes again (`SectionsStay`, also through
refused loads, for merging takes no key away).

**Files.** `PfInv`: a photo in flight is fetched by one handler and is not cached
until its entry is added (`PrprPlaced`); a file that waits to be removed is
nobody's any more, unless the photo was looked for again (`FilesKnown`), and those
who make one sticker at a time know it (`SharersKnown`).

**Pictures.** The counters (`PicInv`) are compared with the number of the saved pictures of
a rate; a statement moves one picture from one rate to another, and its trigger
both counters, unless one has no row. `SumsPlaced` is what the sums need: it says
of *every* picture, not only of those that are not early, that it is short of at
most what its raters can have given. Without that bound the mean could leave the
range that a counter can have, and `PicTypeOK` could not be kept. The draw
(`SumsRise`) needs only that prefix sums do not fall.

**Exchange rates.** `ExInv`: a table in the cache is empty or was published, by now
(`TablesPublished`), and the currency that blocks the others was not due when
it did (`BlockedIsFresh`).

**Prompts.** `SpInv`: a look-up that nothing has crossed stores the row as it is; a
command that has yet to write its row has emptied the map (`EmptiedWhileWriting`).
`CachedPromptIsRow` alone is not inductive, for it is silent about topics with a
command under way.

**Commands.** Attributes: who is about to save has read what is still the row
(`ReadIsRow`). Day and ten minutes: every message was put where the chat's clock says,
by statistics loaded with the chat's zone (`PutByTheClock`). Backups: a copy at any
of its parts is the beginning of a database of one moment (`CopiesWhole`), and files
are streamed in the order of the selection when all of them are there
(`StreamedInOrder`). Captions, dice and reports hold for every input; what is
inductive is that the input is one that can be asked for. The lemmas do the work:
each branch of `buildCaption` leaves room for the tag that closes it; the quotients
of an ability are in the order of the grades, and no sum that did not wrap is below those
of a negative one; a sum of dice with its modifier wraps only if it is too large; a descending order
splits a sum into the ranked and the rest (`SumReindexed`, `SumOfParts`).

**Documents.** `NmInv`: the text is counted and kept, and the marks lie between
characters and nest. That is not inductive by itself, since a node is marked when it is
closed, after all the marks inside it: so no mark crosses the place where an open
node *began* (`NodesUncrossed`), and nodes begin in the order in which they were opened
(`NodesLie`). That the text is kept compares what is written with what was read of the
whole document: joined texts show what the parts show (`FlattensJoin`, `TextsJoin`), and
`plainText` of an item, a cell or a label shows just what `LeftOut` does not take from
it (`PlainAndKept`). That texts of any length are counted right is by `ByAppending`.

**Calculator.** The models of its loops are recursive functions, each defined by a
CHOOSE, of which nothing is known before there is shown to be one. `RecursionExists`
shows that once: if a value follows from the values at smaller arguments, and
has its type when they have theirs, there is a function that has both at every argument.
`LoopExists` is the same for rounds that are numbered. The theorem then has four parts.

- *What is read is what is written.* A call reads from its token up to one where the
  loop ends, and the nodes are spelled, share no token, and bind as they must (`ReadFrom`,
  `ReadOn`; `WellRead` is the statement about a tree). For the induction a tree must also
  say what could be put around it: what it ends with binds tighter than all that may
  follow, what it begins with tighter than the power it was asked for (`RightTight`,
  `LeftTight`). The power of `^` to the right is one less than that to the left, and
  both directions of `Binds` depend on it.
- *Every expression is read.* `Expressions` splits a piece anywhere, the parser from the
  left. `Walk` is in between: an operand and what follows it, or what follows an operand,
  up to a given token; it takes no split but for brackets. `ExpressionStarts` makes one of
  every expression. A call that begins at an operand goes on to a place that only what
  follows an operand can reach (`CallsGo`), and at the lowest power the loop ends nowhere
  but at the end or before a bracket that closes. A `%` is read by the token after it: the
  two readings agree except before a bar (`PercentSeen`), hence the condition on `%|`.
- *The loops are exact.* Permutations and combinations have the product of factorials
  they should; the division in the loop of the combinations leaves no remainder because
  every partial result is a combination itself. Numbers in lowest terms are equal when
  their cross products are (`Dens`), and the powers by squaring keep the product of the
  result and the power that is left.
- *The quotients fit.* `//` rounds to zero and `%` is never negative, for all signs.

**What proving has changed.** `formatAbility` was a CASE whose guards overlapped, and
TLA+ leaves the choice between them open; it is the chain of ifs of the code now.
Steps that could not be proved gave the bound in `SumsPlaced`, and assumptions that
had been taken for granted: that a day is a multiple of the ten minutes, that
`None` is no entry, that there are raters, that an int has a bit. Two modules were
written anew in a form that can be reasoned about, with the same behaviour: sorting in
`BattleRound` counts who is smaller, where it left the choice of a sorted permutation to
the library; `Calculator` has recursive functions, where it had recursive operators, and
nodes named by their tokens in the place of nested trees.

## 6. What is not proved, and what is not modelled

Model-checked only: `GetReturns` and `EverybodyEnds`, which are liveness under
fairness and out of the prover's reach. The theorems about the parts of `media`,
`services` and `commands` are about the specifications of the parts; `MCMedia`,
`MCServices` and `MCCommands` only put these beside each other, and of them the
types are proved. The four expected violations are traces, and there is nothing to prove.

Below the models' granularity are data races on the fields of one object
(`ChatStatOfDay` copies a record without its mutex; a field of a `ChatCfg` is read
or written whole), the wording of messages and the encodings of rows. Orders of
characters whose difference overflows (`char_status.go:84`) are left out, and so is an
escaped space at the end of an item, a cell or a label, whose backslash `TrimSpace`
leaves behind (`Trimmed`).

Not modelled:

- Users (`udb_users.go`). What creates or updates a user is called by nothing in the
  repository; a look-up is one `LruSf`.
- The HTTP backend, the other routes of the inner server, the clients for images and
  search: requests without state of their own.
- The variable replacer, command and callback helpers, `ent2md`, Bilibili numbers:
  text to text, without state.
- Image work, the command lines and output of yt-dlp and BBDown: external.
- `*_gen.go`: generated, one statement per function; each statement is part of the
  step of the module that calls it.

## 7. Plan

The components that section 1 calls hard are modelled, and all their safety properties
are proved. What is left, in this order:

1. An abstract history of conversations that `GeminiSession` implements: whole turns
   are appended to sessions.
2. The tokenizer of the calculator, and the replacer, if they get state or limits
   worth a property.
