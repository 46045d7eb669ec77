# rcopy: a verification project

rcopy is a clipboard history for X11. A daemon, `rcopyd`, keeps the history in
SQLite and serves it over a Unix socket; a GTK window, `rcopy`, lists it and
asks the daemon to put an item back on the clipboard and to paste it. This
directory holds TLA+ models of that system, the TLC runs that check them, and
proofs about them for TLAPS. `PROJECT.json` maps each definition to the source
lines it stands for, and lists the runs, the mutants, the hazards, the findings
and the theorems.

Paths below are relative to `src/crates/`.

## 1. The system

### Components

| component | state | operations | correct when |
|---|---|---|---|
| payloads and protocol (`core/src/item.rs`, `daemon/src/ipc.rs`) | none | six requests, one response each | a response belongs to its request |
| repository (`storage/src/repository.rs`) | table `clipboard_items`, one row per content hash | `upsert_item`, `get_item`, `search`, `soft_delete`, `set_pinned`, `set_favorite`, `mark_used` | one row per content; marks change only as asked; a row is never removed; the order by last use is total |
| ranking (`core/src/search.rs`) | none | `rank_items` | pinned, then favorite, then latest; only what matches |
| service (`daemon/src/service.rs`, `capture.rs`) | the repository and two backends | `capture_current`, `search`, `restore`, `soft_delete`, `set_pinned`, `set_favorite` | each takes effect once or not at all, awaits and failures notwithstanding |
| connections (`daemon/src/ipc.rs`) | one task per connection, a mutex around the service | `handle_client`, `dispatch_request` | one request at a time; every request answered |
| X11 clipboard backend (`integration/src/clipboard.rs`) | none of its own; the X11 selection and `xclip` processes | `read_supported`, `write_mime`, `normalize_plain_text` | what is stored is what was offered; what is written comes from the item; a document keeps its words |
| paste backend (`integration/src/paste.rs`) | none | `xdotool key ctrl+v` | what is pasted is the item asked for |
| picker window (`picker/src/ui.rs`, `view_model.rs`) | search entry, list, selected index, threads in flight, message channel | keys, `build_ui`, `attach_receiver` | the selection is on a row; requests name known items; the list settles on what was asked |
| IPC client (`picker/src/ipc_client.rs`) | none | connect, write a line, read a line | |
| single-instance guard (`picker/src/main.rs`) | lock file, toggle marker, the processes the shortcut starts | `acquire`, `Drop` | at most one window; a press closes it; what is left of an earlier process never blocks the shortcut |
| socket start-up (`daemon/src/ipc.rs`) | the socket path, the daemons that run | `prepare_socket_path`, `bind` | clients reach a daemon that serves |
| configuration, socket path, `select_supported_mimes`, scripts, test doubles | none | | |

### How they interact

Each user action in the picker starts a **thread**, which makes one request on
a connection of its own and posts the result on a channel; a timer of the
window's thread (every 50 ms) drains the channel and changes the list. In the
daemon each connection is a **task** of one single-threaded runtime. A task
reads its line, waits for the service mutex, and holds it until its response is
ready, across every `await` of the request: a capture awaits up to four
`xclip -o` processes, a restore an `xclip -i` and an `xdotool`. Each `xclip -o`
talks to **whoever owns the selection at that moment**, which can be any
program, the `xclip` an earlier restore left behind, or nobody. The paste key of
`xdotool` goes to **whichever window has the focus**, which the daemon does not
know. Pickers know of each other only through the **lock file** and the
**marker** of the last toggle, daemons only through the **path of the socket**.

### What is hard

* **Interleaving**: requests suspended at an `await` meet other requests and
  other programs. Only the mutex keeps them apart.
* **Torn reads**: a capture is a sequence of separate reads.
* **Partial failure and crash**: a restore writes, marks, then pastes; any of
  the three may fail and the daemon may die between them. `systemd` restarts it.
* **Hanging peers**: an owner of the selection that does not answer.
* **Overtaking**: the picker's threads report in any order; its list may be
  older than the history by any amount.
* **Start-up races**: looking at a file and acting on it are two steps, for the
  lock and for the socket; a process may die between them and leaves the file.
* **Conversions**: a text is cleaned when it is captured and again when it is
  restored; the picker has its own copy of the scans; times are ordered as texts.
* **Limits**: the query window of 500 rows is cut before the ranking.

Every hazard, at its line, with the properties that cover it or the reason none
does, is in `PROJECT.json`.

## 2. The modules

    ClipTypes <- Repository <- AtomicService <- Picker <- MCPicker, PickerProofs
        ^            ^              ^  ^          ^----- (P: refinement) --- Session
        |            |              |  ^------- AtomicServiceProofs, MCAtomicService
        |            |          (Svc: refinement)
        |            +---------- Daemon <------ MCDaemon, DaemonProofs
        |            |              ^---------- Session <- MCSession, SessionProofs (on DaemonProofs)
        |            +---------- RepositoryProofs (used by other proofs)
        |        (R: refinement)
        +------- Timestamps <-- MCConversions, ConversionsProofs --> HtmlText

    PickerLock <- MCPickerLock, PickerLockProofs
    SocketPath <- MCSocketPath, SocketPathProofs

**ClipTypes** is the vocabulary: payloads, requests, responses, and
`WriteMime`, the choice of the one representation a restore can write. Texts,
HTML and images are opaque. Cleaning a text (`normalize_plain_text`) is the
constant function `Cleaned`, which texts contain a search string the constant
`Hits`; nothing else is assumed of either. A request line that does not parse,
or is no text at all, is the request `malformed`.

**Repository** has the table as `rows` (a function from ids, `NoRow` where there
is none, and nothing else but rows with something in them, `Content`) and
`last_used_at` as `lastUsed`, the rank of a row in the order of
last use. One operator per SQL statement; `Listings` is the listing query
followed by `rank_items`. Two abstractions are made here. The content hash is a
framed SHA-256, so the payload stands for it. And the wall clock is taken to
move forward between two writes; that the texts in the column then give these
ranks is what **Timestamps** shows.

**AtomicService** is the abstract specification: what a client may rely on. A
connection has a request pending, then done; between the two it takes effect in
one step, fails with an error the code can produce in that state and no effect,
or its connection is lost. The history is the only other state.

**Daemon** is the code. `pc[c]` is where the task of connection `c` is, `job[c]`
the locals it keeps across an `await`, `queue` the mutex, `clip` the X11
selection, `up` the process. There is one action per stretch between two
`await`s:

| code | actions |
|---|---|
| `handle_client` | `Send` (the client's line is in the socket), `Accept` (parse, queue at the mutex), `Granted` (guard of the first step of every request), `Answer` (the mutex is released, the response is ready), `Reply`; `ReadLineFails` for a line that is not UTF-8, whose connection is closed without an answer |
| `search`, `soft_delete`, `set_pinned`, `set_favorite` | one action each: they have no `await` |
| `capture_once`, `read_supported` | `BeginCapture`, `ListTargets`, `ReadText`, `ReadHtml`, `ReadPng`, `StoreCapture`; `ReadFails` for an error, non-UTF-8 output or the two-second cut-off of any of the reads |
| `restore` | `BeginRestore` (row, representation), `Write` / `WriteFails`, `Mark`, `Paste` |
| SQLite errors | `StorageFails`, at each place a statement runs |
| other programs | `TakeSelection`: at any time, to any selection of `Outside`, a hung owner included |
| the process | `Crash`: tasks and connections vanish, the table stays, the `xclip` that serves a restored item may go with its service; `Restart` |

A capture's failed read releases the mutex and drops what was read before, as
`?` does in the code. A restore of a deleted row works, as `get_item` does not
look at the mark; it does not undelete the row.

**Picker** puts the window in front of `AtomicService` (which `Daemon`
implements, so the picker need not be checked against the larger module). `work[c]` is
the thread that uses connection `c`, `inbox` the channel, `items` and `sel` the
view model (the index counts from 1), `typed` the search entry. There is one
action per key, per step of a thread, and per kind of `UiMessage`. `Close` ends
the process with all its threads: what was sent stays with the daemon
(`Discard`), what was not is never sent. `Open` starts the two searches of
`build_ui`, the second after a capture.

**Session** is the composition: `Picker`'s window and threads on `Daemon`
itself. `Picker` is instantiated with `call <- Calls`, the daemon's connections
as a thread sees them, and each step of a connection is a step of both modules.
New are `focus` (the window that gets the keys: a picker that opens takes the
focus, one that closes gives it back, and the user may turn elsewhere) and
`cut`: when the daemon dies all connections end at once, and each thread
notices in a step of its own. `given` and `kept` are history variables for
`ClosesOnItem`. The refinement `PicksOnDaemon` says that the session is a
behaviour of `Picker`, so that what is shown of the picker on a service that
answers in one step holds on one that suspends, times out and dies.

**PickerLock** is `SingleInstanceGuard`, one action per file operation:

| code | actions |
|---|---|
| `acquire` | `Press` (the desktop starts the process), `Check` (the marker), `Create` and `Write` (`create_lock`: open, then the pid), `Read`, `Judge` (`/proc/<pid>`), then `Mark` and `Kill`, or `Remove` and `CreateAgain` |
| `ui::run`, `Drop` | `Run` (GApplication lets a second process ask the first for its window), `CloseWindow`, `Drop` (removes the lock at the path, whosever it is) |
| signals, time | `Terminate`, `Crash` (at any step; the files stay), `Expire` (700 ms) |

Each of these operations may fail. A lock that cannot be created or written loses
the press (`GiveUp`). Everything else the code goes on without: a marker it cannot
read is old, a lock it cannot read is nobody's, and a marker not written, a lock
not removed or a `kill` that was refused is not noticed. Three history variables phrase
the properties: `alone` (who passed the marker with no other picker alive and was
not crossed by another press), `failed` (who died, or whose own creating, writing,
removing or killing failed), `disturbed` (since the last moment without a picker
two starts were at the lock at the same time, or one could not read the lock of a
living picker).

**SocketPath** is the start of a daemon: `Stat`, `Unlink`, `Bind` are the system
calls of `prepare_socket_path` and `bind`, `Start` and `Die` what systemd, users
and failures do. The path holds nothing, some other file, the socket of a
daemon that is gone (`stale`), or that of one.

**HtmlText** is what becomes of a text that is an HTML document: `Clean` is
`normalize_plain_text` (what is stored, and what is written), `Preview` the
picker's `plain_text_preview`. A text is a sequence of the pieces the scans tell
apart (brackets, the ends of a comment, white space, ampersand, entity names,
words), `Alphabet` all of them. A scan keeps where it is in the text (in a tag, in
a comment, after an ampersand, ...); each of them is a table (`Comments`, `Tags`,
`Names`, `Spaces`) that says, for that and the next piece, what is written and
where it is then, and `Scan` goes over a text by such a table. `&quot;` and `&#39;` are left out as they go the
way of `&lt;`, `<!doctype html` as it goes the way of `<html`.

**Timestamps** has the column `last_used_at` as the text that `to_rfc3339`
writes, without a fraction or with three, six or nine digits, compared byte by
byte. It is shown to implement the operations of `Repository` with the ranks of
the texts as `lastUsed`.

Next to some operators there is a second form of it, commented as what a wrong
implementation would do (`InsertAlways`, `GrantedAnyone`, `JudgeNobody`, ...).
No specification uses these; they are the mutants with which each property was
seen to fail.

## 3. The runs

TLC finishes every passing run within a minute and a half.

| run | instance | what it asks |
|---|---|---|
| `atomic_service` | 1 connection, 3 contents, window of 2 rows, 107,817 states | do the promises of the abstract service imply what users are told: no duplicates, a total order by use, one answer to a search, marks changed only by their own request, deleted rows brought back only by a capture, listings that show one state of the history |
| `daemon` | 2 connections, 2 contents with HTML, 129,322 states | captures, searches, deletes and pasting restores interleaved with programs that take, drop and block the selection, and crashes: the inductive invariant, each safety property, and the refinement of `AtomicService` |
| `daemon_every` | 2 connections, every request, 1 content, an image, 147,190 states, fairness | the same refinement for the whole protocol, with malformed lines; is every request answered or its connection closed |
| `stored_if_present` | 1 connection | (violated) is a capture that read something stored |
| `picker` | 2 threads, 2 contents, 257,547 states | windows that open and close, typing, moving, restoring, deleting, lost requests: the inductive invariant `PickerInv`; is the selection on a row, are all requests for known items |
| `picker_live` | 2 threads, 1 item, every key, 408,275 states, fairness | does Enter always end: the window closes or an error is reported |
| `filtered` | 3 threads, reliable daemon | (violated) does the list settle on what the entry says |
| `session` | 2 connections, 2 contents, 429,554 states | is the picker on the real daemon still `Picker`; when a restore closes the window, was its item written, and does the selection hold it |
| `paste_target` | same | (violated) does the paste key reach the program used before |
| `picker_lock` | 3 presses, 55,469 states, fairness | one window unless starts disturb each other; does a press that comes alone always open it; does a press that comes while a window is open close it |
| `socket_path` | 3 daemons, 1 of them systemd's, 2 deaths, 861 states, fairness | when the dust has settled, is a daemon reachable; is one again after a crash |
| `conversions` | texts of 4 pieces after each head, 10 pieces; 2 rows, 16 readings of the clock; 38,557 states | are words kept, decoded once, shown as pasted, unchanged by a second cleaning; is the order of the texts of times the order of use |

### Bounds, and why they are enough

* **Ids.** A capture needs a free id, so an instance with too few would lack
  behaviours. In every instance the programs are chosen such that torn captures
  included there are no more contents than ids: an id is never missing.
* **Connections.** The mutex has a holder and waiters; two tasks show every
  pairwise interference. Waiters behind the second only add delay. The proofs
  cover any number.
* **`SearchLimit` = 2** stands for 500; with three contents the window is
  smaller than the history, with two it holds all of it.
* **`MaxUnread`** bounds the picker's threads and unread messages, which have no
  bound in the code. Two requests in flight are enough for one to overtake
  another; `filtered` uses three because the window's two start-up searches are
  in flight as well.
* **Keys.** `picker` has all but the two marks, which only `picker_live` has;
  `session` has Down and Return, which are enough for two restores of one row or
  of two.
* **Pasting.** The instance of `daemon` only has restores that paste, whose
  steps include those of a restore that does not; `daemon_every` has both.
* **Presses.** Three processes are a window, a press that toggles it and one that
  crosses the toggle, or a window that follows one whose lock was left. The proofs
  of the three safety properties cover any number.
* **Daemons.** Three are one that serves, one that removes its socket and one
  that looks at the path in between. `MaxDeaths` ends the deaths, without which
  nothing is ever settled.
* **Pieces.** Four after a head are a comment around a bracket, a document in a
  document, an escaped entity, or a tag between words.
* **Times.** Two seconds, in each of which every group of three digits may be
  zero, give every pair of widths, within a second and across.
* **Symmetry** is used for ids and connections, in safety runs only.
* **Deadlock** is checked in every run but `picker_lock`, `socket_path` and
  `conversions`, which stop when every press was made, when the deaths are used
  up, or when the text has its length.

### Fairness

`Daemon!Fairness`: the runtime polls a task that can go on (weak fairness of
`Accept`, of a task's next step `Serve`, of `Reply`), and `systemd` starts a
failed service again (`Restart`). For a read this is justified by
`COMMAND_TIMEOUT`: `ReadFails` is enabled during each read, so a hung owner
cannot block it, and with the cut-off removed (`ReadFailsAnswering`) `Answered`
fails. It is an **assumption** that `xclip -i` and `xdotool` end: the code has
no cut-off for them, and one that hangs holds the mutex for good. Nothing is
assumed about clients, other programs or crashes.

`Picker!PickerFairness`: threads run, the timer ticks, the daemon serves (which
`Answered` shows). Nothing is assumed about the user.

`PickerLock!Fairness`: a start goes on until it has the lock or leaves, and a
signal that was sent arrives. Nothing is assumed of the user, of a window once it
is open, or of what fails. `SocketPath!Fairness`: a starting daemon goes on, and systemd
starts its own again (`Restart=on-failure` in `scripts/setup-x11.sh`; that
systemd gives up after several failures in a row is left out).

## 4. What is found

Each of the violated runs checks a sentence of the documentation, quoted in
`PROJECT.json` under `findings`:

1. *Paste back into the previously focused application.* The daemon pastes, then
   answers; the window closes on the answer. The key goes to the picker's own
   window, unless the user has turned away from it.
2. *"If at least one supported payload is present, the item is stored."* Text
   that was read is dropped if the image (or HTML) read after it fails or times out.
3. *Filter.* Results are shown in the order of arrival; an earlier query's, or the start-up
   search's, may replace the last one's. This is checked with a daemon that
   answers every request (`Reliable`), so it is not the result of a lost one.

Conditions that properties had to be given, each a limit of the code:

* `OneWindow` and `ClosesOpen` hold unless two starts look at the lock at the same
  time, or one cannot read the lock of a living picker. Then one may remove the
  other's lock, and GApplication opens both windows in one process; the lock may
  name neither, and the shortcut opens further windows until all are closed. Besides,
  a press whose `kill` was refused counts as a toggle, and the window stays.
* `Reachable` holds unless the daemon that took the path from another dies: the
  other runs on without clients.
* `RestoredIsStored` and `ShownIsPasted` hold for documents without entities. A
  document whose entities spell markup is stored with that markup, cleaned of it
  by the restore, and previewed with its entities.
* `ClosesOnItem` names the item only if no other was restored since the window
  opened: of two quick Enters on two rows the later one decides what is on the
  selection, whichever answer closes the window.
* `UndeletedOnlyByCapture` allows that a deleted item comes back with the capture
  of the next window, if it is still on the clipboard.
* `CaptureUndisturbed` is about the daemon's own restores. Another program may take
  the selection between two reads of a capture, which then stores the text of one
  and the image of the other; the abstract service allows any such mix (`Readable`).
* `ListingsHonest` says nothing of a pinned row beyond the latest 500: the
  window is cut before the ranking, so it is in no listing.

## 5. The proofs

`tlapm` checks every proof; there are no unproved assumptions but the
`ASSUME`s of the modules: finite sets of ids and connections, `None` and `NoRow`
outside the values they are told from, `Cleaned` and `Hits` functions,
`SearchLimit` positive, times tuples of natural numbers, the
texts to begin with made of known pieces, requests and selections well-formed, other programs'
selections not owned by the daemon's `xclip`, at least two threads for a window
and known keys only, `NoProc` no process, and the words for what is at the
socket's path no daemons. TLC evaluates each of them in the runs.

**RepositoryProofs** has the lemmas: each statement preserves
`StoreInv`, that is the types, `UniqueHash` and `RankedOnce`; what each leaves
alone; and which response types the helpers build. `RankedOnce` is inductive
since `Touch` puts one row first and moves down exactly the rows that were
ahead of it. `UniqueHash` is since `Upsert` inserts only when no row, deleted
rows included, has the content. For the listings, the number of live rows used
after a row is a bijection between the live rows and 0, 1, 2, ...
(`LivePlaces`, from `RankedOnce`); so the window of `LIMIT` has the smaller of
`SearchLimit` and all (`WindowSize`), and a listing with fewer rows and no
search string shows every live row (`ListingSound`).

That a search has one answer (`StoreListing`) is about the comparisons of
`rank_items`: with `RankedOnce` they put the live rows in a strict total order
(`BeforeOrder`). Then the number of rows before a row, among those found, gives
each a place of its own, without a gap (`PlacesFilled`); the sequence of the rows
by place is in order, and in any sequence in order each row is at its place, for
the rows before it are those at the smaller indices (`OrderPlaces`, `OneOrder`).

**AtomicServiceProofs** proves `TypeOK`, `HashesUnique`, `RanksDistinct`, and
the action properties `MarksKept` and `UndeletedByCapture`, for every step of
the abstract service, from the invariant `TypeOK /\ StoreInv`;
`ListingsAreHonest`, for a search, the only step that answers with items; and
`ListingUnique`, that this listing is the only one.

**DaemonProofs** proves `Spec => []IInv` and, from it, the safety properties that
the `daemon` run checks. The properties are not inductive alone:

* `PastesItsOwn` needs `OwnsSelection`: from the *write* on, not only at the
  paste, an `xclip` that owns the selection is this restore's. That is preserved
  by another task's write only because there is none: `OneAtATime`.
* `OneAtATime` needs all three of its parts: the holder is the head of the
  queue, a task is in the queue exactly when it waits or is served, and no
  task is in it twice. The last two are needed when the head leaves, and for a
  task that joins.
* `WritesItsItem` needs that no empty payload is ever stored, so that there is always a
  representation to write. This is a part of `TypeOK` (`Content`), and holds by
  the check in `StoreCapture`. It also
  relies on rows never being removed and their content never changing, for the
  row a restore read before its `await` is still there after it.
* `ReadsInOrder` and `RequestsWait` say which locals and requests a place of a
  task can have; the response types and `job` need them.

`CapturesUndisturbed` follows step by step from `OneAtATime`: a step that
changes the selection is `TakeSelection`, `Crash` or a `Write`, and the last
one's task is the holder, so no capture is reading.

`TableSound` has `UniqueHash`, `RankedOnce` and `OneListing` of the interleaved
daemon.

Its second half proves that the daemon implements the atomic service,
`Spec => Atomic`, one action at a time. `View` is what the service sees of a
task: nothing while it is idle, a pending request until its effect, a response
from then on. Most steps are stutters; the invariant says why the others have
an effect that the service allows:

* A restore takes effect at `Mark`, where the row it read before its `await`
  must still be there and, for plain text, have a text: `WritesItsItem`. What
  comes after, the paste and its answer, is not seen.
* A capture takes effect at `StoreCapture`; that what it read is something a
  capture of the service can read (HTML only without a text) is `ReadsInOrder`.
* An error is one the service allows for that request in that state, for which
  the request must be known where the error occurs: `RequestsWait`.
* A crash ends all connections in one step, which is the service's `Drop`.

With `Implements` the theorems about the service hold of the daemon:
`DaemonKeepsMarks`, `DaemonUndeletes` and `DaemonListsHonestly` cite
`AtomicServiceProofs`, instantiated as `Daemon` instantiates `AtomicService`.
`SameService` shows that the two instances are the same specification.

**PickerProofs** first proves `PickerServes`, `PickerSpec => Spec`: the picker is a client of
the atomic service, so what `AtomicServiceProofs` shows of the history holds
with a picker running. It then proves `PickerSpec => []PickerInv`, from which `PickerTypeOK`, `SelectionShown` and `NeverNotFound`
follow:

* `NeverNotFound` is about a response; to be inductive it needs every place an
  id passes on its way from a listing back to a request: `CallsKnown` (the call
  in progress and its response), `InboxKnown` (responses not handled yet),
  `ListKnown` (the list on the screen), `WorkKnown` (what a thread has still to
  ask). All of them name rows of the history, and stay true since no step
  removes a row (`KnownKept`).
* A response's items reach the list only through a *search*. `ThreadsFit` ties
  the call of a thread to the first request it has to make, and its response to
  the kind of that request.
* `SelectionShown` is inductive once a response's listing is a sequence
  (`PickerTypeOK`): a shown listing resets the index, `remove_by_id` moves it
  back onto the last row.

**SessionProofs** composes. With `CutIdle` (a connection that is cut has no
task) each step of the session is seen, through `Calls`, as a step of `Picker`
or as a stutter: `PickerOnDaemon`, which rests on the refinement in `DaemonProofs` for the
steps of the daemon. With it the theorems about `Picker` hold on the daemon:
`SessionTypeCorrect` and `SessionSafe` (`SelectionShown` and `NeverNotFound`)
cite `PickerProofs`, instantiated as the session instantiates `Picker`. These
have the hypothesis `~Reliable`, the daemon as it is: `Reliable` takes away
failures of the service that `Session` does not take from the daemon.

`RestoreCloses` is about window and selection, and has an invariant of its own,
`GInv`: a message in the channel that a restore is done names an item that was
written since the window opened (`InboxGiven`); so does a task that has written
for a thread of the window (`ThreadGiven`), which serves the request that thread
waits for; a closed window has neither threads nor messages (`Shut`), so
nothing of an old window is taken for the new one's; and the selection, while
nobody else took it, holds an item of those written (`KeptShows`).

**PickerLockProofs** proves `LockInv`, and from it `OneWindowAtATime` and
`AloneAlwaysOpens`, for any number of presses, crashes and operations that fail.
Undisturbed, one start at a time touches the lock (`OneTouches`), whoever got past it holds it and is named
in it (`HoldersNamed`), and a start that touches it beside a holder is about to
find the holder's pid, never to write or remove (`TouchKnows`). `WriterCreated`
and `LockOfCreator` say whose file is at the path between creation and writing,
`WindowsOwned` that GApplication gives all windows to one process. For a press
that comes alone, `FoundHeld` (a pid that is found was written by a process
past the lock) and `AloneUndisturbed` (nobody else touches the lock until it
runs, unless an operation of its own fails) exclude that it finds somebody alive.

**SocketPathProofs** proves `SocketInv`, whose part `PathTaken` is the inductive
form of `Reachable`: while daemons serve, the path leads to one of them, or is
free and one that made it free is about to bind. A second one that binds then
fails, for the first one's socket is there.

**ConversionsProofs** is about texts of any length and any number of rows. The
induction it needs is stated without an operator as a parameter: a *set* that
contains the empty text and, with a text, this text and one more piece, contains
every text (`TextInduction`, from the well-foundedness of `<` by the library's
`WFMin`). Each use names the set of the texts for which the formula holds. A
scan is a recursive function on the positions of its text; that it exists and
satisfies its equation is itself shown by induction (`RunExists`,
`RunEquation`), and `ScanAppend` is its form for induction over texts: a piece
more is one step more. The tables are taken apart entry by entry once
(`CommentsTable`, `TagsTable`, ...), and no later proof looks into them.

* `CleaningIsStable`: a cleaned document without ampersands has no bracket and no
  comment left (`StripTyped`), so it does not look like a document again, unless
  it was left as it was.
* `PreviewIsPaste`: the two tag loops differ in what they write for the end of a
  tag, which is white space or nothing; they are in the same place after every
  text and have written the same words (`TagsAlike`, `AlikeWords`).
* `DocumentTextKept`: where the one pass is determines where the two scans are
  (`Shut`, `Open`); either the first scan lets a piece through and the second does
  what the one pass does, or the first drops it and the one pass writes nothing
  (`OnePass`, `TwoScans`).
* `EscapesDecodeOnce`: escaping is undone one entity at a time. After each
  replacement the text is the original one with one fewer piece escaped
  (`BlockReplaced`, `TextReplaced`), which needs that what is still escaped begins
  with an ampersand that the replacement does not take: the ampersand's own
  entity must come last.
* `TextsRankByUse`: the order of the texts is that of the times (`TextOrder`),
  by cases on the widths of the two fractions. `StampInv`, the inductive
  invariant, says that every row has the text of a time the clock has passed and
  no two rows have the same one; a write's new text is therefore later than all
  (`StampOrder`), and the number of later texts changes for the other rows as `Touch`
  says (`WriteTouches`).

### Only model-checked

Liveness under fairness, which is out of the prover's reach: `Answered`,
`RestoreEnds`, `ClosesOpen`, `Recovers`.

## 6. Not modelled

* **Presentation**: labels, ages, the status line, thumbnails, the preview of a
  text that is not a document. No property of them would be more than a
  statement of what is formatted how.
* **Configuration** (`core/src/config.rs`): `AppConfig` has defaults that no
  other code reads.
* **Socket path** (`core/src/socket.rs`): a function of the environment.
* **`select_supported_mimes`** (`core/src/mime.rs`): called by its own tests
  only. What runs is `offered_mime_for` and `select_single_write_mime`, which are
  modelled by the kinds offered and `WriteMime`.
* **Test doubles** (`MemoryClipboard`, `DisabledPasteBackend`) and **scripts**.

Left out of what is modelled:

* A clock that is set back, or gives two writes the same time: `last_used_at` then is
  not the order of use. `OneListing` says what the comparisons do with rows that have
  different ranks; for equal ones `sort_by`, which is stable, keeps the order of the query.
* A pid that is used again, by which a stale lock names another program.
* A daemon that dies while it writes to `xclip -i`, which then takes the
  selection with a part of the item.
* systemd's limit on restarts in a row.
* Two daemons that both serve share the database file, each with a mutex of its
  own; `Daemon` is one of them.

## 7. The plan

Done, in this order: `ClipTypes`, `Repository`, `AtomicService` (abstract),
`Daemon` (the code, refining it), `Picker` on top, and proofs about each; then
`PickerLock`, `SocketPath`, `HtmlText`, `Timestamps`, `Session`, the proofs about
them, and of the refinements: `Daemon` implements `AtomicService`, the
session implements `Picker`, so that what is proved at the top holds of the
whole.

Left, most important first:

1. Liveness of the session (`RestoreEnds` on the real daemon), from the fairness
   of both modules.
2. Two daemons on one database: statements of one between the statements of the
   other, which only SQLite keeps apart.
3. A row in the list that is removed above the selected one.
