# A TLA+ model of the FanXing helper

The FanXing helper is a Windows program for the viewers of a live-stream site:
a dialog with an embedded browser, a list of what happens in the room, and a
network library that enters a room over HTTP, listens to the room's gift stream
over TCP (ports 843 and 8080) and redeems gift tokens over HTTP. This directory
holds a TLA+ specification of its concurrent and stateful parts, TLC runs over
small instances of them, and theorems TLAPS checks for all instances.

Paths below are relative to `src/`. The first-party code is `FanXingUI/` (the
dialog), `Network/` (the library) and `FanxingMain/` (an older console
prototype that is not in the solution file); `third_party/` is vendored.

## 1. The system

| Component | Code | State | Operations |
|---|---|---|---|
| Stream framing | `Network/GiftNotifyManager.cpp` 67-107 | globals `Packet`, `pos` | `HandleMixPackage`, reset in `DoConnect8080` |
| Package dispatch | same file, 109-288, 333-412 | none of its own | `Notify`, `CommandHandle_*` |
| Message list | `FanXingUI/FanXingDlg.cpp` 334-357 | `messageMutex_`, `messageQueen_`, `count`, `InfoList_`, the window's message queue | `Notify`, `OnNotifyMessage` |
| Room session | `FanXingDlg.cpp` 64-70, 216-236; `FanXingUI/NetworkHelper.cpp`; `GiftNotifyManager.cpp` 290-331, 414-492; `Network/TcpClient.cpp`; `Network/Thread.cpp` | static `roomid`, callbacks, stop and answer events, thread handles, task queue and timer of the base thread | Nav, destructor, `Initialize`, `Finalize`, `EnterRoom`, `DoConnect843`, `DoConnect8080`, `DoSendHeartBeat`, `DoRecv` |
| HTTP requests | `Network/CurlWrapper.cpp`, its callers in `NetworkHelper.cpp` | `currentWriteData_`, the response members, easy handles, the statics `userid` ... `ext` | eight requests, `ExtractUsefulInfo_`, the gift retry loop |
| Cookies | `Network/CookiesManager.cpp` | none | `GetCookies` |
| Transcoders | `Network/utf_help.h` (no source includes it) | source and destination pointers | `UTF162UTF8`, `UTF82UTF16`, `ANSI2UTF8`, `ANSI2UTF16` |
| Codecs | `Network/EncodeHelper.cpp` | none | hex, url and code page conversions |
| Browser automation | `FanXingUI/WebHandler.cpp`, the buttons of the dialog | the external document | `Login`, `RewardGift`, `RewardStar`, `ClickXY`, `WaitFor` |
| Console prototype, start and hand-off | `FanxingMain/FanxingMain.cpp` 18-143, `GiftNotifyManager.cpp`, `TcpClient.cpp`, `CurlWrapper.cpp` | the locals of `RunTest`, `alive`, globals, two mutexes, a condition variable | `RunTest` with its requests, `Connect843`, `Connect8080`, `SendHeartBeat`, `globalNotifyFunction`, `globalNotifyFunction_601`, `Wait` |
| Console prototype, crawler | `FanxingMain/SearchHelper.cpp` (in no project file) | map of families, rows, a file | `GetExpiredFamilySingers` and what it calls |
| Console prototype, rest | `FanxingMain/` | | old copies of `Thread`, cookies, codecs |

Threads of the dialog program:

- **UI thread**: handles the Nav button (finalize the old session, make a new
  `NetworkHelper`, one HTTP request, post two tasks), `WM_USER_01`, and the end
  of the dialog.
- **base thread** of each session (`base::Thread`): runs `DoConnect843`,
  `DoConnect8080` and the timer's `DoSendHeartBeat` one after another.
- **receiving thread** of each of the two `TcpClient`s: loops over the stop
  event and `recv`; on 8080 it frames, parses, redeems gift tokens (twenty HTTP
  requests) and reports to the dialog.

They meet in the globals `Packet` and `pos`, in the static `roomid`, in the one
`CurlWrapper` of a session, in `messageQueen_` under `messageMutex_`, and in
`TcpClient::Finalize`, which signals a receiving thread, waits at most five
seconds and then calls `TerminateThread`. No request of `CurlWrapper` has a
time limit: a server that never answers keeps the thread that asked.

What is hard here: the boundaries of chunks, state of one connection seen by the
next, threads ended at any instruction, ordering between the tasks of a session
and its finalization, failing requests in the middle of retries. `PROJECT.json`
lists each hazard at its line, with the properties about it.

What makes each component correct:

- framing: every object once, in order, nothing of an object or of another
  connection mixed in;
- dispatch: nothing but a framing error loses an object, a token is redeemed for
  a gift only and once;
- message list: what is accepted is shown once, in order, and eventually;
- session: after `Finalize` nothing runs, callbacks and rooms are those of the
  session, one user of the `CurlWrapper` at a time, the UI comes back if the
  server answers the request of Nav;
- requests: a response belongs to one successful request, handles are released,
  a notice is reported after a success only, a login package is made of the
  answer its own room got;
- browser automation: a handler sends what it was asked to send unless somebody
  chose otherwise in its wait, and a login goes to its own document only;
- prototype: the first package on 8080 is the login package, whatever failed
  before; a token announced in time is redeemed, announcers do not block;
- crawler: rows are right and written once, and a failure costs what depends on
  it and no more.

## 2. Modules

| Module | Models | Uses |
|---|---|---|
| `MixPackage` | the receive loop and `HandleMixPackage`, character by character | |
| `MixPackageProofs` | theorems about it | `MixPackage` |
| `GiftNotify` | `Notify` over the packages of each chunk | extends `MixPackage` |
| `GiftNotifyProofs` | theorems about it, on top of those of the framing | `GiftNotify`, `MixPackageProofs` |
| `MessageLog` | abstract specification of the dialog's list | |
| `NotifyQueue` | `CFanXingDlg::Notify` and `OnNotifyMessage` | instance of `MessageLog` |
| `NotifyQueueProofs` | theorems about it, among them the refinement | `NotifyQueue` |
| `RoomVisit` | abstract specification of entering and leaving rooms | |
| `RoomSession` | dialog, `NetworkHelper`, `GiftNotifyManager`, `TcpClient`, threads | instance of `RoomVisit` |
| `RoomSessionProofs` | theorems about it, among them the refinement | `RoomSession` |
| `CurlRequests` | `CurlWrapper` and its callers | |
| `CurlRequestsProofs` | theorems about it | `CurlRequests` |
| `Heartbeat` | the heartbeat timer | |
| `ConsoleStart` | the prototype's start: six requests, the user data, two connections, the heartbeat thread | |
| `ConsoleHandoff` | its receiving threads, what they announce, and the gift loop | extends `ConsoleStart` |
| `ConsoleProofs` | theorems about the prototype | `ConsoleHandoff` |
| `SearchHelper` | the crawler | |
| `SearchHelperProofs` | theorems about it | `SearchHelper` |
| `WebHandler` | button handlers that wait by dispatching messages | |
| `WebHandlerProofs` | theorems about it | `WebHandler` |
| `MC*` | constants of the runs | the module they name |

`PROJECT.json` (`map`) gives for every definition the lines it stands for.

**MixPackage.** A character is an open brace, a close brace or another one; a
piece of text is the set of the stream positions it holds, so losing, repeating
or mixing text is visible and its wording is not. `Recv` is `DoRecv` and
`HandleData`; `ScanOpen`, `ScanClose` and `ScanOther` are the cases of the
switch with the `it++` behind them; `Return` is the end of the call, with the
assignment to `Packet`; `Connect` is `DoConnect8080` with its reset, enabled at
any moment because the thread of the old connection is terminated at any
moment. `Level` and `Objects` describe the stream: the brace count of every
prefix and the objects the server meant. `BracesDelimitObjects` says that the
count is zero exactly outside objects; text with an unbalanced brace breaks it.
`handed`, `packages` and `prev` are there for the properties.

**GiftNotify** adds the variable `next` of the range loop. An object has a
command and a kind of content. A complete package behaves as the code on that
content (`CallsFor`: the token to `notify601_`, the raw text, then the message
of the command, nothing when `asString` throws first). A torn package is a tail
of an object; the lenient root of JsonCpp may refuse it (`DropBatch`: the
`return` at 347), may find an inner object (`ReportTail`) or find a value
without members, where JsonCpp's assert is compiled out and the behaviour is
undefined (`Undefined` stops the process).

**NotifyQueue.** One action per lock, unlock, post and swap; `push_back` is a
read and a write. `PostMessage` fails when the window queue holds `PostLimit`
messages, and its result is ignored as in the code. `Terminate` is
`TerminateThread`, called by the UI thread when it is not in the handler. The
refinement mapping to `MessageLog`: the accepted messages are the list, then the
handler's local vector, then the shared vector.

**RoomSession.** The UI thread is a program counter through Nav, `Finalize`
(both clients, then the base thread) and `EnterRoom`; each base thread and each
receiving thread has its own. What is kept of received text is the set of
sessions it came from; what is kept of a token is the room it is redeemed with.
`messageMutex` and `posted` are a coarse version of `NotifyQueue`, enough for
who may block whom. `CreateNetwork` also empties the per-session bookkeeping
of the deleted sessions, so that equal situations are equal states. A chunk
carries at most one package here: `GiftNotify` has the batches.

**RoomVisit** says the same without threads: a visit is begun, tokens are
redeemed for its room and news reported while it lasts, it is left. The
refinement mapping: the visit begins when `EnterRoom` has stored the room and
ends when `JoinBase` returns to `Nav` or the destructor; a `GiftService` is a
`Redeem`, a posted message a `Report`, the handler's `Dispatch` a `Fetch`, and
everything else stutters. A thread that survived its `Finalize`, or a request
with the room of another session, would be a step no visit allows.

**CurlRequests.** The eight requests have one shape (`Shape`): lookups of
cookies, `curl_easy_init`, options, perform with its write callback, copy of
the response, clean-up; they differ in the number of lookups, in whether the
body goes to `currentWriteData_` and in when it is copied
(`getMyUserDataInfo` copies before performing). Callers are `EnterRoom`,
`NotifyCallback601` and, for the login requests, a program like the console
prototype. `Nav` ends the helper there is, in the middle of a gift request
perhaps (`killed`), and begins the next with an empty wrapper. The statics
`userid` to `ext` outlive it: `Extract` writes them one after the other, stops
where the answer lacks one, and posts `task` only with all of them;
`DoConnect8080` leaves the easy handle of `UrlDecode` and makes the login
package. A piece of user data is the number of the request it came from. That
callers do not overlap, and that nothing of a helper runs when the next begins,
are `CurlNotShared` and `NothingRunsAfterFinalize` of `RoomSession`.

**Heartbeat.** Seconds since the timer was started or fired.

**ConsoleStart.** `main` is the place in `RunTest`. A request is two steps: an
easy handle is made and perform begins; perform fails or the server answers. It
may also return before either, for want of a cookie or a handle. What it returned is
only asserted, so each step goes on to the next. `Extract` writes locals, not
statics, and they are forgotten once the login package is sent.
`LoginThenHeartbeat` is the end of `Connect8080`, in its order; `SendHeartBeat`
is the thread it starts.

**ConsoleHandoff.** The receiving threads run from the moment their client is
connected, so the one of 843 overlaps the rest of the start. The callbacks are
plain function pointers, and `normalNotify_` is not initialized: a package that
comes before line 117 has set it calls whatever is there, and `Recv` ends the
program. One action per lock, assignment, notification and unlock of
`globalNotifyFunction` and `globalNotifyFunction_601`, which run one after the
other for a package with a token. `cv.wait` is three steps: it begins (the mutex
is given back), it is notified or wakes for no reason, it ends with the mutex.
The main thread then reads `g_commandid` and, once per request, `g_key` with no
mutex; a read during the assignment gives the old key, the new one or neither.

**SearchHelper.** One action per request and what the code makes of its reply.
The replies that lead to the same next state are one action: a page that does not
load, does not parse or has no data is skipped; one without brackets ends the
search; a value of an unexpected type, or an empty profile, throws. The members
of `SingerInfo` have no initializer, so a column that is not parsed is what the
memory held (`roomid`): of an earlier singer, as a rule of the one before, or junk.
The list of a family comes from the site as it is and may repeat a singer, so a row
is known by its family and its place in the list. `WriteToFile` is three actions: it
opens the file, each row is written or lost on its own, it closes the file and the
rows are forgotten. `unanswered` records what failed. `NoFamily` is before the
first family of the map, whose ids may be any number, 0 too.

**WebHandler.** `handlers` is the stack of handlers in `WaitFor`: a handler begun
while another waits goes on the stack, and only the innermost goes on. A frame
keeps the document it was begun with, as the code keeps `iDocu`; clicks in a
document that was replaced have no effect on the new one. The page (tabs, gifts,
form, stars) is external. `RewardStar` and `ClickXY` do not wait; `ClickXY` posts
its click, which lands in the page when the messages are next dispatched, in
the wait of another handler perhaps. `disturbed` records that somebody else
chose a gift after the handler chose its own. `FillForm` is what `Login` does after
its wait: each of the two fields and the button is found or not, by itself, a field
not found keeps what it held, and a button found is clicked all the same. `entered`
records which login began in which document.

## 3. Runs

Every run takes about a minute or less on two cores.

| Run | Shows | Bounds |
|---|---|---|
| `notify` | the inductive invariant `FrameInv`, `PackageIsTailOfObject`, `EachObjectOnce`; on top of them `LossOnlyByTear`, `TokenOnce`, `CallsInOrder`; type correctness of both layers | 15 characters, five objects (two gifts, one that throws, one with one nested, one plain), junk between two of them; chunks of 1 to 6; one reconnect at any moment |
| `framing_complete` (violation) | a package need not be a complete object | the stream of `notify`, no reconnect |
| `framing_chat` (violation) | a brace in a text breaks the framing of one whole chunk | three objects, the middle one with a `}` in a string |
| `queue` | mutual exclusion, `QueueInv`; `StrandedOnlyByTermination`; the refinement of `MessageLog`: its steps in every behaviour (`ImplementsLogSafety`), its liveness in those where nothing is terminated (`ImplementsLogFairness`); the handler returns unless the mutex is orphaned (`HandlerReturns`) | two producers, two messages each, window queue of one; one producer may be terminated at any step |
| `rooms` | `NothingRunsAfterFinalize`, `PackagesOfOneSession`, `TokenOfItsRoom`, `CurlNotShared`, `CallbacksSetBeforeUse`, `KilledOnlyAfterTimeout`; the refinement of `RoomVisit` (`ImplementsVisits`) | two rooms, two sessions, two chunks and one heartbeat each, one try per token |
| `rooms_live` | `UIReturns`: the UI thread comes back to its loop, unless the mutex is orphaned or the request of `EnterRoom` is never answered (`NeverAnswered`) | same with one chunk |
| `requests` | `ResponseOfOneRequest`, `LoginOfOneResponse`, `LeakedOnlyByFailure`, `NoticeAfterSuccess` | four requests of up to four helpers, two parts of a body, two tries, one kind of request of another caller |
| `requests_cleanup` (violation) | a failing perform leaks its handle | two requests |
| `heartbeat` (violation) | no heartbeat in ten seconds | lateness of ten seconds |
| `handoff` | `LoginFirst`, `HandlesAccounted`; `RungServed`, `NotifierReturns` | the whole start with one perform that fails and answers that have all, three or none of the user data; two packages over two receiving threads, two tries per wake-up, one heartbeat |
| `search` | `RowsRight`, `FinishedFamiliesWritten` | two pages, three families (one on both pages), five singers, one of them listed twice; any failure |
| `web` | `WrongGiftOnlyByNesting`, `LoginOfItsDocument` | three handlers, two tabs, three gifts, two users, two documents of one star each |

Why these bounds are enough to be interesting: three chunks inside one object
fit the stream (that is where `Packet` loses text), an object can end and begin
in one chunk, chunks can end between objects. Two sessions are all that ever
overlap: the UI thread ends one before it makes the next. One message in the
window queue makes `PostMessage` fail. Two tries are the first and the next, and
four requests are an entered room, two tries and one more request, or two rooms
with what comes between them.
The two producers of the queue are the two kinds of thread of a session. Two
packages are four announcements, enough for one to come between the command and
the key of another or in the middle of the gift loop, and one of them can come
during the start. Three handlers are two
levels of nesting.

Deadlock is not checked: every model ends (the stream is used up, the calls are
made, the dialog is closed). `heartbeat` has no `CHECK_DEADLOCK FALSE`; its
clock never stops.

### Disagreements with the comments

- `framing_complete`: line 103 *assigns* the rest of the chunk to `Packet`, so
  an object in three chunks arrives without its beginning. The comments at 69
  and 101 promise complete packages and waiting for the next data.
- `framing_chat`: braces in strings are counted.
- `requests_cleanup`: the early return of a failing perform skips what the
  comment calls "always cleanup".
- `heartbeat`: the comment says every 10 seconds, the code says
  `FromSeconds(10000)`; the prototype slept 10000 milliseconds.

What holds in spite of the first: a package is always the tail of one object,
and contains at least what the last two chunks held of it
(`PackageIsTailOfObject`).

## 4. Fairness

Safety properties assume none. `NotifyQueue` assumes weak fairness of the
handler and of each producer inside `Notify`: the scheduler runs a runnable
thread, and the critical sections do not block inside. A terminated thread takes no
steps, nobody has to call `Notify` and nothing has to be terminated.
`RoomSession` assumes it of each base thread, of each receiving thread outside
`recv` (`RecvRuns`) and of the UI thread outside the request of `EnterRoom`
(`UIRuns`): a `connect` returns, at the latest when the system gives it up, and the
wait in `Finalize` ends after five seconds because `WaitForSingleObject` is given
5000. No HTTP request has to return: `CurlWrapper` sets no time limit, so that a
server that takes a connection and stays silent blocks the caller for ever (of all
requests in the repository only those of the crawler have one,
`SearchHelper.cpp:627`). For the receiving thread this changes nothing, since
`Finalize` terminates it; for the UI thread it is the exception `NeverAnswered` of
`UIReturns`. `ConsoleHandoff` assumes it of the main thread outside its requests
(`MainRuns`, spurious wakes excepted) and of each receiving thread that is
announcing: mutexes are held for a few instructions and a waiting thread gets them
in the end. `GiftService`, the begin of a request of the gift loop, is among these
steps, its return is not. Nothing is assumed of the user, of the server (a `recv`
and a request may block for ever) or of the timer.

## 5. Proofs

TLAPS proves, for every value of the constants, each invariant the passing runs
check, the action property `KilledOnlyAfterTimeout` and two refinements. The
assumptions are those named in the modules: bounds are natural numbers
(`BoundAssumption`, `StartAssumption`), `NoRoom` is no room (`RoomAssumption`),
killable threads are producers (`ThreadAssumption`), the stream, the objects, the
page and the site have their types (`StreamAssumption`, `ObjectAssumption`,
`PageAssumption`, `SiteAssumption`), other requests are of the other kinds
(`OtherAssumption`). The MC modules' values satisfy them: TLC evaluates them.
One theorem has a hypothesis more: `BracesDelimitObjects`, in the framing.

Most of the properties are not inductive as they stand. The inductive invariant of
a module (`IInv`, in the framing `FrameInv`, in `GiftNotifyProofs` `NotifyInv`) is a conjunction of named parts, and the
proof has a lemma for the initial state and one for each action, or for a few
alike.

`MixPackageProofs`:

- `TypeCorrect`: `Spec => []TypeOK`.
- `FramingCorrect`: `Spec => [](FrameInv /\ PackageIsTailOfObject /\
  EachObjectOnce)`, for every stream, every set of objects, every buffer size
  and any number of reconnects, if `BracesDelimitObjects`; `FrameCorrect` and
  `OnceCorrect` name two of its parts.

`PackageIsTailOfObject` alone is not inductive: it says nothing of an object
half scanned. `FrameInv` adds that the count is the nesting depth of what has
been scanned (`pos = Level[it - 1]`), that `Packet` is empty outside objects, and
that inside an object `Packet` and `sentinel` hold exactly the part the last
call, and this one, have seen (`Current`). Lemmas about `Level` give which object
a position lies in; each action has a step of its own, the interesting ones
being `ScanClose`, which turns `Current` into a package, and `Return`, where
"this chunk" becomes "the last chunk" and older text drops out. `EachObjectOnce`
follows from `FrameInv` and the order of the packages.

`GiftNotifyProofs`: `FramingKept` (`SpecNotify => Spec`) carries the theorems of the
framing over. `NotifyCorrect`, from which `LossCorrect`, `OrderCorrect`,
`TokenCorrect` and `TypeNotifyCorrect` follow, does not need
`BracesDelimitObjects`: whatever the framing does to a stream, `Notify` loses
nothing but for a tear in the same chunk or an exception. What makes it
inductive is when a batch may be cut: a chunk is scanned only when `Notify` is past
the packages of the one before (`phase = "scan" => next = handed + 1`), so no cut
is ahead of `next`, and an exposed package stays exposed. A token
is redeemed once because calls come strictly in order, by package and by rank.

`NotifyQueueProofs`, for any set of producers, of killable threads, any number of
messages and any queue limit:

- `InvCorrect`: `Safety => [](TypeOK /\ MutexInv /\ QueueInv)`. `QueueInv` is
  what makes the refinement go through: nobody changes the vector between the
  halves of a `push_back` (from `MutexInv`), the handler's vector is empty when
  it swaps, `count` is the length of the list. `TypeCorrect` and `MutexCorrect`
  are two of its parts.
- `StrandedCorrect`: `Safety => []StrandedOnlyByTermination`, over a further
  invariant: whenever a message waits in the vector, somebody is on the way to
  post, a window message is queued, or the handler will look again.
- `Refinement`: `Safety => ImplementsLogSafety`. `PushWrite` maps to `Accept`,
  `Insert` to `Show`, every other step, `Terminate` included, to a stutter.

`RoomSessionProofs`, for any rooms and any number of sessions, chunks, heartbeats
and tries. `IInv` ties the threads to the place of the UI thread: only the session
in use or being finalized has handles (`HandleInv`), the base threads of
the others are idle (`BaseInv`), a session connects to 8080, beats or redeems only
after its callbacks are set (`NotifyInv`), the static `roomid` is its room
(`RoomInv`), `Packet` has text of the connection being made or in use
(`PacketInv`), and a receiving thread that answered has ended (`AnswerInv`). From
it:

- `FinalizeCorrect`, `PackagesCorrect`, `TokenCorrect`, `CurlCorrect`,
  `CallbacksCorrect`, `TypeCorrect`;
- `TerminationCorrect`: `Safety => KilledOnlyAfterTimeout`, an action property: the
  place "stop" is reached with an answer or with the wait timed out, and a thread
  that answered has left its loop;
- `Refinement`: `Safety => ImplementsVisits`. `EnterRoom` maps to the beginning
  of a visit, the return of the last join to its end, a gift request to `Redeem`,
  a posted message to `Report`; every other step stutters. `TokenOfItsRoom` and
  `NothingRunsAfterFinalize` are what lets `Redeem` and `Report` fall into the visit.

`CurlRequestsProofs`, for any number of requests, parts of a body and tries.
`ResponseOfOneRequest` needs to know what is collected before it is copied
(`CollectInv`: while a request runs, `currentWriteData_` has exactly the parts its
callback got) and that a request without an answer is later than every response
saved (`ResponseInv`); `LoginOfOneResponse` needs that what `EnterRoom`
extracts from is of its own request (`EnterInv`) and that a half-written user
never becomes a task (`TaskInv`); `LeakedOnlyByFailure` that an open request's
handle is its own (`HandleInv`). Theorems: `ResponseCorrect`, `LoginCorrect`,
`LeakCorrect`, `NoticeCorrect`, `TypeCorrect`.

`ConsoleProofs`, for `ConsoleHandoff`, which takes the start along. `RequestInv`
says that only `enterRoom` keeps what it collects, and clears it first; `SendInv`
that nothing is sent and no heartbeat thread runs before the login package;
`AnnounceInv` which mutex is held where. Theorems: `LoginFirstCorrect`,
`HandlesCorrect`, `TypeCorrect`, and `ExclusionCorrect`: two threads never announce
a token at once, what the code locks `g_mtx_601` for.

`WebHandlerProofs`, for any page, any gifts asked for and any depth of nesting.
`HandlersInv` is said of every frame on the stack, not only of the innermost: what a
frame chose is still chosen in its document unless it was disturbed (whoever
chooses a gift marks the frames below), and a login on the stack is one entered for
the document of its frame. `FormInv` says the same of what stands in the form of the
document shown, which logins that found their fields may have left there. Theorems:
`GiftCorrect`, `LoginCorrect`, `TypeCorrect`.

`SearchHelperProofs`, for any site, also one whose lists repeat singers, and any
failures. `PageInv`: a family of a page that was looked at is known, or its entry or
page failed. `TurnInv`: the rows collected are of the family whose turn it is, in the
order of its list and before the place looked at; those in the file are of families
before it or, while rows are written, come before each row still to write; so the
file is in order (`FileOrdered`) and no place has two rows. `RowsInv`: a row is of an
expired singer of a known family, and the memory of the room, like each room written
of a profile that shows none, is junk or a room of a place the search has passed.
`WorkInv`: an expired place passed in this turn has a row collected, a row in the file,
or a failed profile or write. The stale room of line 576 is not excluded: the code
writes it, and `RowsCorrect` says only where it can come from. Theorems: `RowsCorrect`, `WrittenCorrect`, `TypeCorrect`. That the map gives
the least family not done is a fact about `Min`, from the well-foundedness of the
naturals.

Model-checked only: everything under fairness, which is out of the prover's reach
(`ImplementsLogFairness`, `HandlerReturns`, `UIReturns`, `RungServed`,
`NotifierReturns`), and the four properties the code violates.

## 6. What is not modelled

- `utf_help.h`: a header that no source includes.
- The text of messages, urls, headers, cookies and responses.
- `EncodeHelper` beyond the handle of `UrlDecode` (which may be refused in
  `CurlRequests`, never in `ConsoleStart`): the conversions (hex, code
  pages, gzip) keep no state, and `UrlEncode` has no caller in the dialog.
- `GetChatMessage`, which changes nothing; `Execute`, whose call is commented
  out; a `Nav` nested in a wait as anything but a new document.
- `RewardStar` with a button that has no title: undefined behaviour, after which
  the model has either no number or no further step.
- Of the prototype: `g_data`, whose read races like that of `g_key`, the
  tests its `main` does not call, and `LoginRequestWithUsernameAndPassword`,
  whose call is commented out (`CurlRequests` has the current one).
- A member of the user data that is of another type: `asString` throws and
  nobody catches it. In `ConsoleStart` this ends the program (`ExtractThrows`), in
  `CurlRequests` the behaviour stops.
- A second search in one process: the crawler keeps no state between two.
- `OnClose`/`RemoveNotify`: not in the message map (`FanXingDlg.cpp` 79-92), so
  no run of the program reaches them.
- Asserts: a release build has none; a debug build stops where one fails
  (`NetworkHelper.cpp:71`, `TcpClient.cpp:73`).
- The destruction of a `NetworkHelper` beyond what `Finalize` leaves running, and
  memory lost with a terminated thread.
- Hazards no property can exclude, because the code has them and nothing in the
  repository says otherwise: a gift chosen by a nested handler or a posted click and
  then sent by the one that waited (`WebHandler.cpp:296`, `205`), a token lost or
  repeated in the gift loop of the prototype (`FanxingMain.cpp:129`), the stale room of
  the crawler (`SearchHelper.cpp:576`), the notice of an earlier try
  (`NetworkHelper.cpp:118`), the copy made before perform (`CurlWrapper.cpp:297`) and
  the request that never returns (`NetworkHelper.cpp:69`). The models have these
  behaviours, and the properties name them as exceptions or allow them; `PROJECT.json`
  says which.
- A server that closes the connection is a `recv` that brings nothing
  (`RecvIgnored`); that the loop then spins is not a state.

## 7. Plan

Done: the modules of section 2, with theorems about each of them but `Heartbeat`
(one timer, whose one run shows a disagreement).

Next:

1. What TLAPS can say of the liveness properties without fairness: that the
   steps under them decrease (a receiving thread asked to stop has finitely many
   steps of its own left; the list of a family gets shorter), as action
   properties.
2. The start of the prototype as a refinement of an abstract order of calls, and the
   framing as a refinement of a stream of objects that may lose the beginning of
   each.
3. `NotifyQueue` composed with `RoomSession` in place of its coarse queue.
