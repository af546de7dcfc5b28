# Verification of w3server

TLA+ models of the w3server programs: a multi-threaded server for a subset of
HTTP (`source/server`), the client library it shares code with
(`source/client`), and their TLC runs and TLAPS proofs.  Line numbers are those
of the files under `source/`.

## The system

| Part | State | Operations | Hard because of |
|---|---|---|---|
| Accepting threads: `w3StartServer`, `acceptThread`, `w3ServerAccept`, `w3ThreadRun` | the listening socket, the position and the connection of each thread | init, start a thread, listen, accept, replace, serve, disconnect | six threads on one socket, silent clients, failing `accept` and `pthread_create` |
| One served connection: `w3ServerServeClient` and below | the received bytes and their buffer, the answer still to be written | receive loop, tokenize, route, send, disconnect | TCP cuts requests anywhere; end of stream, reset and slow reading at every point |
| Programs under `/bin`: the fork branch of `w3ServerSendFile` | the child of each handler, the temporary files, inherited descriptors | mktemp, fork, freopen, execl, waitpid, send | concurrent children, stolen zombies, failure of each call |
| Error pages: `w3html.c` | none | generate a page | nothing |
| HTTP client: `w3client.c`, `w3comm.c` | `clientGlobal`: port, host name, path; the document, its file, the images stored; the scanner's start condition | parse the URI, connect, send, receive to the end, scan, fetch images, write, reopen | partial answers, error paths, pointers and a start condition that outlive a document |
| Threaded client: `w3ClientDocToFileMT`, join, destroy | `clientGlobal.threads`; `clientGlobal` and the scanner, shared without a lock | start, fetch, flag, join, destroy | overlapping documents |
| Mail client: `w3smtp.c` | the dialogue, the lines of the mail file | HELO to QUIT, read a mail file | replies taken for the wrong command, ignored failures |
| URI parser and strings: `w3uri.c`, `w3string.c` | buffers | parse, copy, join | buffers that do not grow |
| Scanners: `img.lex`, `correct.lex` and the two `lex.yy.c` generated from them | the buffer, places in it, the automaton, the start condition | match, back up, refill, do a rule | texts across the ends of buffers, zeros, state kept between documents |

The HTTP client hands each document to the scanner of `img.lex`, whose actions
call back into it to fetch images and read `clientGlobal` again; the corrector
is a program of its own.  The clients talk to the server over TCP; the main thread and the pool threads
share the listening socket and nothing else; a handler talks to its child
through a temporary file and `waitpid`; the server uses `w3SendData` and
`w3ThreadRun` of the client library.  There is no persistent state, no lock
and no timeout anywhere in the server.

What would make each part correct: no accepting thread and no connection is
ever lost (accepting threads); the answer depends on the request only, and the
thread is always released (one connection); each client gets its program's
output, once (programs); a fetched document is what the server sent, and
threads do not disturb each other (clients); a mail reported sent was accepted
and is the one in its file (mail); every buffer holds what is written to it, and
a scanner cuts a text as its rules say, wherever its buffers end (parsers and
scanners).

## Modules

**`ConnectionService`** is the abstract specification: what became of each
connection (`conn`), what its client did (`input`, a set of events: it ended a
line or its stream, sent as much as one read takes, reads its answer, reset),
and whether the process lives (`up`).  A connection is closed only after its
client spoke; a fault may cost a waiting connection; only an accepted client
that reset or sent as much as one read takes, or a failed start, brings the
process down.  `Spec` adds that a taken connection whose client spoke is
answered, if the client reads or resets.

**`AcceptPool`** models the threads of `w3server.c:87-175, 454-490` and
`w3thread.c:27-39`.  `pc[t]` is the place of a thread in `acceptThread` or
`w3StartServer`, `con[t]` its local variable, `started` the loop variable `i`,
`sock` what `server.socket` is after `w3ServerInit`, whose result is dropped.
`queue` and `conn` are the kernel's side.  `w3ServerAccept` is two actions,
`Listen` and `Accept` (with `AcceptError` and `AcceptFault` for its failures);
`SpawnNext` is the replacement, which is tried whatever accept returned;
`Receive` and `Respond` are `w3ServerServeClient`: what came before a reset may
still be read and served, and the process may die in either of a reset or of a
request that fills a read.  `Habits` says what the client of each connection may
ever do; it may stop anywhere in it.  `unreplaced` is a history
variable: the number of calls of `w3ThreadRun` that returned NULL.  A thread
that ended is `"done"` for ever: nothing joins it, so what it needed is not
given back.

**`ServeClient`** opens `Receive` and `Respond` for one connection:
`w3ServerReceiveRequest`, `w3ServerGetToken`, `w3ServerIdentifyCommand`,
`w3ServerRespond`, the file branch of `w3ServerSendFile`, `w3ServerSendError`,
`w3SendData`, `w3ServerDisconnect`.  A request is a sequence of symbols;
`size` and `cap` count them as the code counts bytes.  What the tokenizer finds
behind the received bytes is zero as far as `calloc` cleared the buffer
(`Cleared`), and arbitrary beyond.  A string made of the bytes that has no zero
of its own and none of the cleared ones behind it (`RunsOn`) may end the process
wherever it is read: the `printf` of each read (`BeyondBlock`), the two tokens
(`TokenRunsOn`).  `job` is what is left to be written and `out` what was
written: a file is the sequence of its blocks.  `link` is what a reset does to
the next writes: the first fails, the next kills the process.  The client's
steps are interleaved with all of them.

**`BinExec`** models requests for programs.  A handler is a thread with its
connection, `child[h]` the process it forked, `copies[h]` the connections that
process inherited, `file` the temporary files.  A child whose `execl` failed
goes on with the code after the `switch`, as `GoOn` says: it answers 404 and
ends, flushing its log into the temporary file, if its parent is a pool
thread; it becomes a second server, and its parent waits for ever, if the
parent is the main thread.

**`SmtpClient`** models `w3SendMail` of `w3smtp.c:49-165` with
`w3ClientConnect` and `w3SendData`, against a mail server.  `Dialogue` is what
the code writes, call by call, `step` the call it is at; it reads after each
but the last.  The code never reads the greeting, so it is one reply ahead of
the server all along, or level again after a read that returned two.  `link`
says what the next write and read do: on a connection the server closed the
first write is answered with a reset and the next kills the process.  A line of
a body is what it is to the server: a command, a dot, text behind a dot or any
other text; the code sends all of them as they are.  The
server answers line by line, may refuse every command and may close at any
point; it may lose the lines it has not read when the client closes with
replies unread.

**`MailFile`** adds `w3SendMailFile` and `__w3ReadLine` (`w3smtp.c:167-250`) to
`SmtpClient`: the file is read one character a step into a block of memory that
is to grow.  `size` is what the code takes the block for and `room` what the
pointer has behind it: for the body they are the same, for a line the result of
`realloc` is dropped, so `room` may become 0 (freed) while `size` grows.  `Getc`
writes `EOF` as a character, as the code does, and the last one is replaced by
the final zero.  `Seen` tells the lines of a body apart as the server does: the
carriage return before a line feed is not of the line.  `phase = "undefined"` is a write outside of a block.

**`HttpClient`** models `w3ClientDocToFile` (`w3client.c:226-330`) with
`w3ClientGetDocument`, `w3ReceiveData`, `w3ParseURI`, `w3ClientGetImagePath` and
the actions of `img.lex`, called directly or in threads (`w3client.c:332-418`).
A step goes from one access to `clientGlobal` to the next: `pc[t]` says which is
next for document `t`.  `port`, `hostname` and `lastpath` hold the name of the
document that put them there, `freed` the blocks that were freed, so a pointer
that is null or dangling is seen where it is used.  A document is a sequence of
parts, the pieces of text that the rules tell apart: the beginning of an image
tag, `src=`, a name, and so on.  `Act` and `Following` say what is done with one
under a start condition and which condition it leaves; `start` is that condition
(`yy_start`), static in the code and set back by nothing between documents, and
`unclosed` a history variable: the documents that ended under another condition
than the first.  `ScanEnds` ends `yylex`, `Reopen` is the `fclose`, the unchecked
`fopen(filename, "r")` and the `fclose` behind it.
`app` is the application's thread: it retrieves documents itself, starts
threads, joins them or destroys them.  `overlapped` is a history variable: the
documents that were retrieved while another was.  `faults` are the failures
injected.  Undefined behaviour stops the model in `process = "undefined"`.

**`LexRules`** gives the expressions, start conditions and actions of the two
scanners: `ImgEnds`, `CorrectEnds` say where a rule may end in a text, `Put`,
`Fetch` and `NextCondition` what it does.  **`Tokenizer`** is the abstract
specification of a scanner: take the longest text that a rule matches, the
first rule of several, do what it does, go on.  **`FlexTables`** decompresses a
table of flex, **`ImgTables`** and **`CorrectTables`** hold those of the two
generated files.  **`Scanner`** is the generated code over such an automaton:
`MatchCharacter` and `DoRule` are the loop of `yylex` (one character a step,
with the last accepting state and place), `RealNul` its case of a zero in the
text with `yy_try_NUL_trans`, `EndOfBytes` the end of a buffer made by
`yy_scan_bytes`, `GrowBuffer` and `FillBuffer` `yy_get_next_buffer`, `Previous`
(`Course`, `LastLeft`) `yy_get_previous_state`.  Places are offsets from
`yy_ch_buf`.  Three assumptions say what is taken of the tables:
`IsAutomaton`, that they are those of an automaton; `EndsAtEnd`, how it meets the
end of a buffer; `AcceptsTokens`, that the longest text it accepts is the token
of the rules.  TLC evaluates them for the tables of both programs.

**`AcceptPoolMC`, `ServeClientMC`, `BinExecMC`, `SmtpClientMC`, `MailFileMC`,
`HttpClientMC`, `ScannerMC`** hold the instances for TLC; **`AcceptPoolProofs`**,
**`ServeClientProofs`**, **`BinExecProofs`**, **`SmtpClientProofs`**,
**`MailFileProofs`**, **`HttpClientProofs`** and **`ScannerProofs`** the proofs,
**`Induction`** the lemmas on recursive functions that these share.  Definitions marked as mutants are wrong
variants of the definition that follows them, one for each property; each
makes TLC refute its property and so shows that the property can fail.

## Composition

`AcceptPool` implements `ConnectionService` (identical variables, so the
refinement is the identity on `up`, `conn`, `input`); `ServeClient` implements
its safety part for the one connection `"this"`, with `conn` read off `pc` and
`input` off what was sent.  So the pool may treat serving as two steps:
serving does close only after the client ended a line or its stream, and does
die only of a reset or of as much as one read takes.  Two things the pool takes
for granted are conditions that `ServeClient` and `BinExec` make precise:
`Respond` ends if the client reads its answer to the end (`Released`) and unless
an `execl` of the main thread failed (`Answered`); and a client that sends more after a line feed has to end that
too, for the receive loop looks at the last byte only.

`Scanner` implements `Tokenizer` (`ScansByRules`): what is left of a document is
the buffer behind `yytext_ptr` and what was not read yet (`Rest`), and every
step is a token or a stutter.  That ties three things to each other: the tables
and the expressions of the `.lex` files, written down independently in
`LexRules`; the buffer code and a text without buffers; the actions and the
order they are called in.  `HttpClient` relies on it: its parts are the texts
of `Tokenizer`, told apart by what the rules do with them, and a document that
was cut off was cut between two of them.

`MailFile` composes reading and dialogue: the dialogue's steps are those of
`SmtpClient` once the mail is read, and the run checks both parts' properties.

## Runs

| Run | Shows | Bounds |
|---|---|---|
| `pool` | `AcceptorConservation`: a failing accept costs no accepting thread, only a failing `w3ThreadRun` does. `OneHandler`: no connection is leaked, closed twice or shared. `QueuedAccepted`: a waiting connection is accepted however many clients are silent or do not read, unless the whole pool was lost. `ImplementsService` with its fairness | 1 pool thread of 3 creatable and the main thread, backlog 1, 1 injected fault; 3 clients: one for each accepting thread and one that waits, of whom one may read or reset, one never reads, one never ends a line and may send too much |
| `pool_replaced` | finding: threads that accepted a connection are not replaced though others have ended | 3 threads, clients that do what they are asked for |
| `serve` | `AnswerAsAsked`: one answer, independent of how the request came. `ShortRequestHarmless`: no client brings the process down that neither reset nor sent a read's worth. `Released`: the thread is done, or from some time on held for ever by a client that does not read. `RoomToRead`, `OneLineWhole`, `ServesAsService` | 13 requests, one with an empty path, shorter than, equal to and longer than one read of 6 symbols; files of 1 to 3 blocks, one unreadable; 1 answer in flight |
| `serve_headers` | finding: late header lines cut the answer off | as `serve` |
| `bin_run` | `SentAfterExit`, `OwnOutput`, `Answered`, `EndSeen` | 2 handlers of both kinds, 2 names, 2 writes per program, 2 failures |
| `bin_once` | finding: after a failed `execl` the client gets two answers | 1 failure |
| `mail` | `MailAsInFile`: the mail sent is the one in the file, wherever blocks were full. `DefinedIfWellFormed`: with four lines shorter than a block it is read within its blocks. `OnlyTheMail`: without a line that is a dot, delivered whole, once, or not at all; with lines that spell commands as long as the server refuses nothing. `DeliveredIfAccepted`: closing with replies unread loses no accepted mail. `Ends` | blocks of 3 characters instead of 64; files with headers and bodies shorter than, as long as and longer than blocks, that end early, with lines that are a dot, begin with one or spell commands; greeting of one line |
| `mail_body` | finding: body lines taken for commands | bodies of up to 3 lines |
| `client` | `DefinedAlone`: one document at a time, an invalid pointer is used at four places only, each behind its own unchecked failure. `OwnFile`: the file of such a document is what was received, cut from the start condition the scanner was left in, completed with its own host name and path, and whole if nothing failed. `OwnImages`: its images are asked of its own server, and of those the rules find none is missing. `Returns`: join and a direct call return | 2 documents, direct and in threads, overlapping or not, the first of which may end within a tag; an earlier document's path and start condition, any of six; 1 kind of failure in a run |
| `client_links` | finding: a link is not completed behind a document that ends within a tag | 2 documents, no failure |
| `scan` | `ScansByRules`, `ScansToTheEnd`, `InBuffer`: flex's "end of buffer missed" does not happen. `BacksUpInText`: a scanner backs up to the last accepting place in its present text, with the state it had there | buffer of 4 characters that doubles, reads of 3 (16384 and 8192 in the code); all sequences of three fragments of tags, zeros among them; pairs of pages |
| `scan_images` | finding: an image behind an anchor without `href` is not retrieved | 3 pages |

Three clients and two accepting threads suffice for every situation of the pool:
each kind of thread held by a silent client while another client waits,
replacements succeeding, failing and exhausted.  A client may stop anywhere in
its habits, so that one that may reset or read also stands for one that does
not.  That larger pools keep their threads and connections is proved.  Reads of
six symbols are shorter than, as long as and longer than the requests, and as a
read takes what has come, their boundaries are at every position.  In `bin_run`
one failure makes a handler wait for any child, the other makes a child go on as
a server, in all orders.  In `scan` nearly every text is longer than a read and
many are longer than the first buffer, so each fragment is cut at every place,
moved, and grown into; three fragments in a row begin a tag, go on with it or
break it, and end in another.

Two documents are enough for `client`: what a document finds in `clientGlobal`
and in the scanner is of the one before it, and that is one of the run's or
`Earlier`, which may have left any start condition.  From these the first
document is text, an image, another server's image or a link, the second all of
these by their other rules too, so that every action of the lexer and every
access to `clientGlobal` occurs; longer documents repeat them, and the theorems
are about every page.  One kind of failure at a time is every failure the code
meets, in every place of every document, once in the run; a second would be met
with the same handlers.

With a greeting of two lines `DeliveredIfAccepted` does not hold: the client is
then two replies ahead and may close before the server has read the body.  The
replies of a longer dialogue would be more of the same, since nothing the client
does depends on a body or a reply.

Deadlock is not checked: the server waits for clients, who may stay silent,
and each of these behaviours ends: with the last document, the last mail or the
end of the process.

## Fairness

Every thread and child process that can take a step eventually does (weak
fairness of `Unblocked`, `ServerStep`, `HandlerStep`, `ChildStep`, `ClientStep`): they are
scheduled by the kernel, block in `accept`, `read`, `write` and `waitpid` only, and share
no lock.  A step that may wait for a client is fair only while it does not wait:
in `AcceptPool` a thread is to go on receiving once its client spoke or reset,
and responding once its client reads or reset (`Unblocked`; `w3SendData` blocks
for a client that does neither); in `ServeClient` `SendData` is disabled while the
client has a window of answers to read.  No client has to speak, to read or to
reset, and injected failures never have to happen.  `BinExec` assumes clients that
read their answers.  It also assumes that a program ends, `SmtpClient`
that the mail server answers the lines it got or closes, `HttpClient` that a
server ends its answers.  The scanner waits for nothing (weak fairness of
`Next`); neither does reading a mail file.

## Proofs

`AcceptPoolProofs` proves for every set of threads and connections, pool size,
backlog, habits of clients and bound on faults, from `ThreadsAssumption`,
`ConnsAssumption`, `SizesAssumption` and `HabitsAssumption`:

- `TypeCorrect`: `SafeSpec => []TypeOK`;
- `Conservation`: `SafeSpec => []AcceptorConservation`;
- `ConnectionsHandledOnce`: `SafeSpec => []OneHandler`;
- `QueueCorrect`: `SafeSpec => []QueueSound`;
- `Implementation`: `SafeSpec => Service!SafeSpec`.

`AcceptorConservation` is not inductive alone: `Places` says which labels a
thread can be at and that it holds no connection before it accepted one, so
that `SpawnNext` is known to be a pool thread's step, which leaves the set of
acceptors as its replacement enters it; the cardinality lemmas do the rest.
`OneHandler` needs `QueueSound`, because the connection that accept takes has
to be one that nobody holds, and `Virgin`, because a failed start is a legal
death only while no client can have connected; together they are `Handling`.
For the refinement `Spoken` is added: past the receive loop the client has
spoken.

`BinExecProofs` proves for every set of handlers and names, every number of
writes and any bound on failures, from `HandlersAssumption`,
`NamesAssumption`, `ChunksAssumption` and `NoFileAssumption`:

- `TypeCorrect`: `SafeSpec => []TypeOK`;
- `NothingSentEarly`: `SafeSpec => []SentAfterExit`;
- `OutputsApart`: `SafeSpec => []OwnOutput`.

`Children` relates the place of each handler to the state of its child and to
the file the child writes; it is inductive and contains `SentAfterExit`.
`OwnOutput` speaks of the end of a request only.  On the way there, `Filled`
says that the file of a handler whose name is its own holds what its program
wrote so far, which other children cannot disturb because they write to the
file of their own handler's name, and `Copied` that nothing is sent before the
program ended and then the part of the file that was read.

`ServeClientProofs` proves for every set of requests and files, every read size
and window, from `RequestsAssumption`, `SymbolsAssumption` (a word holds no
delimiter), `FilesAssumption`, `ReadSizeAssumption` and `WindowAssumption`:

- `TypeCorrect`: `SafeSpec => []TypeOK`;
- `ReadsInBounds`: `SafeSpec => []RoomToRead`;
- `ShortRequestsHarmless`: `SafeSpec => []ShortRequestHarmless`;
- `AnswersAsAsked`: `SafeSpec => []AnswerAsAsked`;
- `OneLinesWhole`: `SafeSpec => []OneLineWhole`;
- `Implementation`: `SafeSpec => ServesAsService`.

`RoomToRead` needs `Fresh`, because the first buffer has room for a read only
if nothing was received before.  `ShortRequestHarmless` rests on `RoomToRead`, on
`size <= sent` and on `ShortEnds`: of less than a read's worth a cleared byte is
behind every string that begins in the first read, so neither a print nor a token
runs on.  The refinement needs `Heard`: past the
receive loop the client has ended a line or its stream or reset, which
`SaidKept` carries on.  `AnswerAsAsked` rests on two lemmas about the code's
functions: `RequestTokens` (whatever the buffer holds behind the received
bytes, the tokenizer finds the command and the path of the request) and
`AnswerOf` (so the answer is the one that was asked for); `Written` says in
which order an answer is made, written and closed.  `OneLineWhole` adds
`AllRead` (of a single line nothing is unread past the receive loop, so closing
does not reset) and `Viewed` (an end seen by the client is behind all of the
answer).

`SmtpClientProofs` proves for every set of bodies and every greeting, from
`BodiesAssumption` and `GreetingAssumption`:

- `TypeCorrect`: `SafeSpec => []TypeOK`;
- `DeliveredWhole`: `SafeSpec => []OnlyTheMail`.

All that is written is one sequence of lines (`LineWritten`).  `Waiting` says
that the lines that wait at the server are the last ones of those written, so
that how many were taken is known from two lengths; `Message` that a message is
the part of the body that was taken and that nothing is delivered before the
line behind the body, and `Stages` that a server that refused nothing obeyed the
commands of the dialogue in their order and no others: that is why lines of the
body that spell commands do no harm then.  `Waiting` and `Message` may end when the
client has returned, because the rest of the lines can be lost then.  The
invariant is claimed of the mails of `Single` only: without a line that is a dot,
and without commands once something was refused.

`MailFileProofs` proves for every file, every size of a block and every
greeting, from `FilesAssumption`, `BlockAssumption`, `FileBodiesAssumption`,
`BodiesAssumption` and `GreetingAssumption`:

- `FileTypeCorrect`: `FileSafeSpec => []FileTypeOK`;
- `SentAsInFile`: `FileSafeSpec => []MailAsInFile`;
- `WellFormedIsDefined`: `FileSafeSpec => []DefinedIfWellFormed`;
- `FileDialogueTypes`: `FileSafeSpec => []TypeOK`;
- `FileDeliveredWhole`: `FileSafeSpec => []OnlyTheMail /\ []FileDelivered`: what is
  delivered is what stands in the file behind its fourth line, or nothing, under
  the conditions of `OnlyTheMail`.

`FileInv` is inductive and contains the first three: `TextRead` says which
characters the string at hand holds, `LinesRead` that the lines of what was read
so far are those of the header and the lines of that string, `BlockHolds` that
one character more fits the block.  `LinesStep` and `LinesGrow` say what one
character does to the lines of a text.  `DialogueInvariant` carries the
invariant of `SmtpClientProofs` over to the mail of a file.

`HttpClientProofs` proves for every set of documents, every page and any bound
on failures, from `TasksAssumption` and `PageAssumption`:

- `TypeCorrect`: `Spec => []TypeOK`;
- `MemoryDefinedAlone`: `Spec => []DefinedAlone`;
- `FilesTheirOwn`: `Spec => []OwnFile`;
- `ImagesTheirOwn`: `Spec => []OwnImages`.

All rest on `Alone` (a document that did not overlap is the only one that is
being retrieved) and `Named` (what it finds in `clientGlobal` behind its own
assignments is its own).  `DefinedAlone` adds `Memory`: a host name is freed
after the scan only and forgotten next, a path only by the document after, which
replaces it at once; and `Lost`: only a reset leaves a length without data.
The files add `Answers` (received is a beginning of the page), `Scanned` (the
condition of the scanner is the one that the last part written left, and the
first one if no document was left unclosed) and `Filled` (the file is the
completed beginning of what was received), the images `Kept`.

`ScannerProofs` proves for every set of documents, both sizes, any tables and any
division of the input into reads, from `AutomataAssumption`, `SizesAssumption`,
`InputsAssumption` and, the last one only, `TokensAssumption`:

- `TypeCorrect`: `SafeSpec => []TypeOK`;
- `StaysInBuffer`: `SafeSpec => []InBuffer`;
- `BacksUp`: `SafeSpec => []BacksUpInText`;
- `Implementation`: `SafeSpec => ScansByRules`.

The argument is about `Path`, the states of the automaton on what is left of the
document, in the buffer or not yet read.  `ScanInv` says that `yylex` is on it:
while it matches, the state is the one of its place and the last accepting state
the last one passed (`Passed`), or the character before was the end of the buffer
or a zero, which look the same; when it looks for the rule, nothing longer is
accepted.  Moving, filling and growing the buffer leave `Rest` and so the path
as they are; `PreviousIs` says that `yy_get_previous_state` finds the place on it
again, whatever was remembered before.  So what `yy_find_action` finds is the
longest text accepted (`FoundIs`), with the state of that place and none of an
earlier text or place of the buffer (`BacksUpInText`), which `TokensAssumption` makes a token.  `Left`
(what is left is the end of a document) is needed to apply it.  The assumption is
the one thing about the tables that is checked for the documents of a run only.

`Course`, `LastLeft` and the lines of a text are recursive functions.  The
library's induction theorems cannot be instantiated by the provers used here, so
`Induction` states what is needed of them about sets: `LeastElement`,
`SetInduction` (a set with 0 that has the successors of its members),
`RecursiveFunction` (there is a function defined by recursion) and `SameValues`
(and only one).

Every invariant and every refinement that a run checks is proved as well.  Only
model-checked: every liveness property and the fairness of the refinements, which
the prover cannot handle, and that the tables of the two programs are those of
their rules.

## Findings

1. `w3server.c:464`: threads are never joined or detached, so a replacement
   fails after enough connections (`pool_replaced`).
2. `w3server.c:256`: unread header lines reset the connection under the answer
   (`serve_headers`).
3. `w3server.c:375`: a child whose `execl` failed goes on as a server
   (`bin_once`).
4. `w3smtp.c:149`: replies are ignored and dots not escaped, so the server may
   take body lines for commands (`mail_body`).
5. `img.lex:71`: behind a tag that begins with `a` and has no `href`, the rule
   for images is not active (`scan_images`).
6. `w3client.c:298`: the scanner's start condition is not set back, so a
   document that ends within a tag keeps the links of the next one from being
   completed (`client_links`).

Where a property has to name an exception, the code has no promise to give:
documents retrieved at the same time share `clientGlobal` and the scanner and
are undefined (`w3client.c:226-330`).  One document at a time runs into undefined
behaviour at four places, which `DefinedAlone` names: after a reset
`w3ReceiveData` reports a length without data, for the document and for an image
(`w3comm.c:52`); a URI with 64 characters before or behind its first slash is
written beyond its buffer (`w3uri.c:30`); the file is closed after it was reopened
without a look at the result (`w3client.c:305, 319`); so is a flag file that cannot
be made (`w3client.c:363`).  No property shows these, the model takes the step to
`"undefined"` there; what is shown is that there are no others, and that the host
name and the path are never null or freed where they are used.  A client that
sends a read's worth may end the server, for its request is printed and
tokenized as a string that need not end (`w3server.c:252, 284`).  A mail with a line
that is a dot ends there, and one that spells commands may have them obeyed once
the server refused something (`w3smtp.c:137-151`).

## Not modelled

- Code without a caller: `w3ServerClose`, `w3ServerGetPath`,
  `w3ClientGetAllImages`, `w3ParseURIGetToken`, `yyunput`, `input`,
  `yy_delete_buffer`, `yy_scan_string`, the stack of start conditions; the start
  conditions `IMGTAIL`, `ATAGENDFOUND` and `IMAGEFILENAME`, which no action
  begins (their rules are in the tables and so in `Scanner`).
- `correct.lex` where it differs from `utils/lex.yy.c`: rule 2 was edited after
  the file was generated; the compiled one is modelled.
- `w3ClientDestroyAllThreads` is modelled by what it does: SIGTERM ends the
  process and not the thread it is sent to.
- Several application threads that call `w3ClientDocToFileMT` and join at once.
- Memory that is exhausted: no result of `malloc` is looked at.
- The wording of pages and messages; the argument handling of the `main`
  programs, whose rest is unreachable test code; printing of errors.
- Clients that find the port the kernel chose when `bind` failed; two handlers
  with one temporary name, of which `OwnOutput` promises nothing.
- Characters beyond those the rules tell apart.

Left to do: `HttpClient` and `ServeClient` as two ends of one connection.
