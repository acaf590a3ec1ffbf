# TLA+ models of the iRODS client library

This directory holds TLA+ modules that model the iRODS client library for
C++, TLC configurations that check them on small instances, and proofs that
TLAPS checks for every instance. `PROJECT.json` maps each definition to the
lines it models and lists the runs, the mutants, the hazards and the findings.
Line numbers in the text below refer to the files under `src/`.

    tlc -config pool.cfg MCConnectionPool.tla     # model-check a run
    tlapm ConnectionPoolProofs.tla                # check the proofs about a module

## The system

A program links the library and talks to an iRODS agent over a socket. One
`rcComm_t` stands for one such connection.

| Component | State | Operations | Where |
|---|---|---|---|
| connection pool | per slot: mutex, atomic `in_use`, `rcComm_t`; atomic error flags of the constructor; the proxies | constructor, `get_connection`, moves and destructor of `connection_proxy` | `connection_pool.cpp` |
| reconnection protocol | `sock`, `reconnectedSock`, `clientState`, `reconnThrState`, `agentState`, `exit_flg`, a mutex and a condition variable of the `rcComm_t`; one thread | `procApiRequest` and its parts, `_cliGetCollOprStat`, `cliReconnManager`, `cliSwitchConnect`, `rcDisconnect` | `rcConnect.cpp`, `procApiRequest.cpp`, `sockComm.cpp` |
| connection set-up | a socket, what was negotiated, the version; the tables of loaded plugins, shared by all threads | `rcConnect` and its second try, `connectToRhost`, the negotiation, `clientLogin` | `rcConnect.cpp`, `sockComm.cpp`, `irods_client_negotiation.cpp`, `irods_network_manager.cpp`, `irods_auth_manager.cpp` |
| packing protocol | the tables of pack instructions | `packStruct`, `unpackStruct` | `packStruct.cpp`, `rodsPackTable.cpp`, `apiPackTable.h` |
| API calls | the API table, the error table; per connection `apiInx`, `rError`, `transStat` | the wrappers `rc...`, `procApiRequest`, the replies of collection operations | `apiTable.hpp`, `procApiRequest.cpp`, `rodsErrorTable.h`, `rodsLog.cpp` |
| query and its iterator | `query_impl` with the current page, shared by iterators; the statement in the catalog | the reading of a query string; construct, `begin`, `++`, copy, destroy | `query.hpp`, `rcMisc.cpp` |
| data object streams | a buffer and six pointers into it; the descriptor and its position at the server | the virtual functions of `basic_streambuf`, `open`, `close`, moves | `dstream.hpp`, `default_transport.hpp` |
| filesystem operations, collection iterators | the catalog; handles of open collections; a stack of iterators | copy, create, remove, rename, attributes; `++`, `pop`, recursion | `filesystem.cpp`, `collection_iterator.cpp`, `recursive_collection_iterator.cpp` |
| client utilities | a collection handle with a page of sub-collections and one of objects; growing arrays | `rclOpenCollection`, `rclReadCollection`, `rclCloseCollection` | `miscUtil.cpp`, `rcMisc.cpp` |
| query processor, thread pool | a future of the rows' errors, one task per row | `execute` | `query_processor.hpp` |
| paths, parsers, obfuscation | none: algorithms | | `path.cpp`, `irods_*_parser.cpp`, `obf.cpp` |
| environment, logging, hashers, SSL | tables, caches, text | | see `components` |

How they interact: a pool owns `rcComm_t` objects, each of which is used by
one thread at a time, and the proxies say which; its constructor sets several
up at once. Every API call, and so every request of a query, a stream or a
filesystem operation, is one `procApiRequest` on such an `rcComm_t`, which
packs its parameters by the instruction the API table names and unpacks the
reply by another; with `RECONN_TIMEOUT` a thread of the library works on the
same `rcComm_t` at the same time. Queries, streams and collection handles use
a connection they do not own and leave state behind at the server: a
statement, a descriptor, a handle. Iterators share that state between their
copies.

What is hard: threads that share slots with three kinds of synchronisation
(mutexes, atomic flags, neither); a protocol whose consent is two state
fields and a condition variable awaited without a predicate; state at the
server that must be given up on every way out; a buffer and a server position
that know nothing of each other; requests that fail, or are served in part,
between two steps of one operation; two sides that walk one instruction and
must resolve it alike with nothing on the wire to tell them; tables of
hundreds of rows that repeat what others say; a catalog that other clients
change while a tree is walked.

## Modules

### ConnectionPool, SlotOwnership, ConnectionPoolProofs

`ConnectionPool` has one action per access to memory that threads share and
one per call to the server. Per slot: `mutex`, `inUse`, `conn` (the
`unique_ptr`), and the set `loggedIn` of the connections `clientLogin`
succeeded on. Per thread in `get_connection`: `pc`, `idx` and `target`, the
proxy variable the result goes to. `proxy[v]` is what a `connection_proxy`
variable holds, or that it has been moved from or does not exist. The
constructor is the first connection made by the caller (`BuildFirst`), then a
task per slot on `Workers` threads (`TaskStart`, `TaskConnect`, `TaskLogin`),
then `Join`. `lost` is a history variable: slots that no code can return.

`SlotOwnership` is what a pool promises to its users: a proxy is given a slot
only when it is free, passes it on when it is moved, and is the only one to
give it back. `ConnectionPool` implements it under the mapping at the end of
the module: a slot counts as free until its proxy exists, because a call that
refreshes it has only reserved it.

Properties: a connection never has two users (`Exclusive`); what a proxy
refers to is its slot's connection, logged in and not replaced
(`HeldConnectionUsable`); `in_use` marks exactly the slots that are held,
being refreshed, or lost (`SlotAccounting`); a pool whose constructor returned
offers only connections that are logged in (`AvailableConnectionUsable`).

### Reconnect, ReconnectProofs

One `rcComm_t` and two threads: the application and `cliReconnManager`. A
section of the application under the mutex has no blocking call and is one
action; the manager keeps the mutex across calls to the network and is cut at
each of them. `waiters` is the condition variable; it may wake a thread that
nobody notified. `netSock` is the `socket_handle_` of the network object the
application copied `conn->sock` into, the state that goes stale when the
manager switches. `open` is the set of descriptors the process has open; a
new descriptor differs from every remembered one, so a use after `close`
cannot go unnoticed. `sslSock` is the descriptor that `conn->ssl` is bound to on
a connection with TLS: `cliSwitchConnect` leaves `conn->ssl` alone, so that after
a switch requests, replies and collection statuses of such a connection (`Wire`)
still go to the descriptor that the switch has closed. A reconnect reply that does not unpack ends the process
(a null pointer), and after `freeRcComm` no step is modelled: the manager's
use of freed memory has no meaning to state properties about.

The properties say that the application's copy of `conn->sock` is open and
current from request to reply, that its bytes go there or, with TLS and after a
switch, to a closed descriptor and to no other, that a reply is read where its
request was sent, that the manager switches only in a quiet moment, that no
descriptor is left behind, that the states are reset on every way out, and
that neither thread waits for ever.

### ColumnTable, QueryText, Query, QueryProofs

`ColumnTable` is the columns of a query with their numbers and their names.
`QueryText` is `fillGenQueryInpFromStrCond`: a string, as a sequence of its
words, brackets, commas and quotes, becomes the columns it selects and the
conditions on them, in the arrays of `GrowingArrays`. `Query` begins with that
and goes on with `query`, `gen_query_impl` and `spec_query_impl` with their
iterators, and the catalog's statements (`cursor`). A row is its number. A page
that is full may be the last without saying so, so the fetch that finds no rows
is reached too. Every action is one public operation, since the class is not
used from several threads. The text of rows is left out.

`SelectionAsWritten` compares what is asked for with the meaning of the string
(`Means`), which is written down independently of the parser. It is stated for
the texts that are `Unambiguous`: the parser ends a condition at the word `and`
unless a quote or a bracket is open, so that `between '1' and '2'` is cut in
two; and it looks for the keyword in lower case first, also within a value.
`StatementKnown`, a part of `QueryInv`, says exactly which statements are open:
the query's own, those whose close failed (`unclosed`), and those whose page a
specific query has stored over (`forgotten`): it is executed twice
(`query.hpp:257` and `:421`) and closes only the second. The last two are
history variables, and a general query never has a `forgotten` one.

The limit of a query is a `uintmax_t`, passes through an `int` and is kept in a
`uint32_t` (`query.hpp:176`, `:249`, `:132`), so that only its low bits are left
and a multiple of 2^32 is no limit. `query_limit` is what is left: that is where
`EndExact` says a loop ends.

### DataStream, SequentialFile, DataStreamProofs

`DataStream` is `basic_data_object_buf` over one `default_transport`: the
array `buf`, the pointers (`area`, `next`, `limit`), and at the server the
object, the descriptor and its position. Every action is a call with all its
requests, each of which may be served in full, in part or not at all. The
buffer's requests are translated with it (`Flushes`, `PrepareForInput`), so
that `sync` inside another call is that code and not a copy of it. `stray`
says that the pointers designate another buffer's array, which is what
swapping `std::array` members under swapped pointers leads to.

`SequentialFile` is the abstract specification: a sequence of characters, one
position, and the part that is stored. `FileSteps` is the refinement: what the
program sees (`Content`: the object with the put area written to it; `Pos`:
the descriptor's position less what is unread, or more by what is unwritten)
changes as a file's would, and a successful `sync` or `close` has stored it
all.

This is not true of every call, and the module says of which it is not.
`OffTrack` is set by an action when it does what a file stream would not do,
or prepares it:

- a bulk read while the get area has unread characters (`xsgetn` does not
  count them, and copies all of them whatever was asked for);
- a read or put back from a get area the descriptor has left (`seek`, `close`
  and `open`, a bulk read do not reset the pointers);
- a write, or a seek from the current position, with unread characters;
- a flush of which the transport took only a part (the rest is not moved to
  the front), or characters of the put area dropped because a sync failed;
- `in | app`, which truncates; an `open` that fails at the seek to the end and
  leaves the object truncated or the descriptor open;
- the use of a buffer that was moved to, if its pointers were set;
- a character put back that was not the one read: the array is changed and
  the file is not, as in the standard; `SequentialFile` has no such thing.

Everything else, in any order, is checked to be a file.

### ConnectionSetup, ConnectionSetupProofs

Threads that connect at once: the connect with its timeout and its loop, the
second try of `rcConnect` on the same `rcComm_t`, the start-up message, the
negotiation, the version, the start of TLS, the start of the reconnection
thread, `clientLogin` and the close of a connection it rejects. `env` holds the policies of the client and of the
server; `comm` is the `rcComm_t` of each thread with the step it is at; `net`
is the open descriptors with what their servers were asked and use. A
descriptor is the smallest unused number, as the system gives them out, so that
a descriptor closed twice would be another thread's. `abandoned` is a history
variable: the descriptors left open where the negotiation, the start of TLS or,
with `RECONN_TIMEOUT`, the start of the reconnection thread fails; that no other
way out of `rcConnect` and `clientLogin` leaves one is `SocketsAccountedFor`. `plugins` is the two maps of the
managers; that they have one user while they change (`PluginsLoadedAlone`)
rests on the pool's first connection being made alone.

### Filesystem, FilesystemProofs, FilesystemResultProofs

The operations of the filesystem library as sequences of API calls, each a
step, by several clients on one catalog, any call failing. A client has a stack
of calls of the library's functions (`frames`) and in each frame the answers of
the status calls made so far (`seen`), since what the code decides on is what it
saw and not what is so. The iterators are the handles of the server with the
entries that are left. `before` is the catalog a client began with as long as
nobody else changed it: the promises of copy, remove and walk are made then,
that of copy if neither collection is below the other (`CopyIsImage`), those
about lost data and the length of paths (`CatalogKept`) and about handles
(`HandlesAccounted`) always.
`HandlesAccounted` says that a handle without an owner is one of the two kinds
the code leaks: its end was read (`collection_iterator.cpp:80` forgets it), or
its first read threw in the constructor. An iterator that has forgotten its
handle is on the stack with the handle 0, as in the code.

`stat` makes two requests, the second for permissions. One action stands for
both where the permissions do not matter, and its failure for either's;
`create_collection` with a model is where they do, and the second request
(`PermissionsOf`) is a step of its own there. `stat` does not look at the length
of the path it copies (`filesystem.cpp:149`): of one that is too long, as a
function that has not looked either may ask for, the process may end (`Crash`).

### PackTables, ApiPackTables, Packing

The first two are the pack instructions of the library and of the API, each as
the sequence of its items, and the C structures the API's instructions
describe. `Packing` parses an instruction, resolves every type, name and
dimension from the items walked before, packs a structure in the native
protocol or in XML, and unpacks what is on the wire. `Carried` says which
structures a protocol can carry, without a walk: not a `NULL` string in a table
of strings, not the text of the null marker, in XML not a `NULL` pointer before
another item of its name, and so on. A start tag that is missing behind a pointer
is unpacked as a `NULL` pointer, and elsewhere is an error, as in the code.
`ReceivedAsSent` is that unpacking gives
back exactly those. `LayoutAgrees` compares the offsets of the walk with those
a compiler gives the members.

Left out: the dependent kind `#`, which no instruction uses, the growth of the
output buffer, and the alignment of Solaris.

### ApiTable, ErrorTable, ApiCalls, ApiCallsProofs

The first two are the rows of the API table with their numbers and the error
codes. `ApiCalls` is the 32 wrappers, `procApiRequest`, the agent at the other
end, and the progress reports of collection operations, which are acknowledged
one by one. The agent may end at any time, and ends when it is sent what it
does not expect; an acknowledgement to an agent that has ended is lost, or
cannot be written, and then ends the call (`procApiRequest.cpp:449`).
`abandoned` remembers the calls that returned before their
reply was read: `ReplyAnswersCall` says by how many calls a connection is late
after them. `StatusNamed` names the six errors whose name cannot be recovered
from a status.

### GrowingArrays, CollectionReader

`GrowingArrays` is the arrays of conditions, columns and errors, whose capacity
is inferred from their length; here the capacity is kept, so that a write
behind it shows. `CollectionReader` is the handle of `rclOpenCollection`:
pages of sub-collections and of objects, in either order, of ordinary, linked,
mounted and structured collections, replicas reduced to one per object unless
the caller wants all. A call is one step with all the requests it makes. An
entry tells which column and row each of its fields came from.

`ReadsEverything` is stated for `Ordinary` readings, and that definition lists
what the reader does not manage: an object with more replicas than a page, the
further pages of a linked collection, a collection of an unknown type, and a
handle opened again with `INCLUDE_CONDINPUT_IN_QUERY` that the caller has not
cleared.

`Released` is about what `rclOpenCollection` finds in the handle and does not
free, which is kept in `leaked`: the `memset` of the handle (`miscUtil.cpp:996`, or
the caller's) drops all its arrays, and `replKeyVal` (`chksumUtil.cpp`) the condition that
was there. It names the two cases in which
something is there: the arrays of a linked collection's query, and the condition
that the caller put into a handle whose opening then failed (`:1002`), which
nobody closes (`refused` remembers those openings).

## Runs

| Run | Question | Bounds |
|---|---|---|
| `pool` | the four safety properties of the pool; refinement of `SlotOwnership`; `ConstructorEnds`, `SomeCallEnds` | 2 threads, 3 proxies, 2 slots, 3 connections, 2 constructor threads, 2 failed refreshes |
| `pool_returned` | violation: a slot is lost by assigning to a proxy that holds one | as above, 2 proxies, no failures, no self-moves |
| `reconnect` | one open, current socket from request to reply, with TLS the one `conn->ssl` is bound to; no descriptor left; a switch only in a quiet moment; states reset; both waits end | 4 descriptors |
| `reconnect_hang` | violation: the application waits for ever for a manager that has ended | API calls only |
| `reconnect_status` | violation: a call returns 0 without a reply | API calls only |
| `query` | a string selects what it says; one open statement, known to the query; each row visited once, up to the limit | some 790 strings with every column name; for one of them 2 iterators, 0 to 5 rows, pages of 2, limits 0 to 6, and 8 and 10, of which a word of 8 leaves 0 and 2, 3 statements |
| `stream` | the stream is a file, except after the calls listed | buffer of 2, 0 or 3 characters at first, at most 3, bulk calls of 1 and 2, seven openmodes |
| `setup` | both ends use the transport the policies admit; every descriptor is a connection's or one of the known leaks; plugin tables have one user; every set-up ends | 3 threads, 6 descriptors, 2 connect attempts, every pair of policies |
| `filesystem` | a copy is an image, `remove_all` counts, a walk sees everything once, handles are owned, data is lost only on request, paths keep the limit, every operation ends | 2 clients, 4 catalogs of up to 7 entries, paths of at most 4 names, one of 5 |
| `packing` | unpacking gives back what was packed, the wire is read to its end, members are where the walk looks for them | every instruction in both protocols; structures that differ in one or two fields from a plain one |
| `calls` | parameters reach the function of the call, replies go where `ReplyInv` says, statuses keep their names, calls return | 3 calls, 2 progress reports, every wrapper and every unfit argument first, every error of the table |
| `collections` | every sub-collection and object once, with its own fields; arrays fit and are freed | 24 collections, 28 sets of flags and options, pages of 2 rows, arrays growing by 3, two openings, one failing request |

Why the bounds are enough:

- *Pool.* With two slots and two threads one thread spins over a slot that is
  held or being refreshed while the other works on its own; three proxies allow
  a move between two that hold slots while a third is being filled. Three
  connections let a refresh take a connection unlike all others. `MaxFailures`
  bounds failed refreshes, each of which loses a slot, so two can lose both.
  The proofs remove all these bounds.
- *Reconnect.* At most four descriptors are remembered at once (`sock`,
  `netSock`, `reqSock`, and the new one; with TLS requests are sent on
  `sslSock`, which then takes the place of `reqSock`). Nothing else is counted.
- *Query.* Five rows in pages of two give full pages, a page that is not full,
  a last page that is full, and limits on, before and after each boundary; two of
the limits do not fit the word; two
  iterators give a copy that another overtakes.
- *Stream.* Three characters in a buffer of two give one refill and one
  flush with a rest; one character to write suffices because it differs from
  those read and from `Nul`, the value of an untouched cell.
- *Setup.* Three threads: the one that goes first and two that then work at
  the same time. Each may leave a descriptor behind in either of its two tries,
  so six suffice.
- *Filesystem.* A collection with an object and a collection that has one, and
  beside it one whose name begins with the same text, which is empty or has an
  object or a collection of the same name as that object; or a line of collections
whose last path has five names, which is too long. Four names let a copy into a descendant go round twice
  before it meets the limit. The other client does one or two things, at any
  moment; two renames exchange what a walk has seen.
- *Packing.* The lengths of `PackConstantTable` are cut to three, two and one,
  never to a length at which two roles coincide. A structure is plain but for
  one field, or for two in the instructions whose fields depend on each other.
- *Calls.* The first call goes wrong, the second is answered late, the third
  shows that it stays so. Two reports are the least at which an acknowledgement
  can be taken for another.
- *Collections.* With pages of two rows the replicas of an object, the
  sub-collections and the whole result end before, on and after the end of a
  page. Arrays that grow by three are enlarged in every query.

No run uses symmetry. An invariant whose name ends in `Inv` is the
conjunction of the named parts above it in its module, among them the type
invariant where the run lists no `TypeOK`. `stream` uses a `VIEW` without `call`, which no action reads: two states
that differ only in it have the same successors, and the steps of `FileSteps`
mention `call` only primed, so each step is still checked. `CHECK_DEADLOCK FALSE` stands in
every run: a program may stop calling, a pool may lose every slot, a process
may end, every thread of `ConnectionSetup` connects once, clients of
`Filesystem` come to the end of their programs, calls and openings are
bounded, and `DataStream` stops after a call that is off track.

### Fairness

- *Pool* (`FairSpec`): weak fairness of the constructor and of each
  thread's steps inside `get_connection`, since threads run and requests
  return; and whoever holds a slot destroys its proxy at some time, wherever
  the slot has been moved to meanwhile. Nothing makes a program call
  `get_connection`, or move a proxy. `SomeCallEnds` promises that some call
  ends, not each: `try_lock` is unfair, and a thread can lose every race.
- *Reconnect* (`FairSpec`): weak fairness of the manager, and strong fairness of
  the application inside a call (never of beginning one), because the mutex
  is free again and again: the manager sleeps for minutes before it takes it the next time.
  `WaiterResumesWithHost` assumes that the manager is not ended by a failed
  look-up, which is what `reconnect_hang` shows to be necessary;
  `ManagerResumes` assumes that spurious wakeups stop, because each one
  ends a wait that tests no condition.
- *Setup* (`FairSpec`): weak fairness of all threads together: some thread runs
  while one can, the network answers or the wait for it times out, and not
  every `select` is interrupted. A set-up is a finite sequence, so this is
  enough for each of them. The connect and the reads of the negotiation and
  of the version have a timeout; the start of TLS and the login have none, and
  there it is the network that must answer.
- *Filesystem* (`FairSpec`): weak fairness of the clients' steps together; no
  client has to begin anything. `OperationsEnd` holds for each client, because
  only the length of paths ends a copy into its own descendant, and it does.
- *Calls*: weak fairness of the client inside a call and of the agent. The agent
  may end, and then the client's read fails.

## Proofs

A module `...Proofs` proves what its run checks for every value of the
constants that the assumptions admit. In each, `InvHolds` is `Spec => []Inv`
for an inductive invariant `Inv`, which TLC checked on the run before it was
proved, and the other theorems follow from it. There is one lemma per action or
kind of action that it keeps `Inv`.

| Module | Theorem | Statement |
|---|---|---|
| `ConnectionPoolProofs` | `TypeCorrect`, `ConnectionsAreExclusive`, `HeldConnectionsAreUsable`, `SlotsAreAccountedFor`, `AvailableConnectionsAreUsable` | `[]TypeOK`, `[]Exclusive`, `[]HeldConnectionUsable`, `[]SlotAccounting`, `[]AvailableConnectionUsable` |
| | `PoolImplementsOwnership` | `Spec => ImplementsOwnership` |
| `ReconnectProofs` | `ExchangesUseTheSocket`, `RepliesMatchRequests`, `OneSocketOpen`, `StateIsTrue` | `[]ExchangeOnCurrentSocket`, `[]ReplyFromRequestSocket`, `[]NoSocketLeft`, `[]StateInv` |
| | `SwitchesAreQuiet` | `Spec => SwitchOnlyWhenQuiet`, a property of steps |
| `ConnectionSetupProofs` | `SocketsAreAccountedFor`, `TransportIsAgreed`, `SetupIsSafe` | `[]SocketsAccountedFor`, `[]TransportAgreed`, `[]SetupInv` |
| `QueryProofs` | `StatementsAreKnown`, `RowIsInPage`, `LoopIsExact` | `[]QueryInv`, `[]IteratorDenotesRow`, `[]EndExact` |
| `DataStreamProofs` | `PointersInBuffer` | `[]TypeOK` |
| | `StreamIsFile` | `Spec => FileSteps`, the refinement of `SequentialFile` |
| `ApiCallsProofs` | `CallsGetTheirReplies`, `ArgumentsAreHanded`, `StatusesAreNamed` | `[]ReplyInv`, `[]ArgumentsReachHandler`, `[]StatusNamed` |
| `FilesystemProofs` | `HandlesAreAccountedFor` | `[]HandlesAccounted` |
| | `DataIsKept` | `Spec => [][KeepsData]_vars`, the part of `CatalogKept` about data |
| `FilesystemResultProofs` | `WalkInvHolds`, `RemoveAllIsCounted`, `CopyIsItsImage` | `[]WalkInv`, `[]RemoveAllCounts`, `[]CopyIsImage` |
| | `CatalogIsKept` | `Spec => CatalogKept`, a property of steps |

*Pool.* For any numbers of threads, proxies, slots, workers, connections and
failures. The assumptions: there is at least one slot and one worker, and the
null values differ from the real ones. `Exclusive` alone is not inductive: a
proxy is destroyed without the slot's mutex, so that mutual exclusion follows
from the mutex and the flag together. `Inv` adds what each program counter
knows. `MutexInv`: a mutex is owned by the thread that is between its
`try_lock` and its unlock on that slot. `CallInv`: a thread about to store
`in_use` has seen it unset, and nobody else can have set it since, because only
the owner of the mutex sets it. `TargetInv`: the proxy a call fills does not
exist yet and is that call's own. `OwnConn`: no two slots own one connection,
so replacing one leaves the others logged in. `BuildInv` and `TaskInv` connect
the constructor to that: no proxy exists before it has returned, and a finished
task has left a connection logged in unless an error flag is set, in which case
`Join` throws. The refinement maps `LoadInUse`, `Verify` and the rest of a
refresh to stutters, `HandOut` to `Acquire`, `Destroy` to `Release`, both moves
to `Move`, and the throw after `in_use` was stored to `Lose`.

*Reconnect.* For any number of descriptors and any set of operations; the null
values are no descriptors. The argument is how the mutex and the states hand the
socket over. `MutexInv`: who holds the mutex, and that the manager holds it only
with `clientState` processing. `ClientInv`: what `clientState` is while the
application works and while it rests. `SocketInv`: outside of a disconnect, the
open descriptors are `sock` and, between the manager's connect and its switch,
`reconnectedSock`, and `conn->ssl` is bound to `sock` or to a descriptor that a
switch has closed. `UseInv` and `RequestInv`: the descriptor that the
application copied is still the current one, and its request went out where a
network object of the current one sends (`Carrier`). `ClientNeverSwitches` carries the rest: the switch contained in the
application's own retries (`SendRetry`, `ReadRetry`) never finds a reconnected
socket to switch to.

*Setup.* For any number of threads, descriptors and tries; descriptors are
natural numbers, of which the system gives out the smallest free one, and at
least one connect is tried. `Inv` says of each thread at each step: it has a
descriptor exactly from the connect to the end; the result of a negotiation is
that of the two policies, on the first and on the second try; the server uses
what it was told; and what was looked up is in the tables, which only the
thread that goes first ever loads. That one descriptor has one thread makes
each close its own.

*Query.* For any numbers of rows, limits, page sizes, handles and iterators, and
any size of the word a limit is kept in.
`PageInv`: a page in memory is a part of the result set, and continues exactly
if rows are left behind it, in a statement that goes on where the page ends.
`StatementInv`: the reasons for which statements are open exclude each other,
so that a close of one leaves the others accounted for. `PassInv` and
`CountInv`: in a program of one pass, one iterator drives the query, its row is
the number of increments, and its place in the page is that row's.

*Stream.* For any buffer size, objects, openmodes and characters; objects are
no longer than the bound and a bulk call writes at least one character. While a
stream is on track, `GetInv` ties the get area to the part of the object before
the descriptor and `PutInv` says that what is in the put area may be written and
finds room. A step that is not off track then maps to a step of
`SequentialFile` or to a stutter: the lemmas about what a request sends, and
what a put area writes over the object, say so about sequences, and one lemma
per call applies them. Calls that are off track are excluded as they are in
`FileSteps`.

*Calls.* For any programs, numbers of calls and reports. The connection is one
queue in each direction and the agent between them. `Due` is the call whose
reply is read next: the call in progress or the next one, less the number of
calls that returned before their reply was read. `QueueInv`: the replies under
way are those of consecutive calls from `Due`, and only the last can be a
progress report. `AgentInv`: the agent is at the call after them, and behind it
are requests for the calls after that; when it awaits an
acknowledgement (`Reporting`), that is under way or still due, or the agent is
about to read a request in its place, which ends it. So a reply cannot overtake,
and a call reads that of `Due`. `CallsInv` adds what the messages say.
`RequestsInv`: wherever the request of the call in progress is, in the queue or
with the agent, it has the parameters of that call, and the call is one of the
program that was not refused; a late request of an abandoned call has another
number. `StatusesInv`: every status, under way or returned, is success or the code of
its cause less an errno. The assumptions are about the tables, and TLC
evaluates them on the tables themselves: a wrapper's structures are those of its
row (`CallersAssumption`) and the parameters a whole call passes are those of
the function of the row (`ParameterAssumption`); the errors of the client are
negative; a name is its code's first and a multiple of a thousand, but for the
six (`TableAssumption`). What the server returns is a code less an errno, as
`rodsErrorTable.h` prescribes (`StatusAssumption`). `StatusesAreNamed` is then
arithmetic: the truncating division drops the errno, and the first entry of a
code is the one the search finds.

*Filesystem.* For any clients, programs and catalogs; a program is a sequence of
calls of the library at their beginning. `Inv` says that a frame has a handle
exactly while it is a copy in its loop, that an iterator of a walk without one
is at its end, that the handles of one client's frames and iterators are
distinct, and that a walk and a remove are called by no other function, so that
the iterators of a walk are never on the stack together with those of frames.
`HandlesAccounted` alone would not do: a handle that two frames shared would be
closed once and owned twice. One lemma, `Accounts`, reduces a step to the handles of
the client that takes it; then what is thrown, what returns, what is opened,
read and closed each have a lemma, and each operation applies them.

*Data in the catalog.* For the same, and for any catalogs that are trees
(`CatalogAssumption`: whatever has something below it is a collection in it).
`DataInv` adds to `Inv` that the catalog stays such a tree (`CatalogInv`), and
that a frame was asked for what it may destroy (`FrameOf`): a copy that
overwrites has been called by one that was to overwrite, and the frame of a
remove or a rename is the operation itself, with its paths. Without the tree
`KeepsData` is not true: a rename onto a path where the server finds nothing
would overwrite what is below that path. One lemma per change of the catalog
(`Added`, `Replaced`, `RemovedOne`, `RemovedTree`, `AddedLine`, `RenamedTree`)
says that the result is a tree and which paths lost their data; they rest on
lemmas about prefixes of paths, and on `MovedFacts`: what is renamed can be
moved back, so no two things of a renamed tree meet at one path. The server
admits a call or not by the catalog as it is then, so that what the client saw
before matters for what it asks and never for what is kept.

*Walks and counts.* For the same, and for any `BeginsWith`. A walk is compared
with the catalog it began in, so the invariant is about the clients with
`before[c] # <<>>`, for which it is still the catalog of now. `WalkOf` says of
such a walk what its stack stands for. Each iterator has a row: the entry it
shows and those its handle has left. `RowsInv`: no entry is in two rows, nor
twice in one. `PathsInv`: no entry of a row is below another, and what is below
the start splits into what has been seen, what has been skipped and what is
ahead, which is what is at or below the entries of the rows, less what the walk
has passed of the entry it shows (`Ahead`). That an iterator moves on before its
collection is entered is what keeps the rows apart: entering replaces what is
below one entry by the trees of its children (`EnteredPaths`), moving on takes
one entry out of its row, and a decline or a pop moves what is ahead to what is
skipped. At the end nothing is ahead, which is `WalkVisitsOnce`. The steps of
another client leave the handles of the walk as they are, by `HandlesStep` and
`HandlesAccounted`.

`RemoveAllCounts` rests on `CountsInv`: while the operation is under way its
`count` is the number of objects that are like its path in the catalog it began
with, as far as it has counted, and not 0 when it goes on; and on `TreeIsLike`:
whatever is at or below a collection is like it. That is a fact about prefixes
of paths, and finite sets do the rest. `KeepsLimit` needs no invariant of its
own: each lemma of `StepGrows` says what a change adds and under which test of
lengths. It excludes what is below a renamed collection, because a rename
checks its own two paths and not those.

*Copies.* For the same. `CopyIsImage` speaks of a copy that has returned; the
invariant behind it, `ImagesInv`, of one at any depth of its recursion, in a
catalog that nobody else has changed. `Grown`: all that existed is as it was,
and what is new is where something of the image lands, and of its kind. Every
path of the image is `Made` or `Owed`: a copy at its beginning owes the tree of
its source, one about to open its collection all that is below it, one in its
loop what is at or below the entries left in its handle, and the calls that
make one object owe that path. So when no frame is left, all is made.
`CopyStack` says what makes this so: every frame but the top `Waits`, which is
to be in the loop over a path of the source whose target is the same path
moved, with entries that the source has, or to have made its collection and be
about to set its permissions; the top may also have just begun (`Starts`), and
then what it has seen is still so. That what it saw is enough to decide on is
`LandingNow`: where a data object lands is the same by the catalog it began
with as by the one it sees. The rest is that a copy does not read what it
makes: whatever it makes is at or below its target, hence never in its source
(`SourceStays`), which is where it matters that neither path is above the
other. A turn of the loop takes one entry out of what is owed and gives it to
the frame it calls (`LoopTurns`); a call that makes an object pays what it owes
and leaves the debts of the others as they are (`MakesImages`); an exception
ends the promise. As for walks, the handles of a copy are left alone by other
clients.

What stays with TLC:

- the liveness properties of every module, since fairness and ENABLED are beyond
  the prover;
- `ReadsEverything` and `Released` of `CollectionReader`, which builds its
  queries by folds;
- `SelectionAsWritten`, `LayoutAgrees`, and `ReceivedAsSent` and `SendInv` of
  `Packing`: they are computations over tables, or over the recursion in an
  instruction, and what they yield for every input would need induction over
  data, which the installed provers cannot apply.

## What the models show about the code

The violations are disagreements between the code and its own comments; each is
a run of its own with a counterexample that TLC finds.

- Assigning to a `connection_proxy` that holds a slot loses the slot
  (`pool_returned`), although "On destruction, the underlying connection is
  immediately returned to the pool" (`include/connection_pool.hpp:18`).
- The reconnection thread ends without a notification when the host name does
  not resolve, and the application, which waits "for reconnManager to get
  done" (`rcConnect.cpp:522`), never returns (`reconnect_hang`).
- A reply whose body cannot be read is reported with status 0
  (`reconnect_status`).
- A specific query is executed twice, and the statement of the first answer is
  never closed (`StatementKnown`).
- A stream's bulk read does not count the characters that were in its buffer,
  and the rest of the list under *DataStream* above.

Others have no run of their own, and are stated by the properties as exceptions:

- *Reconnection.* A switch replaces `conn->sock` and not `conn->ssl`
  (`sockComm.cpp:1076`), which is bound to a descriptor (`sslSockComm.cpp:203`)
  and copied into every network object (`irods_ssl_object.cpp:28`): a connection
  with TLS goes on with the descriptor that was closed, which
  `ExchangeOnCurrentSocket` says.
- *Set-up.* A failed negotiation and a failed start of TLS leave the socket
  open (`sockComm.cpp:438` and `:487`), and so does a reconnection thread that
  cannot be started, after which `rcConnect` returns no `rcComm_t` to close
  (`rcConnect.cpp:178`); a failed login closes it.
- *Filesystem.* The options of a copy are compared with `==`, so that a
  recursive copy, which has set one flag more, knows none of
  `skip_existing`, `overwrite_existing` and `update_existing`
  (`filesystem.cpp:338`). A recursive copy puts a data object *into* a
  collection that has its name at the target (`filesystem.cpp:282`), which
  `Landing` says; one onto a collection above the source finds its own copies
  when it comes to read the names it has made, and is excluded from
  `CopyIsImage`. `remove_all` counts by a prefix of the text of the
  path and so counts siblings too: `RemoveAllCounts` promises no less than was
  removed, not as much. The walk of an empty collection reads through an
  iterator at its end (`recursive_collection_iterator.cpp:16`). `stat` copies a
  path of any length into a buffer of a fixed one (`filesystem.cpp:149`), and
  `copy` and a walk call it with paths whose length nobody has looked at. The
  permissions that `create_collection` takes from its model are read after its
  kind (`:174`), and are none if it has gone in between. A checksum that was
  calculated is reported as failed if the query for it throws (`:796`).
- *Packing.* The comment "no need to align boundary for struct"
  (`packStruct.cpp:848`, `:1049`, `:2768`) is not true of `fileMkdirInp_PI`: the
  walk looks for the structure in it four bytes before the compiler puts it.
  `GeneralUpdateInp_PI`, named by the API table (`apiTable.hpp:755`), is in
  no table of instructions. Some instructions end before their structure does
  (`RodsObjStat_PI`, `SubStructFileFdOpr_PI`, `SubStructFileLseekInp_PI`,
  `generalRowInsertInp_PI`): the last members are not sent. `NULL` in a table of
  strings becomes the empty string, or an error in XML. `unpackChar` and
  `unpackInt` swallow errors (`:1805`, `:2080`).
- *Calls.* A missing pointer for the result is noticed when the request has
  been sent, so that the connection is one reply late from then on; the same
  holds after a progress report that cannot be unpacked. A request that could
  not be sent leaves the status of `packStruct`, which is 0, and the call goes
  on to read. The format that the error table describes
  (`rodsErrorTable.h:30-47`) is not that of `SYS_SOCK_LISTEN_ERR` and of the
  codes around -99999996, and -746000 has two names.
- *Queries.* A limit of 2^32 or a multiple of it is no limit, and a greater one
  that of its low bits (`query.hpp:176`, `:249`).
- *Query strings.* `between 'a' and 'b'` is refused; a keyword in lower case
  inside a value is taken for the clause if the clause itself is in upper case;
  a function with an unknown name selects the plain column without an error; a
  bracket that is not closed is no error.
- *Collection reading.* An object with more replicas than a page ends the
  reading (`miscUtil.cpp:1519`); "pick a good copy" (`:1512`) is never reached
  for objects of the catalog; further pages of a linked collection are asked
  for with the wrong request and its arrays are leaked; a collection of an
  unknown type ends the reading of the rest; some failures are only logged
  (`OnlyLogged`); the condition that a caller has put into a handle for
  `INCLUDE_CONDINPUT_IN_QUERY` is lost when the opening fails and the handle is
  opened again without the flag (`:996`, `:1002`); the condition on a path longer than half of `MAX_NAME_LEN` is
  cut (`:227`).

## Not modelled

- The lifetime of a pool: it is assumed to outlive its proxies.
- The manager after `rcDisconnect` gave up waiting for it, and the write of
  a collection status in `PROCESSING_STATE`: the steps are in the model, and
  the properties exclude them by name, as the hazards say.
- The query processor and the thread pool: one task that is run once and fills
  a vector under no lock; to come, composed with `Query`'s pages.
- Logical paths, the parsers of hierarchies, children and key-value strings:
  algorithms on text, to come as operators checked against definitions.
- Password obfuscation: arithmetic on characters and on the time of day; its
  inverse can be checked only over alphabets so small that the arithmetic is
  another one.
- Environment and configuration: which source overrides which is one look-up
  after another, without state of interest.
- The rest of the client utilities (making directories recursively, progress
  reports, bulk and structured-file helpers) and of `rcMisc.cpp` (times,
  terminals, error stacks).
- `dlopen` and the constructors of plugins; OpenSSL; checksums and hashers.
- Data: row text, path names where a property does not tell them apart,
  logging.

`PROJECT.json` lists every component with its status and its reason.

## Plan

Written so far, in this order: `ConnectionPool` with `SlotOwnership` and its
proofs; `Reconnect`; `Query`; `SequentialFile` and `DataStream`;
`ConnectionSetup`; `Filesystem`; `Packing` with its tables; `ApiCalls` with its
tables; `CollectionReader`; `QueryText` in front of `Query`; the proofs of
`ConnectionSetup`, `Reconnect`, `Query`, `DataStream`, `ApiCalls` and
`Filesystem`, there for the handles, the data, the walks, the counts and the
copies.

Next:

1. Proofs: `Released` of `CollectionReader`.
2. `QueryProcessor`, which composes `Query`'s pages with the tasks of a thread
   pool and the promise of the errors.
3. Paths and the parsers, checked over bounded inputs.
4. The rest of the client utilities that make several requests.
