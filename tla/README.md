# A verification development of sctp-tests

sctp-tests is a test suite for the SCTP stack of the Linux kernel: a runner in
bash that goes through a list of cases, topologies made of network namespaces
or physical hosts, and the cases themselves, of which six are C programs, three
of them with a client, a server and a protocol of their own. A test suite is correct when
its verdicts are: a kernel that behaves must pass, one that does not must fail,
and the suite must come to its end. That is what the modules here are about.
Paths below are relative to `src/`.

## 1. The system

### Components, their state and their operations

| component | state | operations |
|---|---|---|
| runner, `sctp-tests` | directory stack, shell variable `Topo`, the functions `do_*` and `st_topo_*` that scripts define | parse the list, pushd, source case and topology, set up, test, clean, popd |
| debug shell, `sctp-tests shell` | the same shell, without the loop | `st_setup`, `st_test`, `st_clean` in any order, Ctrl-C |
| topologies, `topos/` | namespaces, veth pairs, bridges, teams, addresses on the host; functions and arrays in the shell | `st_topo_setup`, `st_topo_clean`, command by command |
| strreset, prsctp, ndatasched (`testcase/conformance`) | a client and a server process, one association, iptables rules, the server's context `cb[]` | connect, commands, data, filter, resets, check functions |
| peeloffbusy (`testcase/regression`) | two threads, one socket, a filter, a send buffer | fill the buffer; peel the association off from under the sender |
| dryevents (`testcase/regression`) | a server and 300 clients one after another, the server's queue, a fixed port | subscribe, `select()`, read without blocking, respond |
| sctphashtable (`testcase/performance`) | a table of sockets, a clock, a timeout around both | create associations, send, measure, close |
| repeatability (`testcase/performance`) | a sequential script judged by time | measure |
| gsomtuchange, extoverflow, procdumps, sctpdiag | none of their own | run external programs and look for a panic |
| lksctptools | a clone of another project | build it and run its tests |
| libst, psshkey, demo cases | log files, ssh keys | logging, installation, templates |

The runner sources the script of a case into its own shell; the script starts
client and server in their namespaces (`st_c_run`, `st_s_run`), waits for both
and logs PASS or FAIL by the exit code of the server. Client and server talk
through one SCTP association: data messages, and commands that are told from
data by their length alone (11, 12; the answer is 13 long). The client works on
the kernel through iptables and socket options. Only the server judges.

### What is hard

* The client's calls, the server's loop, the kernel's deliveries and, in two
  cases of prsctp, a thread that opens the filter run concurrently.
* The order of arrival is not that of sending: streams and unordered messages
  overtake each other, and the CLOSE command is a message like any other.
* Messages are held, expired, displaced and released by the filter, by the
  policies of PR-SCTP, by the size of the send buffer and by stream resets.
* `sleep()` is the only synchronisation apart from the command exchange.
* Either process can die; the filter and the other process stay.
* In the runner, everything is global: what one script defines or pushes is
  there for the next.
* Topologies are made of commands nobody checks; a set up that was interrupted
  is run over, by the same shell or by another, and names are taken host-wide.
* The regression cases exist to catch a race of the kernel. Whether they accuse
  the kernel only, and all of it, depends on an order of threads, processes and
  wake-ups that they influence with a `sleep()` at best.

Each hazard is listed in `PROJECT.json` at the line where it bites, with the
properties that are about it.

## 2. Modules

| module | models | extends or instantiates |
|---|---|---|
| `SnScript` | the calls a client is made of; messages and commands | |
| `SnSession` | `test.sh`, client, thread, server, filter and kernel of all three programs | `SnScript`, `RemoteCall` |
| `RemoteCall` | the abstract exchange of commands and answers | |
| `StrReset`, `PrSctp`, `NdataSched` | cases, tests and check functions of `strreset.c`, `sctp_pr.c`, `sctp_ndata.c` | `SnScript` |
| `SnOrder` | what arrives before what: the CLOSE command and the cork | `SnSession` |
| `MCSession` | one suite of the cases of all three programs, for TLC | `SnOrder` and the three modules |
| `PeeloffBusy` | both threads of `peeloffbusy/client.c`, the filter and the send buffer | |
| `DryEvents` | `sctp-dry-event.c` as server and as clients, `test.sh`, the kernel's queue | |
| `SctpHashTable` | `do_test()` and `client.c` of sctphashtable, with time | |
| `StRunner` | the loop of `sctp-tests run` | |
| `MCStRunner` | the list `testplan/upstream.list` and all short lists, for TLC | `StRunner` |
| `StTopo` | shells that set up and clean a topology of namespaces, one action per command | |
| `MCStTopo` | a prefix for each of three topologies, for TLC | `StTopo` |
| `SnSession_proofs`, `SnOrder_proofs`, `MCSession_proofs`, `StRunner_proofs`, `PeeloffBusy_proofs`, `DryEvents_proofs`, `SctpHashTable_proofs`, `StTopo_proofs` | theorems and proofs | their module, `TLAPS` |

### SnSession and its parameters

The three C programs share their client, their server and their protocol, and
differ in what a client sends, what a server checks and which options are set.
`SnSession` models the shared code once. A client is a *script*: the sequence of
its calls (`connect`, `enable`, `cmd`, `send`, `drop`, `flush`, `reset`, `cork`,
`sndbuf`, `sleep`, `spawn`, `join`), each of which is an action. `StrReset`,
`PrSctp` and `NdataSched` are the functions from a case to its script, and from
a context and a message to the context the check function leaves. The loops of
the tests are unrolled into the script; what a row of `sn_cases[]` says of the
flow (a filter or none, a cork or none) decides what the script holds.

| variable | in the code |
|---|---|
| `cur`, `phase`, `logged` | the loops of the three `test.sh`, their two processes, the verdict logged last |
| `client`, `thr`, `server` | `do_client()`, `cleanup_sctp()`, `do_server()`: where each of them is |
| `mem` | `struct sn_context` of the server: `cb[0..3]`, the word behind them, `sri` |
| `rules` | the rules of iptables on the client's host |
| `small`, `enabled`, `strm` | `SO_SNDBUF`, `SCTP_ENABLE_STREAM_RESET` of each end, closed streams |
| `sent`, `pend`, `rcvq`, `nread`, `acks` | messages: sent, queued, delivered, read, answers under way |

Choices worth knowing:

* A message is its length, stream, flag and policy; the ghost field `cmd` says
  whether it was sent as a command. The server looks only at the length, as the
  code does; that the two agree is part of the invariant (`Distinct`).
* `sn_send_asoc_cmd()` is two actions, before and after it blocks in
  `sctp_recvmsg()`. The second takes any answer there is.
* The word behind `cb[]` is the same field `c4` for the check functions, which
  name it `cb[4]`, and for the association id.
* The kernel is external. It is modelled by what the programs rely on: delivery
  per stream in order, TTL, RTX and PRIO of PR-SCTP, negotiation and completion
  of resets, the schedulers. `KernelBugs` adds what the suites are to detect:
  "keep" (does not abandon or displace), "lose", "dup".
* `Turn`, `Timely` and `Faults` say which environment a run is about: which of the
  queued messages sender and path may hand over next, whether a sleep lasts until
  what can happen has happened, whether system calls may fail.
* A list of cases may mix the programs. Each case belongs to a suite, whose
  hosts are its own: the filter outlives a case, not a suite.
* Numbers: 70000 messages of a burst become `Burst`, the 10000 rounds, 10 streams
  and 10 messages of ndatasched become `Rounds`, `Width` and `Count`; the
  total a performance case is compared with is that of the shortened loops. That the
  totals in the code are those of its own loops is `TotalAssumption`, on the code's
  numbers (`CodeRounds`, `CodeTotal`), which TLC evaluates. A send buffer of 5000
  bytes with 800 per message holds what the code's buffer holds of its messages:
  one of 4500 but not two, and five of one byte with one of 1000.
* The two cases of fuzz B set scheduler and stream values of a random row in every
  round, so any scheduler of the table may choose the next message (`SchedTurn`).
  The row drawn last (`FuzzEnds`) decides whether the filter is flushed in the end.
* The performance loop of `test.sh` logs what the server prints, not its exit status
  (`ByStatus`); `logged` is then "text", of which `SurvivorsPass` says nothing.
* `cleanup_sctp()` of prsctp may flush the filter before, between or after the last
  two sends of the main thread, or while one of them blocks. With `Timely` its sleep
  lasts until the main thread is through or held up in a send: after the first send
  already on a kernel whose PRIO policy, contrary to its promise, displaces nothing.
* The random lengths of the fuzz cases are represented by the shortest one, 20,
  the one closest to a command; no check depends on others.
* `test.sh` of ndatasched goes through its loops twice, with `intl_enable` 0 and
  1. Interleaving of fragments does not show in the order of whole messages of
  one fragment, and the model goes through the loops once.

### StRunner

One action for each function that `st_case_schedule()` calls. The state is the
shell's: `dirs` (the directory stack), `Topo`, `fn` (which script each `do_*`
comes from), `topofn` (which topology `st_topo_*` comes from); and the host's:
`up` and `started`. What a script is, is a table: the topology it names, the
functions it defines, whether it sources a file of its directory and whether it
calls `pushd` and `popd` unchecked. Such a case may lose a directory of the
stack at each of its functions (`Stray`).

### PeeloffBusy

One action per call of either thread that can block, fail or be seen by the
other: `main` and `thr` say which call each is in, `i` and `pass` are the
variables of `main()`, `assoc` is where the association is, `queue` what the send
buffer holds. `errno` is compared with `EPIPE` after every turn; it is that value
only after the call that woke to it. The kernel is one of three: it wakes the
sleeping sender with `EPIPE` when its association has moved, it denies the
peel-off while somebody sleeps, or it never wakes the sender. `Timely` says that
the thread's `sleep(5)` is longer than what `main()` needs to fill the buffer and
shorter than what SCTP needs to give the association up; no run assumes it.

### DryEvents

`client` and `server` are the calls the two processes are in; `turn` is the loop
of `test.sh`. The server's queue holds data, events and the end of a connection.
A client's exit is one action with the shell's look at its status; its
association is shut down behind it and holds port 3333 until `ReleasePort`. The
kernel that the case is to expose leaves a mark on the socket when it queues a
`SENDER_DRY` event for the call that subscribes, and the mark eats the next
wake-up. `causes` is a ghost: why a client may have had to fail.

### SctpHashTable

The client's loops of 50 x 50 connections and 100000 sends are `Cnt` and `Loops`;
`clock` counts from the start of a client, and `Tick` may come between any two
calls, so that a call lasts any time, or for ever. `Timeout` is timeout(1). The
sockets are modelled by their places in `fds[][]`, so that what is outside the
table would be seen.

### StTopo

A set up and a clean are sequences of commands (`Setup`, `Clean`), and each
command is an action that does its work if it can and nothing if it cannot,
which is all that scripts without a check amount to. The shell may be interrupted
between any two, starts over with whatever is there, or is replaced by a new one
that has neither the functions `st_c_run` and `st_s_run` nor the arrays. A veth
pair is a set of two ends, each a place and a name; the four pairs of the team
topology are `Pairs`, its two teams and the two bridges of a namespace are one
(`Master`), and the addresses of a device are one. `Orderly` says that no shell
begins while that of another prefix is half way; `SameShell` that a team topology
is cleaned by the shell that set it up.

## 3. Properties and runs

Every run's cfg carries its module's name and the run's last word.
`CHECK_DEADLOCK FALSE` stands in all of them but those of `StTopo` because a suite,
a case and a run end; where that they do is a question, it is a liveness property.
The shells of `StTopo` always have something to do.

| run | question | properties |
|---|---|---|
| `sn_suites` | does a good kernel pass all 39 cases of the three programs, and does only a death hang a suite? | `CloseIsLast`, `SurvivorsPass`, `SumIsExact`, `CorkHolds`, `PerfReported`, `HangOnlyAfterFailure` |
| `sn_judged` | does the verdict of a case tell a kernel with the fault it is after from a good one? | `NoFalseFail`, `NoFalsePass` |
| `pr_missed` | ... and that of the other cases? No: see below | `ExpectedLength` (violated) |
| `sn_anyhow` | does the protocol hold in every environment, and does only a death hang it? | `TypeOK`, `Rendezvous`, `ResetNegotiated`, `ImplementsRemoteCall`, `HangOnlyAfterFailure` |
| `dry_clients` | whom does dryevents accuse, and what may hang it? | `TypeOK`, `NeverBothWait`, `PassMeansAnswered`, `FailHasCause`, `HangOnlyReproduces` |
| `dry_silent` | is every client of a PASS answered, whatever failed? No: see below | `WaitsForResponse` (violated) |
| `peeloff_any` | what is a verdict of peeloffbusy worth, and does the filter go? | `TypeOK`, `PassMeansStolen`, `FailHasCause`, `NoRuleLeft`, `Ends` |
| `hash_time` | what does a PASS of sctphashtable say of the time, and does the case end? | `TypeOK`, `OwnCheckIsMoot`, `PassInTime`, `Ends` |
| `topo_shells` | do interrupted set ups and cleans spoil later ones? | `TypeOK`, `SetupIsComplete`, `CleanIsComplete`, `OneOnHost` |
| `debug_clean` | ... if another shell cleans? Yes: see below | `CleanIsComplete` (violated) |
| `runner_lists` | does one case leak into the next? | `AtRoot`, `OwnFunctions`, `HostClean`, `OneTopology`, `RunsTheList` |
| `runner_no_topology` | ... its topology? Yes: see below | `NoneMeansNone` (violated) |

What the properties say:

* `CloseIsLast`: when a server leaves its loop no data message is queued or
  unread: CLOSE has not overtaken data, in spite of travelling on another
  stream. It needs the sleeps, the thread's join and the flush together.
* `SurvivorsPass`: on a good kernel every case whose client came to its end is
  logged as PASS, for every interleaving and whatever an earlier client that died
  has left in the filter.
* `NoFalseFail`, `NoFalsePass`: the verdict against what was delivered, message
  by message, and for the corked cases in the order of the scheduler's table. The
  second holds for the faults named in the run only; section 6 lists those that
  the check functions cannot see.
* `SumIsExact`: no client of prsctp causes the association id to be stored in the
  word in which its server adds up lengths.
* `Rendezvous`, `ImplementsRemoteCall`: one command or one answer under way, and
  the client goes on only after the server has done what was asked.
* `CorkHolds`, `PerfReported`: nothing arrives before a corked client has sent
  all; the counter of a performance case meets its total.
* `NeverBothWait`, `HangOnlyReproduces`: a client that waits for its answer and the
  server's one loop of `accept()`, `select()`, `read_data()` and `close()` never wait
  for each other, and the case hangs for no other reason than the fault it is to
  expose, not even a failed call. A server that took data for an event, and went
  back to `select()` without an answer, would break both.
* `HangOnlyAfterFailure`: only the death of a program hangs a loop of `test.sh`. In
  `sn_anyhow` the sleeps may be too short as well: a client that comes before its
  server listens is refused and dies, and nothing else follows from it.
* `PassMeansAnswered`, `FailHasCause` (dryevents): the client takes the end of a
  connection for an answer, but no connection ends before its client unless a
  call has failed. A FAIL has one of three causes, two of which are the case's
  own: it does not wait until the server listens, and binds to a fixed port.
* `PassMeansStolen`, `FailHasCause` (peeloffbusy): a PASS means the association was
  taken from under the sender, or lost; a FAIL on a kernel that does what it
  should has a cause.
* `NoRuleLeft`, `Ends`: the filter of peeloffbusy is gone at the end; the main
  thread sleeps for ever only if the kernel never wakes it or a call failed.
* `OwnCheckIsMoot`, `PassInTime`: the client's check for 1000 seconds never bites
  under a timeout of 1000 seconds, and a PASS takes at most 970 until the last
  close.
* `SetupIsComplete`, `CleanIsComplete`, `OneOnHost`: what comes to its end is
  complete, whatever was left before; a pair left on the host is used up by the
  next set up.
* `RunsTheList`: the cases gone through are those before the first that cannot
  be loaded, and the loop gets there.

### Bounds

* prsctp: all cases of the table with their own numbers of messages.
* ndatasched: all cases that `test.sh` runs, with 4 messages on 2 streams instead
  of a million on 10; two streams and two messages on each are what it takes for
  streams to overtake one another, and the totals scale.
* strreset: bursts of 3 messages before the reset instead of 70000; what matters
  is that more than one is queued when the reset is asked for.
* `sn_anyhow`, with failures, faults and arbitrary timing, has two cases of
  strreset and two of prsctp: the cases differ in data, and two of a suite follow
  one another so that what one leaves is there for the next.
* `MaxBugs`: one lost message per case, or up to two duplicates.
* dryevents: three clients. A client meets what its predecessor left (port,
  connection, mark), and a third shows that this does not add up.
* peeloffbusy: four sends with buffers for one, two and four messages: smaller
  than the loop, and as large, when nobody ever sleeps.
* sctphashtable: 2 x 2 associations, two sends, a limit of 6 and a pause of 2
  seconds: all calls fit into the limit or not, at every place.
* topologies: three prefixes, one for each topology, with two pairs each, so that
  a set up can be interrupted between, before and after pairs.
* The runner: all 258 lists of up to three cases over six kinds (pushes itself;
  two with different topologies; defines only `do_test`; does not exist; names
  a topology that does not exist) and the list of 16. Three cases are what it
  takes to see something that skips a case.

### Fairness

`SnSession` assumes weak fairness of each process, of delivery and of the answer
to a reset: processes that can run are scheduled, and the kernel retransmits and
expires what it holds. Nothing is assumed of failures, losses or duplicates.
`StRunner` assumes weak fairness of the shell; whether a single `do_test`
returns is the subject of the other modules. `DryEvents` assumes it of both
processes and of the end of a shutdown, but not of the arrival of events;
`PeeloffBusy` of both threads and of delivery once the filter is open, but not of
SCTP's giving up. `SctpHashTable` assumes of the client nothing at all: time
passes, and timeout(1) keeps its word. `StTopo` has no liveness property: nobody
has to type `st_clean`. That a sleep is long enough is not fairness but the
switch `Timely`, which is on in the runs `sn_suites`, `sn_judged` and `pr_missed`
only; of the theorems `ClosedInvariant` and what rests on it assume it
(`CloseAlwaysLast`, `SuitesCloseLast`, `PerfAlwaysReported`, `NeverFalsePass`).

### What the violations show

* `pr_missed`. The check of cases 0, 1, 3, 4, 6 and 7 (`sctp_pr.c:255-265`) sets
  the verdict at every message. A kernel that does not let the first message
  expire delivers it and then the second, which sets the verdict to success.
* `runner_no_topology`. `st_topo_validate()` returns when `Topo` is empty and
  leaves the functions of the last topology in the shell, where `st_do_setup()`
  and `st_do_clean()` find them: procdumps, after sctp_rr, sets up `netns_cs`
  again around a test that is meant to run on the host.
* `dry_silent`. The client's loop (`sctp-dry-event.c:296`) ends on an error as on
  data, and `main()` returns 0: a client whose receive failed, or whose connection
  the server has had to close because one of its own calls failed, counts as
  answered.
* `debug_clean`. `st_topo_clean` of `netns_team_cs.sh` needs the arrays and the
  functions of `st_topo_setup`. A new debug shell has neither; its `st_clean` kills
  no teamd and deletes the names of the namespaces in which they run. A later set
  up with the same prefix then finds the names of the teams taken.

## 4. Theorems

TLC checks instances; the proofs are for every value of the constants: any list
of cases, any scripts and check functions that satisfy the assumptions, any
kernel faults, timing and failures where no hypothesis names them; for the runner any lists, cases and
topologies; for the other cases any number of clients, sends and associations,
any buffers and limits; for the topologies any shells and prefixes.

`SnSession_proofs`. From `CasesAssumption`, `ScriptAssumption` (no data message
has the length of a command), `ResetAssumption` (a script asks for resets after
the exchange) and the types of the other constants:

* `InductiveInvariant`: `Spec => []IInv`. `Rendezvous` by itself is not inductive:
  that a message of length 12 is the command the client waits for needs
  `Distinct`, that the command is not in two places needs `OnePlace`, that an
  answer means the server has done what was asked needs `AwaitsCall`, and that
  this is still so at a later call needs `Exchanged`. One lemma treats the calls
  that return at once, one each the actions of the exchange, the server, the
  faults and the kernel.
* `TypeCorrectness`, `ExchangeInStep` (`Rendezvous`) and `ResetsAreNegotiated`
  (`ResetNegotiated`) follow from it.
* `Implementation`: `Spec => ImplementsRemoteCall`. The refinement mapping makes
  the exchange "asked" while the client waits, "answered" while an answer is
  under way, and the peer what `server` and `enabled` say; every step is one of
  `RemoteCall` or stutters.

`SnOrder_proofs`. From `CloseAssumption` (no script sends behind its CLOSE) and
`CorkAssumption` (a corked client has no thread, drops the answers before it asks
for the reset and sends all its messages before the flush):

* `CorkInvariant`: `Spec => []CorkInv`, whatever the timing, the kernel and the
  failures. `SentByCalls` ties every message to a call behind the client, CLOSE
  being the last; `ThreadAlive` says that a thread that may still flush has been
  spawned and not joined; `ClosedStreams` up to which message streams are closed;
  `Filtered` that the filter keeps what a client without a thread has put into
  it; and `Shut`, which needs the other four, that between cork and flush no data
  message has arrived and none can. `CorkAlwaysHolds` (`CorkHolds`) follows.
* `ClosedInvariant`: `Closed` and `LeftByClose`, from `CorkInv`. The parts are `Settled`
  (when the client is at its CLOSE no data is queued, or everything is blocked),
  `NothingBehind` (a delivered CLOSE has nothing behind it) and `LeftByClose` (the loop
  is left by reading it). `Closed` says the first two of a case that `Serves`, in
  whatever list it is; if all cases do, `CloseInvariant` says it at all times, and
  `CloseAlwaysLast` (`CloseIsLast`) follows. They assume `Timely`. `Serves` means: what sender and path can transmit includes something when
  there is something (`OffersOne`) and the oldest message, unless no data is ever
  behind a reset; and either the client sleeps before CLOSE (`Settles`), or the path
  keeps the order of the calls (`KeepsOrder`). `QuietMeans` is where a sleep is used:
  a quiet association is empty or blocked.

`MCSession_proofs`. What these say of the cases of the three programs, for all
values of `Rounds`, `Count`, `Width` and `Burst`:

* `SuitesCloseLast` (`CloseIsLast`): prsctp serves any order, strreset the order of
  the calls, ndatasched that of the scheduler (`PromisedTurn`); `SchedulerServes`
  proves it of the three schedulers. `SuiteAssumption`, which TLC evaluates, says
  which cases sleep before CLOSE. Assumes `Timely` and `Turn = PromisedTurn`.
* `SumAlwaysExact` (`SumIsExact`): assumes `Programs`, that scripts and checks are
  those of the three programs, and nothing of the kernel. `NoResetAsked`: no script
  of a case that adds up lengths holds the command that would store the
  association id. `SumInv` then follows the word behind the array, message by
  message; that sums of a growing queue agree with the sums before (`SumsAgree`)
  is proved by a smallest counterexample, as induction is out of reach.
* `PerfAlwaysReported` (`PerfReported`): assumes the same as `SuitesCloseLast`, and
  that of the messages of a performance case none is lost or repeated (`Conforms`).
  `PerfCalls` says what call k of the script is for any number of calls; `PerfInv`
  that the log holds the messages of the calls reached (`PerfSent`), that queued
  and delivered messages add up to it (`PerfQueues`), that the reset command is
  read before anything else arrives (`PerfFirst`), and that the counter holds the
  rest (`PerfRead`). When the server leaves, `CloseInv` says that all have been read.
* `NeverFalseFail` (`NoFalseFail`): assumes `Programs` only, so nothing of time, of
  the order of arrival, of what the kernel loses, keeps or repeats, or of calls that
  fail. It has two halves that never meet before the end. `JudgeInv` is about the
  server: what the context says of *any* messages read (the last length was as
  expected; the sum of the lengths is a multiple of the one length there is; the
  first k rows of the table have been matched). `LogInv` is about the client: its
  log is a beginning of the messages its script says (`Numbers` is a numbering of
  the calls that send), and all of it once CLOSE is in it. From the scripts follows
  which messages are due and how many (`DueOf`, `Shows`, `Copies`), and `EachOnce` says
  of an exact run that places and messages due correspond one to one, so that what
  `JudgeInv` says is what the check wants (`PrPasses`, `RstPasses`, `TablePasses`).
* `NeverFalsePass` (`NoFalsePass`): assumes `Programs`, `Timely`, and `Detects`, which says
  what the run `sn_judged` says: the cases are among those that count messages or
  compare their order, the faults of the kernel those that the check of a case is
  after (`DetectedBugs`), and messages arrive in any order, or in that of the calls
  for the last two cases of prsctp (`AnyTurn`). Calls may fail at any time. `JudgeInv` says what was read when a check reports success. That it
  was what was due needs `PathInv`, about sender and path: a due message that is not
  lost is queued or delivered (`Kept`), one that is not repeated is delivered once
  and then no longer queued (`Once`), and where the path keeps the order all
  deliveries are in it (`InOrder`). With `Closed` a served case has read what is due
  when it ends (`AllDueRead`), so that too much is all that can have been read, and
  the count or the sum would show it. With strreset, which may lose messages, it is
  the other way round: none is read twice (`ReadOnce`), no more are due than `RstSent`
  says, and the sum shows that as many were read. For cases 9 and 10 the sums tell
  the four lengths apart in the order of the calls only, hence `KeepsOrder`.

`StRunner_proofs`. From `PlansAssumption`, `CaseAssumption` and `NameAssumption`:
`ShellInvariant`, whose parts say what the directory stack (`DirsInv`), the
functions (`FnInv`) and the host (`HostInv`) are worth at each stage; and from
it `ShellTypes`, `BackAtRoot`, `FunctionsAreOwn`, `HostIsClean` and
`TheOneTopology`. `OwnFunctions` needs `DirsInv`: a case that sources a file of
its directory gets its functions only if the shell is there.

`PeeloffBusy_proofs`. `IInv` relates the positions of the two threads to the
association and the filter: a rule that is there while nothing has gone wrong
means that the thread has yet to flush; a sleeper means a full buffer that
nobody empties before the flush. From it `TypeCorrectness`, `PassIsEarned`
(`PassMeansStolen`), `FailureHasCause` (`FailHasCause`) and `FilterIsGone`
(`NoRuleLeft`).

`DryEvents_proofs`. `Awake` says that without the mark a sleeping server has
nothing to read; `Undisturbed` that while no call has failed exactly the client
whose turn it is may have an association, an end is queued only for clients that
are through, and each of those had data. The lemmas `AppendItem`, `TailItem` and
`OtherQueue` are about queues, `Delivery` and `HangupKeeps` about the two things
the kernel does in several actions. From it `TypeCorrectness`, `EveryClientAnswered`
(`PassMeansAnswered`) and `FailureHasCause` (`FailHasCause`). `NoMutualWait`
(`NeverBothWait`) needs two more parts that hold whatever calls fail: `Connected`,
that an association the server has or will have is that of the running client or has
its end queued, over which the server does not sleep; and `Owed`, that the data of a
client that waits and has heard nothing lie in the queue of a connection that the
server serves or has yet to accept, or that the server is about to answer.

`SctpHashTable_proofs`. `start <= clock <= Limit` is why the client's own check
never bites (`OwnCheckNeverBites`); that the loop of sends is left only when it is
through, and the limit on the clock, give `PassIsInTime`. `EntryInTable` shows that
the two nested loops stay inside the table.

`StTopo_proofs`. From `PrefixAssumption` (no prefix is one of the three words that
the module uses for other places), for any number of prefixes and pairs:

* `HostInvariant` strengthens `OneOnHost`: an end on the host has one of the two
  names, and all of them belong to one pair, so that the next cannot be created
  before the last has left by both its ends. `OnePairOnHost` holds for shells that
  do what they like in any order.
* `WorldInvariant` (`GenInv`), also for any shells: what is left to run is the rest of
  one of the two programs (`ShellInv`), a pair has two ends and an end is of one
  pair (`LinkInv`), every device is in a place that exists, and what is in a place
  that does not is an orphan of a daemon (`PlaceInv`). `TypeCorrectness` follows.
* `CleansComplete` (`CleanIsComplete`) assumes `SameShell`. `TeamInv` says that no
  daemon outlives its namespace, `FallInv` what each command of a clean has done,
  counted from its begin, and that others do not undo it.
* `SetupsComplete` (`SetupIsComplete`) assumes `SameShell`, `Orderly` and `OneTeam` (one
  prefix uses teams, whose daemons are known by names without a prefix). `Orders`
  says that one prefix at a time is half way; `PairInv` that a pair is on the host,
  half way or in its place, in order; `AddrInv` and `RiseInv` what each command of a
  set up has done, whether it did it itself or found it done. The programs are
  known by the place of each command (`SetupIs`, `CleanIs` and what they rest on).

No hypothesis is idle: TLC finds a violation of `SetupIsComplete` with two prefixes
with teams, one with a team and a plain prefix that are not orderly, and one with a
single prefix and a new shell; the run `debug_clean` shows that of `CleanIsComplete`.

Only model-checked: `SurvivorsPass`, and of `NoFalsePass` nothing beyond the cases and
faults of the theorem (section 6). `SurvivorsPass` needs, besides `NeverFalseFail` and
`PathInv`, that a run in which everybody came to his end is exact, so that what a
policy can give up is given up: that the buffer of the `prio` cases is full when the
last message comes, whose fill is a sum over a set (`Used`), about which the provers
know nothing without induction; that what expires has expired before the sleep ends;
and that a scheduler that finds all messages queued serves them in the order of the
table. Also the liveness properties (`HangOnlyAfterFailure`,
`HangOnlyReproduces`, `Ends`, `RunsTheList`), which are out of the reach of the proof
system.

## 5. Plan

Done: the three conformance programs and their exchange, the runner, the two
regression programs, sctphashtable, three topologies and the debug shell's use of
them, and the proofs above. To come, in this order:

1. The topologies `netns_crs`, `netns_vlan_cs`, `netns_sit_cs` and
   `netns_ipsec_cs`, whose third namespace and devices on devices are new
   commands for `StTopo`.
2. `StRunner` with the topologies of `StTopo` in place of its "up" and "down", as a
   refinement: a topology that nobody interrupts is up as a whole or not at all.
3. `st_test` and the directory of the debug shell, as a second next-state
   relation on the state of `StRunner`.
4. Proofs: that the filter is empty at the end of every script that flushes after
   its last drop; `SurvivorsPass` for the cases without a buffer to fill, from
   `NeverFalseFail` and `PathInv`.

## 6. Not modelled, and known limits

* Option parsing, logging, package installation, ssh keys; the external programs
  (netperf, sctp_test, sctp_darn); the panics that the stress cases wait for.
* The topologies with routers, vlan, sit and ipsec; those on physical hosts, where
  nothing is created; `lksctptools`, `repeatability` and the stress cases, scripts
  around programs of other projects without a verdict of their own.
* `SetupIsComplete` is proved for shells that wait for one another (`Orderly`) and
  with one prefix for teams, and false otherwise. Without the first the pairs of two prefixes cross,
  even when a set up comes after the other's was interrupted: it moves the end
  that was left. Two prefixes with teams share the names of their daemons.
* A command of `StTopo` succeeds or leaves everything as it was; one that is
  interrupted in the middle, or fails for reasons of its own, is not modelled.
* sctphashtable's addresses: `do_setup` assigns 2 x 2500 of them unchecked, and a
  client whose address is missing fails in `bind()`, which is `CallFails`.
* `NoFalsePass` does not hold for every fault, because the check functions do not
  see it: the counting checks of prsctp accept a prefix of what they expect, the
  check of strreset never takes back a success, and the corked cases of
  ndatasched pass with too few messages. Cases 9 and 10 of prsctp add up lengths
  in the order of arrival and are checked on a path that keeps it. Case 10 is
  never run by `test.sh`.
* `test.sh` ignores how a client ends; a client that dies before the CLOSE
  command leaves the server, and the list, waiting. `HangOnlyAfterFailure` says
  that this is the only way to hang.
* A corked case to which more than its nine messages are delivered: the comparison
  reads behind its table. `AssertSid` has it, but no run delivers a tenth message,
  as repeated messages of the corked cases take TLC beyond five minutes.
* A message is delivered whole. A delivery in parts could produce a length that
  reads as a command.
* Read but not turned into runs: `sleep(3)` (`strreset.c:516`, "wait for server")
  does not look at the server; a client that comes first is refused and dies,
  and its server waits for ever. `topos/netns_ipsec_cs.sh:7-9` computes
  `ipsec_opt` and then ignores it in favour of `ipsec`; the row "FCFS fuzz B" of
  `sctp_ndata.c:509` names the test of fuzz A; `extoverflow` sets
  `prsctp_enable` to 0 when it cleans, whatever it was before.
