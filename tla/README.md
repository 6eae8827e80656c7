# Kerberos + MIKEY: verification project

The repository is a prototype that delivers group keys with Kerberos (RFC 4120)
and MIKEY (RFC 3830).  A client obtains a Kerberos service ticket; the session
key of that ticket then protects a MIKEY message in which the group controller
and key server (GCKS) hands the client a traffic generation key (TGK) for its
group.  The code knows two ways to do it:

* **KM1** (`kmtools/gcks1.cxx`, `kmtools/sclient.cxx`): the GCKS is an ordinary
  Kerberos service.  The client connects, authenticates, sends the group name,
  and reads the MIKEY message from the same connection.
* **KM2** (`kmtools/gcks2.cxx`, `kmtools/sclient2.cxx`, `krb5.patch`): the KDC
  itself tells the GCKS the session key while it answers the ticket request;
  the GCKS then calls the client on TCP port 9999.

## Inventory

| part | state it keeps | operations | interacts by | hard behaviour |
|---|---|---|---|---|
| KM2 client `sclient2.cxx` | credentials cache (file), `*creds`, listening socket | `obtain_credentials`, bind/listen, accept/recv, `responderAuthenticate`, time log, exit | UDP to the KDC; called by the GCKS on port 9999 | one port for all clients of a host; no timeout in `accept`; cached ticket; failed authentication only printed |
| KDC, `process_tgs_req` + `do_gcks_req` in `krb5.patch` | the request it works on, the fresh session key | answer a TGS request; forward key, client, address and group to the GCKS | UDP from clients; TCP 5000 to the GCKS | single thread blocked by the GCKS's queue; GCKS told before the reply is built; result ignored; sockets of refused connects left open; stale master key list; `exit(1)` |
| KM2 GCKS `gcks2.cxx`, `ksm2/gcks2_run.sh` | listening socket (queue of 5), the message in hand | accept, `process_mikey_message`, `send_mikey_message`, restart | TCP from the KDC, TCP to the client | one connection at a time; unbounded connect loop; restart loses the queue; keytab read once; goes on after a message that does not authenticate |
| KM1 server `gcks1.cxx`, `ksm1/gcks1_run.sh` | listening socket (queue of 2), the connection in hand | accept, `krb5_recvauth_gcks`, reply | TCP from clients | a failed authentication ends the process |
| KM1 client `sclient.cxx` | cache, `*creds`, connection | connect, `obtain_credentials`, `krb5_sendauth`, `net_read` twice, time log | UDP to the KDC, TCP to gcks1 | holds the server while it asks the KDC; short reads; verdict ignored |
| libmikey changes `minisip.patch`, `libmikey_wrapper.cxx`, `MikeyTestConfig.cxx` | a `Mikey` object's state, key agreement, TGK | construct, `initiatorCreate`, `responderAuthenticate`, `setMikeyOffer`, `setStateByInt` | called by all of the above | order of the calls; a `switch` without breaks |
| test programs `test_suite/test1.c` .. `test4.c`, `test_util.c` | time log, caches, running statistics | run every client for every group, reject samples, repeat | `system()` on the clients | stale samples; loops that may not end |
| timing `diff`, time sums | - | elapsed nanoseconds | time log | overflow, wrong borrow, a clock that is set |
| scripts `krb5_admin`, `basic`, build files | - | accounts, keytabs, builds | run by the test programs and by hand | a key is changed in the database before it is in the keytab |

What makes each part correct:

* the transport (KM1 and KM2): a client accepts only group keys made for it,
  under a session key generated for it, each once; nothing is duplicated or lost
  without a failure that explains it; a client that asks is served;
* the KDC: every request is answered whatever the GCKS does, with the error that
  occurred, and a key is forwarded whenever the GCKS is there;
* the Mikey objects: what authenticates at the client goes back to its own
  request, and what does not authenticate never becomes a key;
* the time log: a sample that is believed is the time that went by;
* the GCKS: requests are served in order and its service survives its clients;
* the test programs: the log holds the samples of the requests counted, in order,
  the statistics are those of the results kept, and a service is missing or
  stays only where a script left it out.

## Modules

| module | models |
|---|---|
| `GroupKeyTransport` | the abstract promise: session keys are issued, at most one group key (with `Reuse`: any number) is wrapped under each, only the key's owner accepts it, at most once |
| `Km2` | KM2: clients, KDC and GCKS, with their failures; its properties |
| `Km2Harness` | KM2 driven by the test programs' sequential loop |
| `Km1` | KM1: gcks1 and its clients, with their failures; its properties |
| `TgsReq` | the KDC's MIKEY part of `process_tgs_req` and `do_gcks_req`, call by call, over many requests |
| `MikeyRelay` | the two MIKEY messages of KM2, the objects that make and read them, and the GCKS's service key |
| `Timing` | clock readings, `diff`, the sum, the logged milliseconds, with the widths of the C types |
| `TestRun` | one iteration of test1.c to test4.c: requests, time log, rejected samples, caches |
| `Series` | the mains of test1.c to test4.c: series of iterations, running statistics, services |
| `Arithmetic` | the sum of a list and fractions in lowest terms, for `TestRun` and `Series` |
| `MCKm2`, `MCKm2Harness`, `MCKm1`, `MCTgsReq`, `MCMikeyRelay`, `MCTiming`, `MCTestRun`, `MCSeries` | instances for TLC |
| `Km2_proofs` (with the proofs about `Km2Harness`), `Km1_proofs`, `TgsReq_proofs`, `MikeyRelay_proofs`, `TestRun_proofs`, `Series_proofs`, `Timing_proofs` | proofs about the module of that name, and the inductive invariant they rest on |
| `Arithmetic_proofs` | induction over numbers, and what `Sum`, `Gcd` and `Frac` compute |

### `Km2`: state and actions

A `Client` is one sclient2 command line: principal, cache file, group.  It can
be run `MaxRun[c]` times and its cache (`ticket`) survives a run.  `HostOf` says
which clients share port 9999.

| variable | in the code |
|---|---|
| `pc`, `run` | position in `main` of sclient2.cxx, and which run it is |
| `ticket`, `creds` | service ticket in the cache file; `*creds` in memory (`NoKey`: uninitialised) |
| `inbox` | what the connections in the queue of the client's listening socket carry |
| `requests`, `kpc`, `kdc` | requests in the KDC's socket; where `process_tgs_req` is, and with which request and key |
| `backlog`, `gpc`, `gmsg`, `peer` | queue of the GCKS's socket; where gcks2's loop is; the message it delivers; the client its socket is connected to |
| `owner`, `made` | history: for whom the KDC generated each session key; each MIKEY message with a TGK of its own |
| `receipts`, `lost` | history: each message read with its verdict; keys whose message nobody will read |

Each action carries the name of the function it models, with a suffix for the
outcome.  `accept_recv` is one step from `accept` to `exit(0)`: nothing between
the two talks to another process.  `do_gcks_req` is one step (connect, send and
close need nobody's answer once the GCKS's queue has room).  A refused
`connect` in the GCKS's loop changes nothing, so it is a stuttering step, and
`send_mikey_message_connect` is the attempt that succeeds - with whatever
client of that host listens then.

Failures are named in `FaultKind` and switched on per instance:

| fault | in the code |
|---|---|
| `tgs_error` | any `goto cleanup` of `process_tgs_req`, before (krb5.patch:1008-1073) or after `do_gcks_req` (1095-1176) |
| `tgs_timeout` | libkrb5 gives up; `main` never looks at `retval` |
| `socket_error` | the KDC gets no socket for that call (1312-1316) |
| `connect_timeout` | the KDC's `connect` to a GCKS with a full queue times out |
| `kdc_exit` | `exit(1)` after a failed `setsockopt` in `do_gcks_req` (1327-1331) |
| `gcks_crash` | gcks2 dies; gcks2_run.sh starts it again |
| `client_dies` | a signal, or one of the `exit(1)` before `listen` |
| `no_reuse` | the uninitialised `void_ptr` given to SO_REUSEADDR is 0 |

Abstractions: a MIKEY message is the triple (client, session key, TGK), opaque
but to the holder of the key; the UDP retransmissions of libkrb5 and the KDC's
lookaside cache are external and appear as one request; the KDC's and the
GCKS's long-term keys agree (`MikeyRelay` drops that); group names are
not used by gcks2 and do not appear; what an uninitialised `creds` does is
reduced to "the message is read and does not authenticate".

### `Km2Harness`

`client_exec` of test_util.c waits in `system()`, so a client is started only
when no other runs, and test4.c (like test1.c to test3.c) starts it with a cache
that holds a TGT and no service ticket.  KDC and GCKS run on.

### `Km1`: state and actions

A `Client` is one sclient command line with its cache.  The ticket is for the
GCKS, not for a group, and a cached one is used again, so several TGKs travel
under one session key: `GroupKeyTransport` is instantiated with `Reuse`.

| variable | in the code |
|---|---|
| `pc`, `run`, `ticket` | position in `main` of sclient.cxx, which run it is, service ticket in the cache |
| `backlog`, `acc` | connections in the queue of gcks1's socket; the one it accepted |
| `wire` | what gcks1 wrote to each client: AP_REP or error, then the reply |
| `apReq` | the AP_REQ on the accepted connection |
| `gpc`, `reply` | where gcks1's loop is; what is in `repbuf` |
| `owner`, `made`, `arrivals`, `receipts`, `lost` | history, as in `Km2`; `arrivals` is the order of the connections |

`accept` to `net_write_data` are one round of the loop of gcks1.cxx.  A client that
fails before its AP_REQ, or whose AP_REQ is rejected, ends gcks1
(`recvauth_fails`), and one that is gone when gcks1 writes may end it
(`net_write_fails`); either closes every queued connection, and the clients find
out in `connection_lost`.  `gcks1_run` is somebody starting it again.  Faults:
`tgs_error` (no ticket: `creds` is written through uninitialised, so the run
ends or goes on with credentials nobody issued), `connect_timeout` (full queue),
`bad_ap_req` (clock, keytab, replay), `unparse_error`, `client_dies`,
`gcks_crash`.  The reply is two writes and two reads, length and data
(`net_write_length`, `net_write_data`, `net_read_length`, `net_read_data`);
`gcks_crash` may fall between them or leave a part of the data written, which
`net_read` returns like the whole (`Truncated`).  A `pc` of "off" is a run that
came to an `exit`, "killed" one that a signal ended.  Abstractions: a reply that
is cut anywhere is one message that authenticates for nobody; the group name in
the authenticator is printed by gcks1 and not used, and does not appear.

### `TgsReq`: state and actions

`Km2` has the KDC's work as one step per outcome.  Here each call is an action
of the name the code calls, and each may fail on its own (`Fault`).  `Checked`
is the pattern `if (errcode) { status = ...; goto cleanup; }`.

| variable | in the code |
|---|---|
| `pc`, `request`, `errcode` | position in `process_tgs_req` and `do_gcks_req`, request, `errcode != 0` |
| `fds` | descriptors open beyond those of an idle KDC (`FdLimit` more can be opened) |
| `master_keylist`, `mkvno` | newest master key in the KDC's list and in the database |
| `gcks_db_entry` | master key under which the GCKS's key, as read from the database, is stored |
| `gcks` | the GCKS listens |
| `reachable`, `forwarded`, `failed`, `refused`, `answer` | history |

Three things the code does are visible in the properties.  The result of
`krb5_encrypt_tkt_part` is overwritten before it is tested, so that failure
is not reported for a MIKEY request (`StatusNamesFailure`).  The socket of a
refused `connect` is not closed (krb5.patch:1362 is commented out), so after
`FdLimit` refused connects nothing is forwarded any more although the GCKS is
back, against what krb5.patch:1210-1213 says; `ForwardedWhileReachable` says that
this, and nothing else, keeps a key from a GCKS that is there.  And a GCKS
principal that is not in the database is no error: an uninitialised entry is
searched (`uninitialised_entry`).  When the lookup of the GCKS's name fails, the
KDC reads the pointer it should have set before it looks at the error
(krb5.patch:1011): it answers, or ends there (`krb5_unparse_name`).  The failures
after `do_gcks_req`, the encoding of the reply included, are `late_error`; only the
one in the s4u2self branch, which no MIKEY client takes, is left out.

### `MikeyRelay`: state and actions

`Km2` takes the message from KDC to GCKS as opaque and the service keys as equal.
Here a Mikey object is a record: configuration (pre-shared key, TGK, connection
string), state, number of senders, key agreement.  `New`, `addSender`,
`createKeyAgreement`, `initiatorCreate`, `responderAuthenticate`, `setMikeyOffer`,
`setStateByInt` and `call_Mikey_Construct` are operators from objects to objects,
named after the methods; `do_gcks_req`, `process_mikey_message`,
`send_mikey_message` and `accept_recv` call them in the code's order.

| variable | in the code |
|---|---|
| `kvno`, `keytab`, `gcks_key` | newest service key in the database; key in the keytab; key gcks2 read when it started |
| `asked`, `session` | requests so far; the one whose session key a client holds |
| `kdc`, `backlog`, `gcks`, `inbox` | the message being made, those in the GCKS's socket, `session_key` and `conn_info` in gcks2, those in the clients' sockets |
| `used`, `receipts` | history: service keys used for each request; what clients made of messages |

`ktadd` and `ktadd_writes` are keytab_create.sh run on the live system.  A key is
identified by where it was made.  A message under another key gives no TGK (or
a garbled one, which is nobody's key either), so the object keeps the one it
generated; its connection string, which is not encrypted, may be taken or not.
That gcks2 dereferences a null key when there was no keytab, or a null string
when `recv` returned a part of the message, is `process_mikey_message_crash`.

### `Timing`: state and actions

One behaviour is a sequence of measurements: `clock_gettime_start`,
`clock_gettime_end`, `log_time` (diff, sum, milliseconds), `judge` (the test
program's range).  `Wrap` is the conversion to a type of `period` values: the
tools are built without optimisation (kmtools/Makefile:12), where overflow wraps.
The widths and units are constants with the relations of the real ones
(`ScaleAssumption`), for a build whose `long` is wider than its `int`
(`LongAssumption`): with a `long` of 32 bits the borrowed `LONG_MAX` is 2.15 s, and
a run of about 3.2 s can be believed to be one of less than 100 ms.

### `TestRun`: state and actions

One behaviour is a sequence of calls of `test1()` .. `test4()`.  `plan` is the order
of the requests, the point in which the programs differ (test1 permutes each
client's groups, test3 each group's clients), `pos` the request at hand.
The plans are two nested loops, written as one over the rounds of the inner one.
`client_exec` and `client_exec_unlogged` are the client: it appends its time to
`log`, or ends without a line, which `system()` does not report as -1
(`client_exec_fails`).  `reject_sample` and `accept_sample` look at the log's last
line, whoever wrote it; `sum_log` adds it up.  A request whose client failed
without logging counts as completed on the last sample in the log: `Measured`
leaves it out, and `LogIsMeasured` says which line it stands on.  kdestroy and
kinit are taken to work when `system()` runs them.

### `Series`: state and actions

The mains: `create_services`, `next_param`, `pretest_run`, then `start_series` and
the loop of `run_test1` .. `run_test4` (`iterate`, `compare`, `update_stats`),
`log_data`, once for KSM1 and once for KSM2, and `merge_data`.  An iteration is
one step with any result of `Y`; `client_failed` is the `exit(1)` within it.
`create_service` and `delete_service` run a script for the groups 1 to count and
do not look at what `system()` returns: the script may do its work for any of
the groups, or for none (`done`), above all in `client_failed`, where `system()` has
just failed.  So services may be missing or stay; what the programs are right
about is that this is only where a script left one out
(`ServicesMatchRequests`).  A program that is killed deletes nothing.

| variable | in the code |
|---|---|
| `program`, `given` | the program; a number of clients on the command line |
| `phase`, `l`, `ksm`, `pre`, `j`, `n` | position in main and run_test |
| `services` | groups that have a principal and a keytab |
| `skipped` | history: groups the last script for them left out |
| `y`, `prev_y`, `rs` | as in the code; `rs.coeff` is the square of `coeff_variance` |
| `rows` | values of the parameter in the two result files |
| `kept` | history: results in the statistics |

The doubles are exact fractions, so rounding is abstracted.  Two things a reader
of the results should know, both stated by the properties: the variance leaves
out the spread of the first two results (`VarianceOfKept`), and a series that
ends at `max_k` logs `starting_k` as its number of results (`KCountsResults`).
`test_array` of test2 has one element, so its outer loop is one round.

## Runs

| run | shows | bounds |
|---|---|---|
| `km2_faults` | `TypeOK`, `AuthenticAcceptance`, `AcceptedOnce`, `EveryKeyAccountedFor`, `ServedInOrder` and the refinement of `GroupKeyTransport`, with every fault | 2 clients on one host, one of them run twice, GCKS queue 2, client queue 2 |
| `km2_hosts` | `EveryRequestAnswered`, and `AskingClientIsServed` unless another process's failure explains it | 3 clients on 3 hosts, 1 run, GCKS queue 1, clients die, the GCKS hangs and crashes |
| `km2_harness` | the test programs' loop serves every run and leaves nothing behind | 2 clients on one host, 3 runs each |
| `km1_faults` | `TypeOK`, `AuthenticAcceptance`, `EveryTgkAccountedFor`, `ServedInConnectOrder`, the refinement of `GroupKeyTransport` (`Reuse`) and `EveryRunEnds`, with every fault, a crash of gcks1 at any point included | 2 clients, one of them run twice, queue 2 |
| `km1_served` | `RunIsServed`: a run that finds gcks1 alive gets its TGK unless gcks1 holds a dead client's connection or has rejected one | 3 clients, one of them run twice, queue 1, `tgs_error` (the run dies or sends a request that is rejected) |
| `tgs_req` | `TypeOK`, `ForwardedWhileReachable`, `StatusNamesFailure`, `ToldThenLateErrors` | any number of requests, 3 descriptors, 2 changes of the master key, every call may fail |
| `mikey_relay` | `TypeOK`, `RejectionExplained`, `AuthenticEndToEnd`, `RejectedKeyIsPrivate`, `EveryOfferHasStreams` | 2 clients, 4 requests, 3 service keys, all faults |
| `timing` | `TypeOK`, `AcceptedIsElapsed`, `LostOnlyByBorrow` | 60 "ns" a second, 3 a "ms", int of 8 and long of 16 bits, runs of up to 9 seconds, clock set back by up to 2.2 seconds |
| `test_run` | `TypeOK`, `LogIsMeasured`, `RequestsInOrder`, `NeverRunCached` for the four programs | 2 clients, 3 groups, 2 of them assigned, samples -1, 0, 100, 101, two rejected per iteration |
| `series` | `TypeOK`, `MeanIsOfKept`, `VarianceOfKept`, `KCountsResults`, `ServicesMatchRequests` for the four programs | values 3, 1 of the parameter, results 0, 9, 10, 11, 20, at most 7 iterations, 3 before a series may end, scripts that do any part of their work |
| `km2_cached` (violation) | a client with a cached ticket is never called | 1 client, 2 runs |
| `km2_harness_dies` (violation) | one dead client spoils the runs after it | 2 clients |

The bounds suffice for the cases of interest: two clients of one host can swap
the port in every order, a queue of 1 fills with one request while another is
in the GCKS's hands and a third with the KDC, and two runs of a client let a
message of the first meet the second.  In KM1, two runs of one client let a
cached ticket, a restart of gcks1 and another client's failure fall between
the two, and the dead connection of a first run fill the queue while the second
waits in `connect`; three clients with a queue of 1 make one wait in `connect`,
one in the queue and one in gcks1's hands, each with a ticket that is new or, for
the one that runs twice, cached.  In `TgsReq` three descriptors let the table fill
through refused connects between good ones, and two master keys let the list be
stale twice.  In `MikeyRelay` three service keys make the keys of database,
keytab and gcks2 all differ, and four requests let a client ask again while
messages of its earlier requests are on their way.  The scale of `Timing` keeps
the code's ratios that matter: the third second overflows the product, the
period of int is a little more than four seconds, and the believed range is a
tenth of a second.  In `TestRun` a rejected sample is followed by one that is
rejected, failed or good.  In `Series` discarded results lie between kept ones,
and a series that is steady, one that is discarded from and one that runs to
the end follow one another.  `CHECK_DEADLOCK FALSE` is set where the system
stops: when nobody starts a client any more, or a program has ended.

The violations are disagreements between the code and its own comments; they
are quoted in `PROJECT.json`.  (One more, the comment of gcks2.cxx:234-236 that the
connect loop should count its retries, shows in `AskingClientIsServed`, where the
death of a client the GCKS keeps calling excuses the others.)

### Fairness

`Progress` gives weak fairness to each process's next step when it is not
blocked in a system call: the scheduler runs every process, and each of these
steps stays enabled until it is taken.  `connect` in the GCKS's loop is tried
every 500 microseconds for ever, so a client that goes on listening is found.
In `Km1` weak fairness is on the whole next step of a client's run and of gcks1's
loop; a `connect` that waits for room in the queue is retried by the kernel, and
as every client has finitely many runs nobody is overtaken for ever.
There is no fairness for starting clients, for refreshing caches, for failures
or for the client's own timeout.

## Proofs

All theorems hold for every value of the constants that the modules' assumptions
allow: every set of clients, hosts and failures, every length of a queue, every
number of runs, requests, descriptors, groups and iterations.

| module | theorem | states |
|---|---|---|
| `Km2_proofs` | `TypeCorrect`, `NoForeignGroupKey`, `NothingDuplicatedOrVanished`, `GroupKeyAcceptedOnce`, `ServiceInOrder` | `TypeOK`, `AuthenticAcceptance`, `EveryKeyAccountedFor`, `AcceptedOnce`, `ServedInOrder` |
| | `KeyTransportImplemented` | `ImplementsTransport` |
| | `ListenerServed`, `ReadsAuthenticate`, `CleanAfterRun` | `ListenerIsServed`, `EveryReadAuthenticates`, `NothingLeftBehind`, all under `NothingFails` |
| `Km1_proofs` | `TypeCorrect`, `AcceptedIsOwn`, `NothingDuplicatedOrVanished`, `ServiceInOrder` | `TypeOK`, `AuthenticAcceptance`, `EveryTgkAccountedFor`, `ServedInConnectOrder` |
| | `KeyTransportImplemented` | `ImplementsTransport` |
| `TgsReq_proofs` | `TypeCorrect`, `ForwardedUntilFull`, `FirstFailureNamed`, `ToldBeforeReply` | `TypeOK`, `ForwardedWhileReachable`, `StatusNamesFailure`, `ToldThenLateErrors` |
| `MikeyRelay_proofs` | `TypeCorrect`, `RejectionHasACause`, `AcceptedEndToEnd`, `RejectedIsNotTaken`, `StreamsOffered` | `TypeOK`, `RejectionExplained`, `AuthenticEndToEnd`, `RejectedKeyIsPrivate`, `EveryOfferHasStreams` |
| `TestRun_proofs` | `TypeCorrect`, `LogHoldsSamples`, `PlanWorkedOff`, `NobodyHangs` | `TypeOK`, `LogIsMeasured`, `RequestsInOrder`, `NeverRunCached` |
| `Series_proofs` | `TypeCorrect`, `MeanRight`, `VarianceRight`, `ServicesExplained`, `ResultsLogged` | `TypeOK`, `MeanIsOfKept`, `VarianceOfKept`, `ServicesMatchRequests`, `KCountsResults` |
| `Timing_proofs` | `TypeCorrect`, `BelievedIsElapsed`, `LostAtSecondOnly` | `TypeOK`, `AcceptedIsElapsed`, `LostOnlyByBorrow` |

Every module also proves that its inductive invariant (`IInv`, `HInv` for the
harness) holds; each of them was checked by TLC on the instance of its run before
it was proved.

### The inductive invariants and why they are needed

**`Km2`.**  `AuthenticAcceptance` speaks only of messages already read, so it is not
inductive: that the verdict of the next read is right depends on what is in the
client's socket, which depends on what the GCKS holds, and that on what the KDC
sent.  `Ownership` says of each of these places that what is there under a key
belongs to the client the key was generated for (`TicketsOwned`, `JobsOwned`,
`MadeOwned`, `MessagesMade`, `VerdictsRight`).  Two lemmas carry the argument:
the owner of a session key never changes (`IssuedStays`), and a message once
made stays as it was made (`MadeStays`), because `owner` and `made` only grow
(`OwnerGrows`, `MadeGrows`).
`AcceptedOnce` needs to know where the keys are.  `EveryKeyAccountedFor` says that a
key is in one of the six places, but not that it is there once: the GCKS's queue
or a socket could hold it twice, and it would be read twice.  `OnceInPlace` adds
that, and `MadeHasLeft` that no key with a TGK is still in the queue, so
that none gets a second one.  `ServedInOrder` follows from an invariant of its own:
the keys in the GCKS's hands increase along `Pipeline`, and what has arrived is
smaller.

**Refinement.**  Each action of `Km2` and `Km1` is mapped to a step of
`GroupKeyTransport` or to a stutter: a new `owner` is
`IssueSessionKey`, a new `made` is `WrapGroupKey`, a verdict that is right is
`AcceptGroupKey`, and everything else leaves the abstract state alone.  The guards of the abstract steps (the key is issued, has no group
key yet, its message was not accepted before) are what the invariants say.

**`Km2Harness`.**  `HInv` names the stages through which the one client that runs
takes the KDC and the GCKS.  `NothingFails` admits one fault, `connect_timeout`:
with one client at a time the GCKS's queue is never full.

**`Km1`.**  A client reads what gcks1 wrote in parts, and either may end in between.
`StreamsFollow` and `EndsAgree` say what is on the connection given where its two
ends are, `KeysOwned` and `MessagesInPlace` whose keys the messages are under,
`ConnectsOnce` and `ConnectionsInOrder` that gcks1 has served, serves and will serve
the connections in their order.

**`TgsReq`.**  The open descriptors are those of refused connects, and one for the
call under way (`TypeOK`); what `failed`, `errcode` and `forwarded` are is fixed by
the place in the code (`FailureKnown`, `ToldOnce`).

**`MikeyRelay`.**  What a Mikey object contains is a function of the request it was
made for and of the two service keys used for it (`KdcMsg`, `GcksMsg`, `Verdict`); the
invariant says that everything under way is that.

**`TestRun`.**  While a sample is judged the log has a line more than it should, or
not, and the program cannot tell; `LogSettled` keeps the two cases apart.  In the
second the last line is of an older request, and in the range, so it is never
deleted.  `NeverRunCached` needs that a plan names no request twice
(`PlansGood`: two nested loops, and permutations) and that tickets are for
requests already made.

`Bounded` bounds the rejected samples: one that is about to be rejected is a
client's, which the bound admitted, or the log is empty.

**`Series`.**  `ServicesKnown` says, for each phase, which groups have a service or
were left out by the last script for them (`CreateScript` and `DeleteScript` are
what one script does to that), and
`Position` that there is a value of the parameter where one is used.
`StatsOf(rs, kept)` is what the statistics are: proper fractions, the mean that of
`kept`, the variance as `VarianceOfKept` has it.  A round keeps it, whichever way it
goes: the old values come back, or `StatsUpdate` applies.  The latter is algebra
on the two recurrences, in lemmas about integers (`MeanAlgebra`, `DeviationAlgebra`,
`SquaresAlgebra`, `VarianceAlgebra`).  `DeviationAlgebra` also shows why the variance
never becomes negative: y minus the new mean and y minus the old one are
multiples of the same difference.  `FirstTwoKept` is needed because the variance is
left alone in the first two iterations: neither of their results may be
discarded, which the guard `j > starting_k` alone would not say if `starting_k` is 1.

**`Arithmetic`.**  That the statistics are those of all the results kept is an
induction over a list, and that a fraction can be reduced one over Euclid's
algorithm.  The library's induction rules have a predicate as a parameter and
cannot be used; `Induction` and `InductionUpTo` have a set in its place, and follow
from `WFMin` and from `NatLessThanWellFounded`.  A recursive function
`f[x \in D] == e` is an f chosen to satisfy its equation; by induction on the size of
its domain there is one (`TotalExists`, `EuclidExists`), and what it computes is proved
from the equation (`SumAppend`, `SumOfNaturals`, `GcdDivides`, `FracValue`).

**`Timing`.**  Every conversion subtracts a multiple of its period (`WrapFacts`).
Without a borrow the sum differs from the elapsed time by a multiple of the
period of int, and within one period and in the range that multiple is 0.  With
a borrow the sum is never in the range (`Measurement`).  The proofs know no bound
of a run or of what the clock is set by.

### Assumptions

Those the modules declare.  `NoneAssumption` says that the value `NONE` is none of
the records it stands in for.  `LongAssumption` is that of `Timing` above.  The
theorems about the harness have the hypothesis `NothingFails`; its run has `Fault`
empty.

### What is only model-checked

* Liveness (`EveryRequestAnswered`, `AskingClientIsServed`, `EveryRunCompletes`,
  `EveryRunEnds`, `RunIsServed`): the provers have neither fairness nor
  ENABLED.

Every invariant of a passing run and both refinements are theorems.  `MaxReject` is a bound of the model and not in the code; `TypeCorrect` of
`TestRun` says that it is kept.

## Plan

1. (done) KM2, its abstract specification, the test programs' use of it, type
   correctness and ownership proved.
2. (done) `Km1`: the KM1 server and clients against the same
   `GroupKeyTransport`; the server's death as a cascade; replies cut short.
3. (done) `TestRun` and `Series`: the test programs from the single request to
   the row in the result file.
4. (done) `TgsReq`: the KDC's part call by call.
5. (done) `MikeyRelay`: the Mikey objects and the service key.
6. (done) `Timing`: the measurements with their widths.
7. (done) Proofs: ownership, accounts, order and the refinement of KM2 and KM1;
   the harness; `TgsReq`, `MikeyRelay`, `Timing`, `TestRun` and `Series`, the statistics
   and their arithmetic included.

What could follow: shorter proofs where lemmas of `Km2_proofs` and `Km1_proofs` say
the same of two actions.

## Not modelled

The build files have no behaviour of their own; of the account scripts those
that wrap one `kadmin` or `kinit` command are not modelled.  Most of
`minisip.patch` is regenerated build output; of the rest, `main.c`'s self-test and
the encoding of payloads are left out.  The connection string is a value: its
printing in the KDC (`"%s|%s|%d|%s|"`) and its parsing with `strtok` in gcks2, where
only the address matters, are not spelled out.  Memory layout (buffer sizes, the
missing NUL of `strncpy`) and memory leaks are outside the models.  The do-while
of `run_test1` .. `run_test4` may repeat for ever; whether it does depends on
the measured times alone, about which nothing can be assumed.  Rounding of
doubles is not modelled.
