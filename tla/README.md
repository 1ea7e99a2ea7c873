# openHiTLS: a TLA+ model of its protocol state

openHiTLS is a cryptographic library with a TLS, DTLS and TLCP protocol stack.
This project models the parts of it that keep state from one call to the next
and whose correctness depends on the order of calls, messages and failures:

* the **connection** (`Conn`): the API calls, the alerts, application data and the
  output buffer they share;
* the **record layer**: reading datagrams (`DtlsRecordRead`) and writing records
  through the buffer of flight mode (`RecordWrite`);
* the **handshakes**: TLS 1.3 between two ends (`Tls13`), DTLS 1.2 with
  retransmission (`DtlsFlight`) and its reassembly queue (`HsReass`);
* the **session cache** that connections share (`SessionMgr`);
* **certificate chains** (`X509Verify`);
* the **random bit generators** (`Drbg`) and the **stateful signatures** (`Hss`).

All of them are model-checked; `Conn`, `DtlsRecordRead`, `RecordWrite`, `HsReass`,
`SessionMgr`, `X509Verify`, `Drbg` and `Hss` also have machine-checked proofs of their
safety properties for every value of their constants (section 5).

## 1. Inventory

| Component | State | Operations | Interaction |
|---|---|---|---|
| `tls/cm` connection management | `state`, `preState`, `shutdownState`, `userShutDown`, `userRenego`, `phaState` | `HITLS_Connect/Accept/Read/Write/Close/KeyUpdate/Renegotiate/VerifyClientPostHandshake/Flush/Clear` | dispatches on `state`; runs the loops that call the handshake, `APP_Read`, `APP_Write` and the alert functions |
| `tls/alert` | one pending alert (`flag`, `level`, `description`, `isFlush`) and `warnCount` | `ALERT_Send`, `ALERT_Flush`, `ALERT_CleanInfo`, `ProcessDecryptedAlert` | callback of the record layer; raised by everyone; sent by `tls/cm` |
| `tls/app` | `pendingData` (in `recCtx`) | `APP_Read`, `APP_Write` | uses `REC_Read`, `REC_Write` |
| `tls/record`, writing | `outBuf`, write states, sequence numbers | `REC_Write`, `REC_OutBufFlush` | one buffer for alerts, handshake and data |
| `tls/record`, reading | `readEpoch`, window, caches of early records, lists of decrypted records | `REC_Read` (`DtlsRecordRead`, `TlsRecordRead`) | hands other record types to callbacks |
| `tls/ccs` | four flags | `CCS_Ctrl`, `ProcessPlainCCS`, `CCS_Send` | activates the read keys |
| `tls/handshake` | `hsCtx->state`, transcript, keys, timers, retransmission list, reassembly queue | `HS_DoHandshake` and one function per message | called in the loops of `tls/cm` |
| `tls/feature/session` | session objects with reference counts, the cache of a configuration | lookup, insert, remove, clean up, disable | called by the handshakes of many connections, in threads of their own |
| `tls/config`, `tls/cert`, `tls/crypt` | configuration, certificate stores | setters, adapters | read by the others |
| `bsl` | UIO (with the buffer of flight mode), lists, hash tables, error stack, locks, reference counts | library functions | used everywhere |
| `crypto/drbg`, `crypto/eal` (random) | state V, reseed counter, fork id; seed DRBG shared by reference count | instantiate, reseed, generate, restart | draws from the entropy pool; survives `fork` |
| `crypto/hbs` | a counter of one-time keys, parameters, cached trees | generate, sign, export, import, setters | none; a reused leaf is fatal to the key |
| `crypto`, the rest | algorithm contexts, entropy pool, providers | `CRYPT_EAL_*` | used by `tls/crypt`, `pki`, `auth` |
| `pki` | stores, certificates, CRLs | chain building and verification, CMS, PKCS#12 | used by `tls/cert` |
| `auth`, `codecs`, `apps` | protocol contexts; none; none | OTP, SPAKE2+, Privacy Pass; format decoders; command line | on top of the above |

What is hard: the transport is non-blocking, so every function that writes can
stop half way and is *repeated by its caller*, possibly with other calls in
between. All writers share one output buffer and one pending alert. Datagrams
are lost, repeated and reordered across a change of keys. A handler may be
suspended by a callback and entered again. The code runs one connection in one
thread, so there is no shared-memory concurrency inside a connection; connections
share the session cache under its lock, and generators are copied by `fork`.
Nothing is persisted by the library, so there are no crash-recovery hazards
(a private key of `Hss` that the application exports and imports again is modelled).
`PROJECT.json` lists the hazards at the lines where they bite.

What makes each part correct:

* DTLS reading: at most once, authentic only, the right epoch, no data before
  Finished, and no fresh record mistaken for a replay.
* Connection: close_notify is the last thing sent; nothing after a fatal alert;
  a fatal alert is sent; a write is sent once; closing ends.
* Record writing: no byte is lost, repeated or overtaken, a reported success is a
  sent record, no sequence number is used twice.
* Handshakes: two honest ends agree on keys and transcripts and do not fail each
  other, nobody is left waiting, a required client certificate is there, the key
  exchange is not downgraded; over datagrams the handshake ends in spite of losses.
* Reassembly: whole messages, in order, in bounded memory.
* Sessions: references balance; what is disabled, expired or removed is not resumed.
* Chains: what is accepted is a chain of trust, what is refused has none, and the
  search ends.
* Generators: no output twice, no stale seed. Signatures: no leaf twice, and every
  signature verifies.

## 2. Modules

| Module | Models |
|---|---|
| `AntiReplay` | the sliding window of `rec_anti_replay.c`; the 64-bit word is the set of its one-bits |
| `ReplaySpec` | abstract: what a DTLS reader promises |
| `DtlsRecordRead` | `rec_read.c` (UDP path), `rec_unprocessed_msg.c`, key activation in `record.c`, the receiving half of `change_cipher_spec.c`, and a peer that writes and retransmits |
| `DtlsRecordReadProofs` | theorems about `DtlsRecordRead` |
| `Conn` | `tls/cm`, `tls/alert`, `tls/app`, and `rec_write.c` for streams |
| `ConnProofs` | theorems about `Conn` |
| `RecordWrite` | `rec_write.c`, `app.c` and `bsl/uio/src/uio_buffer.c`: the bytes of records on their way to a stream or to datagrams |
| `RecordWriteProofs` | theorems about `RecordWrite` |
| `Tls13` | the TLS 1.3 handlers of `tls/handshake` (`send`, `recv`, `sm`, `common/src/tls13key.c`) at both ends of a connection |
| `DtlsFlight` | the DTLS 1.2 handshake at both ends: flights, `rec_retransmit.c`, timers, CCS, cookies |
| `HsReass` | `tls/handshake/reass` and its use in `hs_state_recv.c`, down to the bits of the bitmap |
| `HsReassProofs` | theorems about `HsReass` |
| `SessionMgr` | `tls/feature/session` and its users in handshake and connection |
| `SessionMgrProofs` | theorems about `SessionMgr` |
| `X509Verify` | `pki/x509_verify/src/hitls_x509_verify.c`, `HITLS_X509_CheckIssued`, and the adapter in `tls/cert` |
| `X509VerifyProofs` | theorems about `X509Verify` |
| `DrbgCtx`, `DrbgCore` | a generator of `crypto/drbg`; its operations, for any source of entropy |
| `Drbg` | the contexts of `crypto/eal/src/eal_rand.c` in processes that fork; composes `DrbgCore` twice, as the seed DRBG and as the user's context |
| `DrbgProofs` | theorems about `Drbg` |
| `Hss` | `crypto/hbs/hss` and the tree cache of `crypto/hbs/lms` |
| `HssProofs` | theorems about `Hss` |
| `MC...` | the configurations, messages, certificates or bounds that the runs give to the module of that name |

An operator whose comment starts with "Mutant" is a variant, with a plausible
slip, of the operator that follows it; nothing uses it, and `PROJECT.json` names
the property that detects it.

### AntiReplay and DtlsRecordRead

`net` holds every record the peer has written. Delivery never removes a record,
so loss, duplication and reordering are all choices of `r` in `ReadFromNet`.
`Junk` is what fails the integrity check. The actions are the calls: `HS_Init`,
`REC_InitPendingState`, `CcsRecvReady`, `CcsRecvActiveCipherSpec` and
`CcsRecvExitReady` (the three commands of `CCS_Ctrl`), `HS_DeInit`, and one call
of `DtlsRecordRead(ctx, recordType)`, split by where the record comes from: the
list of decrypted records (`ReadBufList`), a cache (`ReadCached`), or the
network (`ReadFromNet`). `ProcessRecord` is the rest of the function: window check,
decryption, window update, dispatch; the callback for a ChangeCipherSpec is part
of the same step.

Abstractions: decryption is a verdict (`auth`, and the epoch's keys); a record in
epoch 0 is unprotected and so always counts as the peer's; message contents are
left out, and a handshake record read after the keys are active stands for the
peer's Finished. The peer needs this endpoint to go on with a handshake, so it is
at most one epoch ahead (`PeerSendsCcs`). `times` and `finished` are history
variables; the code does not read them, except that `finished > 0` tells a
renegotiation from a first handshake when application data arrives. The
anti-replay feature and UDP are assumed to be compiled in; SCTP is not modelled.

### Conn

`ctx` is the `HITLS_Ctx`, a record with the code's field names, and `call` the API
call in progress. Each C function that changes the context is an operator from
context to context or to `[ctx, ret]`, and what the transport answers is an
argument. A call runs in several steps, one per iteration of the loops that
handle one message: `call.at` is the loop. The peer may send any message at any
time. The handshake is reduced to sends and receives in any order, which
includes every order the real state machine allows. `ctx.log` is history.

`writeErrors` of a configuration adds failures before a record is built
(encryption, memory, sequence number limit). `MayClear` adds `HITLS_Clear`. Not
modelled in `Conn`: datagrams, flight mode, `HITLS_MODE_AUTO_RETRY` switched off, `HITLS_Peek`,
`HITLS_SetShutdownState`, early data, sessions, failures of `CONN_Init`, record
sizes and partial writes (a record is taken whole or not at all, since a partly
sent record stays in the buffer exactly like an unsent one).

### RecordWrite

The bytes that `Conn` leaves out. `built` is the history of records; a byte is
`<<n, i>>`, the i-th of the n-th record, and `wire` is what the transport took, piece
by piece. A step is one write to the transport, which takes any part of what it is
given from a stream and all or nothing of a datagram. `HsInit` and `HsDone`
(or `DtlsDeInit`) put the buffer UIO before the transport and take it away;
`BufferCache`, `BufferMakeRoom` and `BufferDirect` are the three parts of
`BufferWrite`, `BufferFlush` the flush, and `call.pc` says where a call that met a
busy transport returned from. A record is encrypted or not at all; lengths are
those of whole records. Calls come in any order: a handshake message (`HsSend`, which
may be a KeyUpdate), a flush (`OutBufFlush`) or a write of data finds in `outBuf` what an
earlier call left there and, over a stream, sends that in place of its own. `disturbed` is
the history of the pieces of data that were written while this happened, or whose record
`ChangeBufferSize` dropped; `SuccessMeansSent` and `DataOnce` are about the others.

### Tls13

Both ends are `ends[p]`, with the fields of `HITLS_Ctx` and `HS_Ctx` that matter;
`chan` holds the records not yet read, each with the key it was sealed under. A step
is one handler: one message sent (with the CCS and the change of keys that belong
to it), or one record read and processed. Secrets are names, so two ends agree on
a key exactly when they have computed it from the same transcript. Certificate
and PSK callbacks may suspend a handler (`suspend`), and the transport may not take
a message (`busy`); the handler is then entered again in the sub-state it saved.
After the handshake both applications send data and call `HITLS_KeyUpdate` and
`HITLS_VerifyClientPostHandshake` in any order. The binder of a PSK is a name for the
transcript before the ClientHello, which after a HelloRetryRequest holds the first hello; the
server compares it (`BinderWrong`). `retryLost` is the history of finding 10: the handler of the
ClientHello was suspended when a HelloRetryRequest was due. Not modelled: early data, external
failures, renegotiation (not in TLS 1.3), several PSKs in one hello.

### DtlsFlight and HsReass

`DtlsFlight` has two ends and a network `net` that loses and reorders; a record is
there in up to `MaxCopies` copies. A step reads one record and does all the state
machine does until it reads again. `ServerHello` stands for all messages up to
`ServerHelloDone`, `ClientKeyExchange` for the client's certificate messages too. A
timeout may race an answer (`MaxSpurious`) and a retransmission may fail after any
number of messages. The 2MSL state, the retransmission of the last flight by an
established end, the hello verify request with its reset of numbers and
transcripts, resumption and tickets are there. `HsReass` looks at the queue
alone, with real lengths, offsets and bitmaps, through a handshake, the established
connection (`mode = "unexpected"`, where `IsUnexpectedHandshaking` is true and the number of a message
is not compared with `expectRecvSeq`) and the renegotiation that a message or the application
begins, each with a handshake context of its own. A fragment that is read there and is
not a whole message goes into the queue of its context, and is only handed over if its number is the
expected one.

### SessionMgr

A step is the work between two acquisitions of a lock. Sessions are objects with
a reference count; the cache is a function from ids. Servers look up, check, resume
or create, store and clean up; clients check, drop and resume the session they are
given; the application duplicates, keeps, hands back and removes sessions, sets the
cache mode and size, and supplies sessions of its own (`external`). `off`, `old` and
`left` are histories: which sessions were disabled or expired when a handshake
began, and which have left the cache. In the cache mode `timeUpdate` a session that is
resumed or stored becomes young again, and is then not `old` for anyone (`Renew`).

### X509Verify

A world gives every certificate and CRL its fields; the store, its flags, the depth
and the errors that the application's callback accepts are set by calls. A
verification is a loop of steps in the order of the code: building the chain (for each
issuer the store, then the files of the CA path, then the peer's list), security bits,
extensions, usages, CRLs, signatures and validity, host name. Every refusal asks the
callback first, that of extensions below version 3 too, but for the key usages that do not fit
an ML-DSA, SLH-DSA or ML-KEM key (`usageFitsKey`) and for an end of the chain that is not found. `MaxDepth` is `HITLS_X509_MAX_DEPTH`, which the depth that is set
cannot exceed, and `MaxFindNum` the number of rounds in which `X509_BuildChain` gives up. `Defects`
states the reference: what is wrong with a path, whatever the order in which it is
looked at; `Sound` and `Complete` compare what is accepted and what is refused with it.

### Drbg and Hss

`Drbg`: V is the entropy a generator was last seeded with and the blocks made since,
so equal V means equal output; `fork` copies a process with all its generators and
locks. `DrbgCore` is parameterised by its source of entropy: the seed DRBG draws
from the pool, a context from the seed DRBG or the application's source. A seeding serves
`SeedLife` blocks: the interval, or 1 if `DRBG_SetReseedInterval` was given 0.

`Hss`: a tree is named by the path of indices along which its seed is derived and a
root by the tree and the parameters it is built with, so a signature verifies
exactly when the trees that sign are those that were signed. `Remaining` is the loop of
`HssTree_CalculateIndices`, what is left of the counter at each level, and `Total` that of
`HssGetMaxSignatures`. The counter of the private key has the width of its field
(`CounterBits`, 64 in the code) and `Advance` wraps in it; that it never does is part of
`CounterMonotone`. `spent` is the history of what each leaf signed. `Setters` says when
the caller uses the setters of parameters: before the levels are initialised (`unset`),
as long as there is no key (`noKey`), or at any time (`always`).

## 3. Runs

| Run | Checks | Shows |
|---|---|---|
| `dtls_read` | `NoReplay`, `FreshNotRejected`, `OnlyAuthentic`, `EpochNotAhead`, `AppAfterFinished`, `ImplementsPromise` | two handshakes with data; all four record types; loss, duplication, reordering, retransmission, corruption. Every step is a step of `ReplaySpec`, and the CCS of one handshake never counts for the next |
| `conn` | `CloseIsLast`, `FatalIsFinal`, `FatalIsSent`, `WriteOnce` | sixteen configurations, every order of calls, blocking and failing writes, reuse of the handle; no deadlock |
| `conn_close` | `CloseCompletes` (liveness) | repeated `HITLS_Close` ends, where no handshake message can follow the handshake |
| `write` | `WireIntact`, `SuccessMeansSent`, `SeqOnce`, `DataOnce` | streams and datagrams, with and without flight mode, handshake messages, flushes and data in any order, up to the last sequence number |
| `tls13` | `NeverFails`, `EndsAgree`, `NoDowngrade`, `ClientAuthenticated`, `KeysAdvance`, `NotStuck` | every kind of handshake, suspended callbacks, busy writes, and crossing KeyUpdates, tickets and authentications after the handshake; what follows from a lost HelloRetryRequest (finding 10) is the stated exception |
| `flight` | `NoFatal`, `WriteStateRestored`, `LastFlightFirst` | all kinds of handshakes of two honest ends over a bad network, writes that fail half way, an expiring 2MSL timer |
| `flight_live` | `Connects` (liveness) | with fewer losses than retransmissions the handshake is completed |
| `reass` | `WholeMessages`, `InOrder`, `QueueBounded` | overlapping, repeated, early, late and contradictory fragments at a server that awaits a cookie, on its established connection and in renegotiations |
| `session` | `References`, `ResumesUsable`, `RemovedStaysRemoved` | connections that share the cache; a client whose application keeps sessions; the application's own cache; tickets and changing modes. No deadlock |
| `x509` | `Sound`, `Complete`, `Terminates` | chains with one defect anywhere, CRLs in any order, issuers from the CA path, circles, two verifications on one store |
| `drbg` | `NoRepeatedOutput`, `SeedNotStale`, `SeedHeld` | forks, failing entropy, contexts that share the seed DRBG |
| `hss` | `OneTimeUse`, `SignatureVerifies`, `CounterMonotone` | up to three levels, failures at any level, export, import, duplicates and new keys, parameters set once (`Setters = "unset"`). No deadlock |

**Bounds and why they are enough.**

* `dtls_read`: the window has 2 bits instead of 64 and sequence numbers run to 2, so
  a record can be inside, at the edge of and outside the window, and a jump can equal
  or exceed its size; the proofs cover every size. Two epochs are two handshakes.
  `MaxRecords` (5) limits the peer's records; `AppMsgCountMax` is 1 instead of 50 so
  that the list overflows.
* `conn`: the only counter is `warnCount`; `MaxAlertCount` is 3, and 2 in
  `conn_close`, instead of 5: a connection that ends after fewer warnings has the
  same branches. Everything else is finite by itself.
* `write`: the buffer holds 3 bytes instead of 4096, records have 1, 2 or 4, so one fits
  with room left, one leaves a rest, one never fits. `maxSeq` 2 makes numbers run out.
  Each link bounds the records (3 or 4), the handshakes and the busy transports.
  3,646,033 states.
* `tls13`: bounds are part of the mode: one busy write in each of the handshakes, two
  suspensions (also when a HelloRetryRequest is due), two KeyUpdates and two
  authentications after the handshake, which is enough for two of each kind to cross.
  701,465 states.
* `flight`: one loss, one timeout that was not needed, and `MaxTimeoutNum` 3 (12 in
  the code), so that retransmissions run out; in `flight_live` 5, so that they do not.
  A record is held twice (`flight`) or once (`flight_live`).
* `reass`: messages of 21 and 24 bytes have three bytes of bitmap, the last of them
  partly or wholly used; cuts at 0, 3, 9, 16, 21 and 24 give fragments inside one
  byte, across two, ending on a boundary, and short and long ones, which the code
  treats with different loops. `MAX_NUM_EXCEED_EXPECT` is 1 instead of 10. Four messages
  (`MaxDelivered`) are a handshake and what follows it. 73,785 states.
* `session`: two servers and a cache of one entry force an eviction while a lookup
  is under way; three objects and two ids let a session outlive its place. Time runs
  to 2 with lifetime 1, and in one setting resumption renews it.
* `x509`: four certificates and two CRLs; every single defect at every certificate,
  extensions below version 3 and key usages that do not fit the key among them, two
  CRLs of one issuer, a circle (one that leads back to the peer's own certificate
  too), a root signed with a former key, a chain too long for a path
  length and for the depth. `MaxDepth` is 5 instead of 20, `MaxFindNum` 6 instead of 100.
* `drbg`: 2-bit counters with intervals from 0 to their limit; two forks make three
  generations of processes; two contexts share one seed DRBG.
* `hss`: trees of two and four leaves, 4-bit counter, so that three levels overflow it
  and keys run out; one failed signature; one key of three levels or two keys of two.

Deadlock is not checked where a model may stop because a bound is used up or the
protocol is over (`dtls_read`, `write`, `tls13`, `flight`, `flight_live`, `reass`,
`x509`, `drbg`); for `tls13` the invariant `NotStuck` says what a deadlock check
would: both ends idle means that all is complete.

**Symmetry** is used where elements are interchangeable and no liveness is checked:
processes and contexts of `drbg`, sessions, ids and servers of `session`.

**Fairness.** `CloseCompletes`: a call that has begun goes on (weak fairness on the steps
inside a call: the code is a loop without waiting); a user who has called
`HITLS_Close` calls it again (strong fairness on that call: the documented reaction
to `HITLS_REC_NORMAL_IO_BUSY`); the transport is not blocked for ever when it is
asked to send a close_notify (strong fairness on `CloseStep` with an unblocked
transport); nothing is assumed of the peer. `Connects`: weak fairness on `Progress`,
that is, a record that is not among the `MaxLoss` lost ones arrives and both
applications keep calling, which reads and looks at the timer; timeouts that are
not needed and losses are not fair.

## 4. Findings

Where the code and a statement about it disagree. None of them is in the runs, which
check what holds; each can be reproduced by a cfg with the constants named, and TLC
gives the trace within minutes. The properties named here are defined in their modules.

Connections (`MCConn`; `Configs` one client or server, `MaxAlertCount = 5`):

1. `conn_common.c:156`, `ClosingStillReads`: `preState` is compared after
   `ChangeConnState` has overwritten it, so a close_notify that had to be retried
   also sets `HITLS_RECEIVED_SHUTDOWN`. The comment two lines above says "If the
   previous state of alerting is not transporting, the link should be directly
   closed".
2. `conn_establish.c:170`, `SentMeansSent`: when the close_notify of a handshaking
   connection cannot be sent, the next `HITLS_Close` sets `HITLS_SENT_SHUTDOWN` all
   the same; `hitls.h:291`: "When the local end sends a closed notify message, the
   HiTLS sets the HITLS_SENT_SHUTDOWN flag bit."
3. `rec_write.c:352`, `WrittenOnce` (TLS 1.2 client): flushing the buffer on behalf
   of an alert forgets that the data of a blocked `HITLS_Write` was in it; the
   repeated call sends the data twice. `hitls.h:221`: "into a single record". In `RecordWrite`
   this is a record that `OutBufFlush` sends, and the exception `disturbed` of `DataOnce`.
4. `rec_write.c:412`, `ReportedMeansWritten` (TLS 1.3): a KeyUpdate written while an
   application record waits in the buffer is replaced by that record and reported as
   written, and the key is changed. `hs_state_send.c:52`: "After the key update message
   is sent, the local application traffic key is updated and activated." The repeated
   `HITLS_Write` does not find its record in the buffer any more and builds the data again, so
   that it is sent twice (`DataInOneRecord` with `HsSend` between the attempts).
5. `conn_create.c:226`, `PhaWasOffered` (TLS 1.3 server, `MayClear = TRUE`): `HITLS_Clear`
   keeps `phaState`; `hitls.h:56`: "Reset the TLS handle to allow it to be used for
   another connection."
6. `alert.c:117`, `CloseCompletes` under `FairSpec` with a TLS 1.3 client: after 4,
   `pendingData` stays set with an empty buffer, and no close_notify is ever sent.

Record writing (`MCRecordWrite`):

7. `app.c:131`, `DataInOneRecord` (a link with `flight = TRUE`, `maxSeq = 10`): in flight
   mode a write whose record is in the buffer when the flush meets a busy transport
   is built again when it is repeated.
8. `rec_write.c:365`, `NoHalfRecord` (a stream with `maxSeq = 1`): `isWrapped` is set before
   the transport took the record, so the repeated write of the last record fails
   half way; `hitls.h:231`: "You can continue sending the I/O."

Handshakes:

9. `hs_state_recv.c:489`, `Connects` with `Fragments = 2` and modes with a cookie: a part
   of the first client hello that comes again takes the server back to number 0, and
   it waits for parts that never come. `hs_state_recv.c:484`: "dealt with same as
   receiving it for the first time."
10. `recv_client_hello.c:2398`, `NoInternalException` (`share = FALSE`, `max.suspend = 1`):
    `isNeedSendHrr` is a local variable; if the certificate callback suspends the
    handler while a HelloRetryRequest is due, the request is not sent. The comment at
    2382 says that the state then reached does not occur. With a PSK the handler goes on and
    `UpdateServerBaseKeyExMode` (2375) chooses `PSK_ONLY`, although both ends allow, or the server
    insists on, `PSK_WITH_DHE`: a client that offers both modes accepts it, a downgrade without an
    ephemeral key (`NoDowngrade` without `RetryLost`); one that offers only `PSK_WITH_DHE` answers with an
    alert. `NeverFails`, `NoDowngrade` and `NotStuck` name exactly these outcomes as exceptions.
11. `send_new_session_ticket.c:193`, `TicketNonceUnique` (`max.pha = 1`, tickets): the nonce
    starts at 0 again after an authentication after the handshake; `hs_msg.h:328`:
    "Unique ID of the ticket issued on the connection".

Sessions (`MCSessionMgr`):

12. `session_mgr.c:338`, `ExpiredNotResumed` (`external = TRUE`): sessions returned by
    `sessionGetCb` are not checked for their age; `session_mgr.c:296`: "verify its validity
    (time)".
13. `session_mgr.c:417`, `RemovesOwn` (`tickets = TRUE`): a session from a ticket carries the
    id the client named, and `HITLS_Clear` erases whatever the cache holds under it;
    `hitls_session.h:744`: "Remove the session."

Certificates (`MCX509Verify`):

14. `hitls_x509_cert.c:798`, `IssuerIsCA` (a certificate that is no CA, with the issuer's name,
    before the issuer in the peer's list): names and key identifiers decide, although
    the comment at 794 lists "2. Is the issuer certificate a CA"; the chain that exists
    is refused.
15. `hitls_x509_verify.c:62`, `ResultIsCurrent` (an expired leaf that is tolerated, two calls):
    the error of an earlier verification is reported for a later one; `hitls_cert.h:842`:
    "the peer certificate verification result of the current context".

16. `hitls_x509_verify.c:1186`, `AnchorIsLast` (`PARTIAL_CHAIN`, the peer's list `<<"inter", "other">>` in
    the world `Circle`, `inter` trusted): a trusted certificate that is the peer's own is not
    appended again, so that when the issuers lead back to it the chain ends in the one
    before. That one is then taken for the anchor, of which only the validity is checked and
    not the signature; the comment at 1689: "The partial-chain trust anchor is not self-signed,
    but its validity period still applies." `Sound` says where such a chain ends.

Generators and signatures:

17. `drbg.c:243`, `NoRepeatedOutput` with `PidReuse = TRUE`, `MaxEntropy = 4`: a fork is seen by
    the process id alone; a grandchild that gets the id of the dead process that
    seeded the state repeats its output. `test_suite_sdv_drbg.c:1097`: "The fork reseed
    is triggered and the generated random numbers are different."
18. `hss_core.c:145`, `SignatureVerifies` with `Setters = "noKey"`: a type set after the
    levels were initialised goes into the keys, and not into the trees.
19. `hss_api.c:170`, `OneTimeUse` with `Setters = "always"`: the setters change the parameters
    under a private key; `hss_api.c:74`: "each LM-OTS index q must be used at most once".
20. `hss_core.c:91`, `CounterMonotone` with `Setters = "always"` and two seeds: a key
    generation that fails leaves the old seed with counter 0; `hss_core.c:424`: "the
    impossibility of OTS-key reuse".

## 5. Proofs

Every theorem holds for every value of the constants that the named assumptions of its
module allow; the bounds that keep TLC's state spaces finite (numbers of records, forks,
objects, blocks) are arbitrary numbers or sets there. Each inductive invariant was
first checked by TLC with the constants of the run (`CompInv` for the paths of bounded
length). A proof module has the invariant, lemmas about the operators, a lemma per action,
`InitInv`, `NextInv`, and the theorems.

| Module | Proved, for all constants | Hypotheses besides the module's assumptions |
|---|---|---|
| `DtlsRecordReadProofs` | `TypeOK`, `NoReplay`, `FreshNotRejected`, `OnlyAuthentic`, `EpochNotAhead`, `AppAfterFinished`, the refinement `ImplementsPromise` | none |
| `ConnProofs` | `TypeOK`, `CloseIsLast`, `FatalIsFinal`, `FatalIsSent`, `WriteOnce` | none |
| `RecordWriteProofs` | `WireIntact`, `SuccessMeansSent`, `SeqOnce`, `DataOnce` | none |
| `HsReassProofs` | `TypeOK`, `WholeMessages`, `BitMapExact`, `InOrder`, `QueueBounded` | none |
| `SessionMgrProofs` | `References`, `ResumesUsable`, `RemovedStaysRemoved` | none |
| `X509VerifyProofs` | `TypeOK`, `Sound`, `Complete`, `Terminates` | none |
| `DrbgProofs` | `SeedHeld`, `SeedNotStale`, `NoRepeatedOutput` | `~PidReuse`, for `NoRepeatedOutput` only |
| `HssProofs` | `OneTimeUse`, `SignatureVerifies`, `CounterMonotone` | `Setters = "unset"` |

The two hypotheses are those under which the properties hold: findings 17 to 19
refute them otherwise, and 20 for `CounterMonotone`. `hss_api.c` does not enforce that the
parameters are set once, so the theorems of `HssProofs` are about callers that do.

**`DtlsRecordReadProofs`**, for every window size, every bound on epochs, numbers, records
and cache, and every choice of record types (`WindowSizeAssumption`, `ReadBounds`,
`TypesAssumption`). None of the invariants is inductive. `IInv` joins:

* `WindowInv`: the bits of the window are exactly the accepted numbers of the
  current epoch within its reach, `top` is at least each of them, and nothing of
  a later epoch has been accepted. `NoReplay` needs this, since the window is the
  only memory the code has; lemma `UpdateTracks` shows that an update keeps it.
* `NetInv`: a ChangeCipherSpec exists only in an epoch the peer has left, so that
  accepting one in the current epoch means that the peer is ahead
  (`EpochNotAhead`).
* `HandshakeInv`: how the CCS flags, the pending keys, `hsCtx` and `finished`
  belong together; it is what makes a caching decision of
  `DtlsRecordHeaderProcess` enough for `AppAfterFinished`.
* `CacheInv`: what the caches hold came from the network.

The step lemma has one case per action; `ProcessRecordStep` is shared by the
record that comes from the network and the one that comes from a cache. The refinement
maps each action to the step of `ReplaySpec` that it is, or to a stutter, under `IInv`.

**`ConnProofs`**, for every set of configurations and every limit on warnings
(`ConfigsAssumption`, `AlertCountAssumption`). The C functions are operators on the
context, so the invariant is a predicate on a context, and there is a lemma per
function; the lemmas separate what the record layer changes from what the connection
management changes, and an action is a composition of them. `IInv` says what each
state promises:

* in `IDLE`, `HANDSHAKING`, `TRANSPORTING` and `RENEGOTIATION` no close_notify was built, no
  fatal alert raised or received, no alert is pending, and another warning may be
  counted (`Clean`). So what these states send comes after neither;
* `ALERTING` has an alert to send, which is the fatal one if there was one, and a
  close_notify that was built is not built again (`AlertingInv`). This protects the
  gap until `HITLS_SENT_SHUTDOWN` is set, which happens only when the transport has taken
  the alert: `CloseIsLast` is not inductive without it;
* in `ALERTED` a fatal alert is on the wire, in `CLOSED` `shutdownState` forbids what must
  not be sent (`ClosedInv`);
* an alert marked as flushed is in the buffer or on the wire (`AlertInv`), the data of a
  blocked write is in the buffer exactly once (`RecordInv`), and a loop runs only for
  its call and in an open connection (`CallInv`).

**`RecordWriteProofs`**, for every size of the buffer and of records, any partial writes, and
streams and datagrams (`RecordWriteAssumption`). The records with a byte on the wire or in
the buffer UIO have numbers below that of the write state, but for the one in `outBuf`,
which has that number (`SeqInv`, `OutInv`). The number moves on exactly when `outBuf` has been
emptied; a datagram that fails is dropped before any of it is out, so that the record
built in its place may have its number. `FlightInv` says what is buffered and where a call
can be when it reports success. `DataInv` is the same argument as `SeqInv` for pieces of
data, and needs that there is no flight mode, as finding 7 shows, and that no other call has sent the
record of a pending write, as 3 and 4 show (`disturbed`). `SentInv` is for `SuccessMeansSent`: the record
that a write of data sends holds its data, or the write was disturbed; with `WireIntact` it follows
that all of that record is on the wire (`StreamHas`, `SuccessFollows`).

`WireIntact` has an invariant of its own, `PartInv`, on top of `IInv`. Over a stream
(`StreamInv`) the wire, the buffer and the rest of `outBuf`, one after the other, are the bytes
of all records: every step moves bytes from the front of one to the end of the one before,
or appends a new record to an empty `outBuf`. Over datagrams (`GramInv`) the buffer and each
datagram hold whole records; a record of the buffer is older than the one in `outBuf`, so
that what is appended belongs behind it. `DoneInv` says when a write through the buffer can
have been cut short. The bytes of the wire are a `FlattenSeq`, a recursive function over the
length of a sequence; what is needed of it, that it exists and what it is after an
append (`FlatExists`, `FlatAppend`), is proved with a least counterexample.

**`HsReassProofs`**, for messages of any length and number, cut anywhere, with or without a
cookie (`HsReassAssumption`). The heart is the bitmap: `SetBits` shows that the masks and loops
of `SetReassBitMap` set exactly the bits of the fragment, by division with remainder
(`DivMod`) and a case for the first, the middle and the last byte; `Complete` shows that
`IsReassComplete` of such a bitmap says that every byte is there. `IInv` joins
`QueueOf` (every node is exact, and none is too far ahead) and `DeliveryOf`, which
strengthens `InOrder` (`OrderOf`) by `LastOf`: the number expected is one more than the last
one handed over, or 0 on a server that awaits a cookie. The one message that is read
unexpectedly on an established connection is excepted; a renegotiation begins with an empty
queue and number 0.

**`SessionMgrProofs`**, for any number of connections, sessions and ids and any settings
(`SessionMgrAssumption`; servers, clients and ids are finite so that holders can be
counted). Every operation changes the count of one session by one and so does every
change of a holder; the sums agree because whoever lets go of a session held it
(`ControlInv`: what the place in a handshake says about what a connection holds). A held
session is therefore an object in use, its id does not change, and it is in the cache
under its own id or not at all (`IdInv`), from which `RemovedStaysRemoved` follows.
`ResumesUsable` needs `GhostInv`: a session that was disabled or too old when a handshake
began stays so, although other connections run between any two of its steps, unless it
is renewed; and what has passed the checks is none of them.

**`X509VerifyProofs`**, for any certificates, CRLs and files of the CA path, any flags, depths and
accepted errors, and any number of verifications on one store (`X509Assumption`). For
`Sound`, each check of the code becomes a predicate on one position of the chain (`StrongOK`,
`ExtOK`, `UsageOK`, `CrlsOK`, `SignOK`, ...) with the positions for which it has been made
(`StrongDone`, ...): those below `depth` in the loops that go up, those above it in the loops
that go down, and all of them once the loop is over (`CheckedInv`). `CrlLoop` does the
same for the CRLs of the certificate at `depth`. `ChainInv` and `BuildInv` say that the chain is
linked and where it ends, and `CtxInv` that the store holds only what the
application trusts, although chains of earlier verifications were made from the peers' lists:
`Sound` is not inductive without it.

`Complete` needs an invariant about paths that the verification has not seen (`CompInv`): as
long as there is a path without defects (`Asked`) the chain goes along it (`Along`). The
search takes the first issuer it finds and never goes back, so this holds only where
a certificate has one possible issuer, which is the hypothesis `Unambiguous` inside `Complete`. That
`Sound` and `Complete` use the same `Defects` means that there the code decides exactly whether a
good path exists. `Terminates` compares stages first and rounds second; while the
chain is built, the rounds left are those of `maxFindNum`, which is what ends a circle.

**`DrbgProofs`**, for any processes, contexts, forks, draws and blocks and every width of the
counter (`DrbgAssumption`; `2^Width` is a number, since the prover knows nothing of powers, and
there are finitely many contexts, since users of the seed DRBG are counted).
`CounterInv` says that the counter of a seeded generator is one ahead of the blocks it
served and has not wrapped; `SeedNotStale` follows. `NoRepeatedOutput` needs a hierarchy: what
a seed DRBG gave out lies behind its V (`SeedInv`), what a context gave out lies behind
the context's V, and no two generators that were seeded in the process they are in share
a seed (`StreamInv`). A fork copies generators, and the copies are not active, because
the process id differs; for that `UnbornInv` says that no generator carries an id that
was not given out yet, and this is where ids must not be used again.

**`HssProofs`**, for every number of levels, height of the trees and width of the counter
(`HssAssumption`). A leaf is named by its tree, and the name of a tree holds the indices
of the trees above it, so tree and leaf of a level determine what is left of the
counter at the next: there the tree that is signed is the same, and at the bottom the
counter is the same, which a key uses once. `SpentBy` says this of the history: all that
was signed with a seed was signed at an earlier counter of its key. `CacheInv` says that
a cached tree is the one that its counter asks for, `PrvInv` that parameters and key belong
together and that a stored key with the seed of the one in use is the same key. The two
recursions over levels are reasoned about with a least counterexample (`WFMin` of
`WellFoundedInduction`), which needs no induction rule with an operator as parameter.

**Only model-checked**:

* `CloseCompletes` and `Connects`: liveness under fairness and `ENABLED` are out of
  reach of the prover;
* the safety properties of `Tls13` and `DtlsFlight`. What one end may do there depends on what
  the other has sent and on what is still in the channel, so that an inductive invariant has to
  describe the states of both ends and all that is under way together,
  through every handler; and the retransmission list of `DtlsFlight` is written with a fold whose
  operator the prover cannot instantiate.

No module uses a `RECURSIVE` operator.

## 6. Plan

Done: the modules above, and the proofs of `DtlsRecordRead` with its refinement, `Conn`,
`RecordWrite`, `HsReass`, `SessionMgr`, `X509Verify`, `Drbg` and `Hss`. Left, in this order:

1. `DtlsFlight`: `WriteStateRestored` and `LastFlightFirst`, for any number of losses and
   timeouts, with the fold of the retransmission written as a recursive function.
2. `Tls13`: `ClientAuthenticated` and `NoDowngrade`, each from the states of one end and what
   the other can have sent.

## 7. Not modelled

The library has about 344,000 lines, most of which are outside what a state machine
describes; the project covers the protocol state listed above.

* Algorithms of `crypto`: number theory, block ciphers, assembly and their tables
  (the elliptic curve tables alone are larger than `tls/record`). They are functions of
  their input; TLC cannot enumerate their inputs at any useful width.
* Byte formats: packing and parsing of messages, ASN.1, `codecskey`, CMS, PKCS#12,
  CSR. No state is kept; a model would repeat the format.
* Tables: cipher suites, object identifiers, error codes; header files.
* TLS 1.2 and TLCP message by message over streams (`Conn` has their sends and
  receives in any order), early data, SCTP, the search for the path MTU, the
  reception of records from a stream.
* Tickets as cipher texts, PSK identities, ALPN, SNI, custom extensions,
  configuration setters, which only store or compare values.
* XMSS and stand-alone LMS, the health tests of the entropy pool, streaming contexts
  of ciphers and HPKE, SPAKE2+, Privacy Pass, OTP, the provider manager.
* The command line apps.
