# A verification of the SIGNEDBYME server and agent

SIGNEDBYME lets a software agent log in at a relying party ("enterprise client") by proving
that its secret is one of the leaves of the Merkle tree kept for that client. An enterprise
authorizes an agent, a human delegates to it, the server enrolls the agent's leaf commitment
and publishes the new root, and a login is accepted for a root the server still considers
valid. Every login is logged, and once a month the agents are paid a share of the client's
payments by their logins. Membership proofs are made and checked by rapidsnark, whose source is
kept in the repository: a Groth16 prover and verifier, a C interface to them that the agent
calls, and a server that proves for others.

This directory holds TLA+ modules translated from that code, the TLC configurations that check
them on small instances, and theorems about them checked by TLAPS. `PROJECT.json` maps every
definition that stands for code to the lines it stands for. All paths below are below `src/`.

    tlc -workers 2 -config enroll_serial.cfg MCEnroll     # one of the runs
    tlapm EnrollCommitProofs.tla                          # one of the proofs

## 1. The parts of the system

| part | state it keeps | operations | hard behaviour |
|---|---|---|---|
| enrollment commit, `app/routes/enroll.py` | tables `merkle_trees`, `merkle_roots`, `merkle_leaves`, `merkle_witnesses`, `audit_log` | `POST /v1/membership/enroll/commit`, `GET .../status` | nine to eleven database calls without a transaction, in a thread pool; crash or refused write between any two |
| Merkle tree, `hash_pair` and `insert_leaf` of the same file | one hash per level (`state_json`), `next_leaf_index` | insert | truncation to eight digits; silent SHA-256 fallback |
| login, `app/routes/login.py` | reads `merkle_trees`, `merkle_roots`, key files; writes `login_verifications` | `POST /v1/login/verify` | trees and roots are two queries; log and signature are two steps |
| OIDC code grant, `app/oidc_endpoints.py` | table `oidc_codes` | authorize, token, userinfo | one shared connection that never rolls back; a refused write is swallowed |
| payout script, `scripts/payment_allocator.py` | table `payout_log`; money at Strike | one run for one month | payments inside an uncommitted transaction, lost answers, stops, runs repeated, dry runs |
| agent watcher, `native/signedby_core/src/sdk/enrollment.rs`, `ffi.rs`, `sdk/typescript/src/agent.ts` | the two events it waits for, a channel of 32, a promise | start, submit challenge code, callbacks | relays deliver late, twice, out of order; the agent stops during a call and tries again |
| membership routes, `app/routes/membership.py` | the same tables | roots, witness, validate-root, enroll | its enroll is shadowed by enroll.py's in `app/main.py` |
| root publication, `app/routes/roots.py` | the same tables | list, publish, add, delete | publish and add raise on every call |
| sessions, claims, unlock, admin, auth | dictionaries in memory, `clients.json` | small request-response handlers | independent of the above |
| event and signature checks, `app/lib/nostr.py`, `crypto.py` | none (DNS and HTTP fetches) | verify a Nostr event, NIP-05, a proof | cryptography |
| demo server, `demo/app` | the same tables and sessions in memory | the same routes and "gates" | the gates |
| identity and storage, `native/signedby_core/src/sdk/identity.rs`, `storage.rs` and `../key_manager.rs` | two files | create, load, save | written in place |
| delegation and wallet, `native/signedby_core/src/sdk/delegation.rs`, `wallet.rs` | none; a budget | validate, pay, renew | renewal |
| proof server, `native/rapidsnark/src/fullprover.cpp`, `proverapi.cpp`, `main_proofserver.cpp` | the status, the job, its proof; files of `./build` | `POST /input/:circuit`, `POST /cancel`, `GET /status`, the job thread | a mutex locked twice, reads without it, failures that end the process, stale files |
| binary files, `binfile_utils.cpp`, `zkey_utils.cpp`, `wtns_utils.cpp` | a position in a mapped file, the sections found | open, read the table, load a header, take sections | damaged sizes, cut files, wrapping positions |
| prover C interface, `prover.cpp`, `fileloader.cpp` | prover objects, descriptors, mappings | sizes, create, prove, destroy, from memory or from a file | threads, failed loads, memory that outlives or does not outlive its object |
| Groth16 prover, `groth16.cpp:49-264` | the arrays a, b, c, 1024 locks | prove | parallel additions, two forms of one number |
| Groth16 verifier, `verifier.cpp`, `groth16.cpp:313-751` | the state of the Miller loop | verify | signs, conjugations, zero points |
| rest of proof generation (SDK core, circuits) | none | build a witness, call the C interface | field arithmetic |
| logger, generated witness calculator, SDK wrappers, relay policy, `tools/sbm-tree`, deployment | - | - | output, generated, thin or offline |

How they interact. The watcher calls enrollment commit over HTTP and learns of its two events
from relays. Enrollment appends the rows of `merkle_roots` that login reads. Login writes the
rows of `login_verifications` that the payout script counts, from another process, and that
process takes the write lock of the database for a whole run, Strike calls included; its
commit is what makes the server's open snapshot stale (`OidcCodes`). Within the server all
handlers share one SQLite connection (`app/db/__init__.py:32`); synchronous handlers run in a
pool of threads, asynchronous ones on the event loop. The agent loads rapidsnark as a library
(`groth16/rapidsnark_ffi.rs`) and calls its C interface from the threads of an app; the prover
reads its key and witness with the binary file reader; the proof server uses the same reader
and prover from a thread per job.

What makes each part correct, in a sentence:

- enrollment: an authorization admits one leaf; a recorded leaf can be opened in a published
  root for ever; what a response said is stored; a leaf is in the tree its authorization spells.
- tree: the incremental root is the root of the whole tree; witnesses open it.
- login: only roots of the client's own trees pass, while they are among the last ones of
  their tree; each token is logged.
- OIDC: a code is exchanged once, by who asked for it, in time.
- payout: every sat allocated is in the log once; the log and the account agree.
- watcher: it ends, settles its promise with what happened, and retrying is harmless.
- proof server: one job at a time, every job ends, and the answer to a client is about its input.
- binary files: nothing outside the file is read, and what is accepted is what was written.
- C interface: what a call opens it closes once; a key is in memory while it is read; sizes suffice.
- prover and verifier: what an honest prover made is accepted, and a document with points of the
  groups exactly if it satisfies the equation of Groth16 with these public signals.

## 2. The modules

| module | models | composed with |
|---|---|---|
| `EnrollRegistry` | what enrollment promises: append-only lists, one leaf per authorization | refined by `EnrollCommit` |
| `EnrollCommit` | the handler `enroll_commit` call by call, threads, refused writes, crashes | instance `Registry` of `EnrollRegistry` |
| `MerkleTree` | `insert_leaf`'s computation, `hash_pair`, and the tree it should give | justifies "a root is its list of leaves" in `EnrollCommit` |
| `LoginVerify` | the handler `verify_login` with enrollments in between | - |
| `OidcCodes` | authorize and the code grant, the shared connection, another writer | - |
| `PayoutAllocator` | `run_allocation` with payments, lost answers and stops | - |
| `AgentWatcher` | the watcher, its channel, callbacks and promise, and the server's checks | - |
| `ProofJobs` | what the proof server promises its clients | refined by `ProofServer` |
| `ProofServer` | the request thread, the job threads, the files of `./build`, the end of the process | instance `Jobs` of `ProofJobs` |
| `BinFile` | one reader from its constructor to the last pointer taken from it | - |
| `ProverApi` | the C interface call by call, its file loader, other users of descriptors | - |
| `ScalarField`, `Pairing` | the two fields the prover and the verifier compute in; lines, images and the final exponentiation | extended by the next two |
| `Groth16Prover` | `Prover::prove` with its threads | composed in `Groth16` |
| `Groth16Verifier` | `groth16_verify`, the Miller loop step by step | composed in `Groth16` |
| `Groth16` | a proof from the witness to the exit status | `Groth16Prover` and `Groth16Verifier` |
| `MC*` | constants of the above for TLC | |
| `EnrollCommitProofs`, `MerkleTreeProofs`, `PayoutProofs`, `WatcherProofs`, `ProofServerProofs` | theorems about the module each is named after | |
| `TokenProofs` | theorems about `LoginVerify` and `OidcCodes` | extends the two, which share no state |
| `RapidsnarkProofs` | theorems about `BinFile` and `ProverApi` | extends the two, which share no state |
| `Groth16Proofs` | theorems about `Groth16` and the modules it composes | extends `Groth16` |

Operators that begin with the comment "A mutant" are plausible bugs of the definition that
follows them. They are used by no specification: substituting one for its definition makes
the property it is listed with in `PROJECT.json` fail, which shows that the property depends on
that piece of code.

### EnrollCommit

One action is one call of the handler to `app/db`: each executes and commits one statement.
`pc[t]` is the call the thread makes next, `req[t]` its request, `seen[t]` the row
`insert_leaf` read. `Submit` is everything up to CHECK 5; the one read among those checks is
the row of the authorization. `LookupTree`, `CreateTree` and `PublishEmptyRoot` are
`get_or_create_tree`, `ReadTree`, `UpdateTree` and `PublishRoot` are `insert_leaf`, then
`RecordLeaf`, `SaveWitness` and `Respond`. `WriteFails` is an `OperationalError` of any call
that writes: nothing catches it, the response is a 500 and what was written stays. `Crash`
clears the threads and keeps the database.

- A root is the list of leaves it commits to. `MerkleTree!RootBindsLeaves` and
  `RootIsReference` say why that is right, and under which condition it is not: leaves that
  agree in their first eight digits, and hashes that fell back to SHA-256.
- Commitments are strings; `Strip` is what is left without `0x`. Two spellings of one leaf
  are different for the duplicate check and for UNIQUE and the same for the tree.
- A tree identifier is `f"{client_id}-{purpose}"`, and both parts may contain hyphens. A string is
  here the list of its words between hyphens, so `TreeId` appends two lists, and client `acme` with
  purpose `x-allowlist` has the tree of client `acme-x` with purpose `allowlist`. `owner` is the
  client in the row, that of whoever came first. The instances have such a pair of clients.
- Signatures, NIP-05 and expiry are preconditions of `Submit`: a refused request changes
  nothing.
- The connection is shared, so a commit of one thread also commits what another has executed.
  Here `execute` and `commit` are one step; that only moves the point at which a crash takes
  effect. A refused write leaves the connection in the state `OidcCodes` describes; here the
  next write may fail or succeed, up to `MaxFailures`.

### MerkleTree

`hash_pair` has three outcomes: the hash of `poseidon_hash`; when there is no such program, a SHA-256
of the same truncated digits (`MissingPair`); when it fails or is too slow, a SHA-256 of all digits.
Which one each level of an insertion gets is a choice of `Insert`; `made` remembers it for each node.
A hash is the record of what was hashed, so equal hashes mean equal input: this is symbolic, for
outputs of 31 bits do collide, and nothing here says how hard that is to find. The first eight
digits of a hash stand for it, because the 31-bit hash of `poseidon_hash` padded with zeros
has no others; those of a leaf are `Short[x]`. `Layers` is the definition of the tree from its
leaves, with zero (not the hash of zeros) at every empty node, as `get_zero_hash` returns, and
each node hashed the way it is told. `ReferenceRoot` is its root with every hash from the program, `Opened` what a
verifier climbs to with a witness, `Below` what it finds at a slot going down.

### LoginVerify

`FindTrees`, `CheckRoot`, `LogLogin`, `Sign` are the four calls of `verify_login`; `CreateTree`
and `PublishRoot` are all that enrollment does that a login can see. The id of a row of
`merkle_roots` is its position. `ChangeKeys` is the operator installing or removing key files;
both files are one value. The handler calls no proof verifier before it signs, so neither does
the model: that a login proves anything about its root is not stated here.

### OidcCodes

`/oidc/token` never awaits: `Exchange` is one step. `conn` is the transaction of the server's
connection: none, begun by the driver for a write that was refused ("open"), pinned to a
snapshot by a read ("fresh"), or pinned to one that is no longer the last ("stale"). SQLite in
WAL mode refuses every write of a stale one. `Lock` and `Unlock` are any other writer; whether
it committed something is open, so `Unlock` may or may not make a snapshot stale.

### PayoutAllocator

`payout_log` is represented by its sums, which is all the script reads of it. `CountLogins` and
`Allocate` are the two queries the counts come from, with the server logging in between.
`carried`, `paid`, `earned` are what the open transaction sees, `saved` what is committed.
`earned` is not stored by the script; it is there to say that the other two account for it.
The float expression `int(pool * (n / total))` is its exact value or, where that is an integer,
possibly one less: `int(22 * (15 / 22))` is 14.

### AgentWatcher

`Start` to `CallFails` are the watcher's task, `ReadCallback` the JavaScript event loop that
turns callbacks into a promise, `ServerChecks` to `ServerAnswers` a call at the server, which
goes on when the agent has stopped or given up. An event stays on the relays once published,
so it can be delivered any number of times and in any order. `ServerChecks` stands for the reads
of CHECK 5 and the duplicate check, so that a second call can be between its reads and its
insert. A passing result needs a field `success` the server does not send, so `Result` is
always "failure".

### ProofServer

Pistache is told to use one thread (`main_proofserver.cpp:32`), so requests come one after the
other and the other threads are those of jobs. A critical section of `mtx` is one action;
`getStatus` takes no lock, so each of its comparisons is an action (`CompareStatus`) and
`FillReply` copies `proof` and `pubData` later. `worker[w]` is the statement a job thread is
at: `Generate` (parse, run the generator), `LoadWitness`, `CheckCanceled`, `Prove`,
`CatchError`, `Finish`. `calcFinished` ends with `checkPending`, so `CheckPending` is part of
`Finish` and of `StartProve`. A proof, public data and a `.wtns` file are represented by the
input and the circuit they belong to, a file `input_<circuit>.json` (`inputs`) by the input.
`Generate` writes that file and runs the generator: the write may fail without notice
(`WriteInput`), and then the generator solves what the file held before; the generator may fail, and
then the `.wtns` file stays (`Generated`). `last` and its `solved`, whether the `.wtns` file left is of
the last body, are there only for `ReplyHonest`.

`startProve` calls `abort` with `mtx` held. Locking a `std::mutex` twice is undefined; with the
library used it never returns, and that is `mtxHeld`. No request is answered from
then on and the job stops at its next lock. Exceptions other than `std::runtime_error`
leave the thread function and end the process (`Terminate`), and `Restart` is systemd.

### BinFile

A file is a sequence of written sections, sizes in its table that may differ from what was
written, a length at which it was cut and the numbers its writer put into its header. Where the
reader is at a place nobody wrote a section header, the id and size are any of `Lost`, and a
number is any of `Garbage`. `Width` is 2^64, the position wraps there; `Word` is 2^32, in which
lengths of pointers are computed. `ZkeyHeader` and `WtnsHeader` are the two `loadHeader`s as
lists of calls, so that each call is an action. The last line of a zkey's divides by a sum that a
damaged file can wrap to zero; then `HeaderRead` ends the process ("SIGFPE").

### ProverApi

A call is `Begin`, for a call on a file `Open` and `Map` or `LoadFails`, then its work
(`PublicSize`, `Create`, `Prove`, `Destroy`), and for a file `Unload`. The kernel gives the
lowest free descriptor. `fstat` may fail for any file, which leaves the address of a loader unset. A `FileLoader` made without a name (`prover.cpp:264`, `446`) has a
destructor that runs after a failed load; one made with a name has not, because its constructor
did not finish. A key is a record of what matters: does the file exist, is it empty, is it a
key, how many variables and public signals. A proof is its number of digits.

### Groth16Prover, Groth16Verifier, Pairing and Groth16

In the prover points are their logarithms, because add and mulByScalar of the group library are, up
to naming, addition and multiplication of logarithms. In documents and in the verifier they are
coordinates: `Affine1` and `Affine2` give those of a logarithm, `FromJson` reduces whatever numbers
a document holds, as `RawFq::fromString` does, and nothing asks whether they are a point of the curve
or of the group. Of the key, which the verifier's own side made, and of `vk_x` the coordinates are
those of multiples of the generators.
The code keeps scalars in two forms, plain and Montgomery, with the same type, so the models
keep them apart: `Mont`, `ToMontgomery` and `FromMontgomery` are where the code has them. Each
thread of `parallelFor` has a chunk of `Coefs`; `Take` is the lock and the read of a cell,
`Store` the write and the release. `Quotient` is what follows the accumulation, deterministic
and without shared cells, in one step.

The verifier's loop is one step for the doubling of a digit and one for its addition, then the
two last additions; a line is used where it is computed. The prime fields are those of
`native/rapidsnark/build` (`RawFr`, `RawFq`); the towers F2, F6 and F12 above them, the groups, the
FFT and the thread pool are a submodule that is not part of the source: they are external, written
from their use. The document that arrives in `Groth16` (`Send`) is the proof; one that somebody
changed (another point C, A and B both negated or multiplied by factors that cancel, A alone
negated, every number written with the prime added, another protocol name); or one from elsewhere:
with a point off the curve, with a point of the twist outside the group, or made of points of
the groups to satisfy the equation. It comes with any of several lists of public signals, and the key
may be unreadable. `ExpectedPi` is what the proof of a witness comes to before
it is blinded, as a function of the witness alone; `KeyDecides` says what a key and its circuit must do
for the rest to mean anything: tell by the equation of Groth16 the satisfying assignments with their
public signals from everything else. It is a statement about the setup, which is not code of the
repository; TLC evaluates it for the key of `MCGroth16`.

## 3. The runs

States are distinct states; every run ends within about three minutes.

| run | question | bounds | states |
|---|---|---|---|
| `enroll_serial` | With requests handled one at a time, does enrollment implement the registry, through a crash and a refused write, and who meets in a tree? | 1 thread, 3 authorizations at 2 clients, two of which spell one tree, 3 spellings of 2 leaves, capacity 2, 4 requests | 192 k |
| `enroll_concurrent` | What is left of it with two threads? | 2 threads, 3 requests, 1 crash, 1 refused write | 2.3 M |
| `enroll_replay` | "the leaf insertion IS the replay marker" | 2 threads, 1 authorization | violation |
| `merkle_tree` | Is the incremental tree the tree, and what does a failing or missing program spoil? | depth 3 (a full tree of 8), 3 leaves of which two share digits, 1 insertion without the program | 125 k |
| `login` | What may a token be for, while roots are published? | 2 threads, 2 clients, 3 trees, window 2, 3 rows, 1 key change, 1 crash | 537 k |
| `oidc` | Are tokens bound to their codes, and what does a second token need? | 2 codes, 2 clients, lifetime 2 of 3 time steps, 2 exchanges, 1 other transaction | 652 k |
| `payout` | Do log and account agree? | 2 agents, 2 months, 3 runs, 1 lost answer, 1 stop | 692 k |
| `watcher` | Is retrying safe, and does every watcher end? | 2 runs, 3 authorizations of which one is for another agent, channel of 2, 6 deliveries | 450 k |
| `proof_server` | Is there one job, does it end, and is its client told the truth? | 5 bodies, 2 circuits of which one is not loaded, 3 posts, 2 job threads, any number of cancellations, failures and restarts | 979 k |
| `bin_file` | Which files are accepted, and what is read of them? | zkeys and wtns files in 6 orders of sections, one damaged size, 3 numbers of sections, 6 lengths | 1.7 M |
| `prover_api` | Who closes what, and what is read after it is gone? | 2 threads, 2 descriptors, 2 mappings, 1 object, 4 keys, 3 witnesses, 3 calls | 8.7 M |
| `groth16` | Which documents are accepted? | 97 points over 103 elements, 3 threads of 2 coefficients, 2 locks, 3 witnesses, 3 pairs of random numbers, 5 changes, 3 documents from elsewhere, 5 lists of signals | 14 k |

Why the bounds are enough. Three requests let a third one meet the outcome of a race of two;
with four in `enroll_serial` a tree fills, is refused, and a crashed request is tried again.
A capacity of 2 makes the last slot contended. A window of 2 over 3 rows lets one root leave it
while another tree's rows are the ones that count. A channel of 2 fills during a call; six
deliveries give each of two watchers a pair with an event of another kind before or between.
Three runs of the payout script are: one that goes wrong, the one that pays again, one more.
Pools of 3 and 1 sats with a minimum of 2 give shares below and above it and a division with a
remainder.

Three posts to the proof server are: a job that leaves a file, one that fails and finds it, one
that arrives while another runs. A job is over before the next starts, so the second thread is
there to be wrong with (the mutant of `SoleWorker` uses it). Two descriptors are enough for a
number to be closed, given to the rest of the process and closed again; three calls are a size
call or a create, a prove that may be short, and a retry or a call of the other thread. In
`bin_file` the scaled words are 256 and 2048, so that a product of a header that was read in the
wrong place wraps, a size of 2048 - 30 takes the position back, a size of 2000 is beyond
every file, and a number of 244 makes the divisor zero. The curve of `groth16` is of the family the code
is for (Barreto-Naehrig, parameter 1), so its line functions, images and final exponentiation
are those of the code with other numbers; its digits have every sign. Its circuit has a public
signal, a row that several threads add to, and one witness that does not satisfy it; two of the
pairs of random numbers make the point A or B of a proof zero, and public signal 0 another case
of arithmetic at zero. Among the documents are an accepted one for each way to be accepted (the proof
in two spellings, two equivalent ones, one made without a witness) and a refused one for each way
to differ.

Deadlock is off everywhere: a run ends when its bounds are used up, and a file or a proof when
it is read or checked. Symmetry is used only
where no liveness property is checked, on threads, roots and agents that no definition tells
apart.

What each property says stands above it in its module. The ones that carry most:

- `EnrollCommit!RegistrySpec`: one thread at a time, enrollment refines `EnrollRegistry`,
  with the row of `merkle_trees` as the list of slots and a row of `merkle_leaves` as an
  admission. With two threads this is false (`enroll_replay`), and the properties of
  `enroll_concurrent` are what remains: recorded leaves and stored witnesses still open published
  roots although the stored tree may have forgotten a leaf, and the leaves of an authorization and the
  requests still racing for one are together no more than the threads (`ReplayBounded`).
- `EnrollCommit!NamesakesOnly`: clients are not kept apart by trees, because identifiers of trees can
  be spelled in two ways; but that is the only way they meet. A leaf is in the tree its authorization
  spells, and the row of that tree names a client some authorization spells it for.
- `LoginVerify!PassedRootIsValid`: the root is in the window of some tree of the client at the
  moment of the check, although the list of trees is older.
- `OidcCodes!ReuseNeedsRefusal`: the number of tokens of a code is bounded by its refused
  writes, so the swallowed error is the only way to a second one.
- `PayoutAllocator!LedgerBalanced`, `MovedMeansPaid`: failures, stops and repeated runs neither
  lose nor double a balance in the log; money the log does not know of needs a stop or a lost
  answer.
- `AgentWatcher!RetryIsSafe`: whatever earlier calls still do, an agent has one leaf at a client.
- `ProofServer!JobSpec`: the server implements one job at a time in which a cancellation wins
  over the outcome. `JobEnds` says each job ends unless an input arrived while it ran;
  `ReplyHonest` that a reported success is a proof of the last input, with its public signals,
  unless that input was empty or no solution of it was left in the `.wtns` file.
- `BinFile!HeaderExact`: whatever size of the table is damaged, a header that was accepted is
  the one that was written, although the reads take no notice of sections: `endReadSection`
  sees it.
- `ProverApi!KeyStaysMapped`, `DescriptorsOwned`: the two exceptions they name are all there are.
  An object made with `groth16_prover_create_zkey_file` reads a key that is no longer mapped, and a
  failed load closes a number twice.
- `Groth16!ProofVerifies`: of documents whose points are in the groups, one equivalent to the
  proof that was made is accepted exactly when the witness satisfies the circuit and the signals are
  its own, modulo the order; and for such a witness nothing else is accepted. Equivalent means that
  the equation compares the same number: the proof in any spelling, and (-A, -B, C). The steps on the way there have
  properties of their own: `SumsComplete`, that the transforms start from the sums of one thread
  alone; `BlindingCancels`, that the random numbers of a proof leave what the verifier compares as it
  was; `MillerExact`, that the loop gives the pairing of the pair; `EquationChecked`, that nothing is
  accepted of another protocol, without a key or with the wrong number of inputs, whatever its points,
  and that for points of the groups the exit status is the truth of the equation over plain numbers, pairs
  with a zero included. What the verdict is for points outside the groups no property says: nothing in the
  code checks for them. Two statements between these have no run of their own, since they are proved and
  what follows from them is checked: `AddsProduct`, that no store of a thread undoes another's, and
  `PairingExact`, that the product so far is that of the pairs passed.

Fairness. Safety runs assume none. `enroll_serial` has weak fairness of each thread's `Step`,
for `WitnessFollows`: the operating system runs a thread that has a call to make, and no call
waits for another. Requests, crashes and failures are not fair. `watcher` has weak fairness of
`WatcherStep`, because the runtime polls a task that has something in its channel and the HTTP
client gives a call up after 30 seconds, and of `ReadCallback`, the event loop of JavaScript.
`proof_server` has weak fairness of each job thread's `JobStep` and of the rest of a `getStatus`
that began: the operating system runs them, nothing but `mtx` can make them wait, and the
generator and the prover are assumed to end; requests, cancellations and restarts are not fair. Nothing about relays, the server, the human or the enterprise is fair: `Settles` starts from a
watcher that has both events.

## 4. What the violation shows

`enroll_replay`. Two requests with one authorization and different commitments both read
CHECK 5 before either stores its row; there is no UNIQUE on `authorization_event_id`, and both
get a leaf, although the comment says "the leaf insertion IS the replay marker".

Facts met on the way, which no run states as a property:

- On a new database `_init_schema` creates no table, because it skips every statement that
  begins with a comment line; the columns that `log_verification` writes come from migrations.
- Clients whose names and purposes spell one identifier share a tree, which belongs to the first of
  them, although the docstring of `get_or_create_tree` (`enroll.py:429`) says "for client+purpose".
- A witness is stored once and never refreshed, although the header of `enroll.py` (line 12)
  says "Witnesses updated automatically".
- A login whose keys cannot be read leaves its row in what `app/db/__init__.py:378` calls the "Log of
  successful logins", and the row counts towards payouts.
- The login window is one cutoff over all trees of a client together: a busy tree pushes the
  newest root of a quiet one out, which is among the last 30 of its own tree.
- A write refused once leaves the shared connection in a transaction nothing rolls back;
  `use_oidc_code` then fails silently and a code gives a second token with no lock held
  (`OneTimeUse` of `OidcCodes` is false; `ReuseNeedsRefusal` is what holds).
- A dry run of the payout script commits rows with status `paid` and clears carried balances
  (`PaidMeansMoved` is false; `PaidMovedOrPretended` holds).
- The notice of gate 3 and the result have one event type, so the promise of `agent.ts`
  resolves with success on the notice, before the call.
- An input posted to the proof server while a job runs stops the server for good. One that is
  not JSON, or for a circuit that is built and not loaded, ends its process.
- A failing generator leaves the `.wtns` file of an earlier input, and a failed write the file an
  earlier input was written to; the server proves that input.
- A damaged key can make the divisor of `zkey_utils.cpp:50` zero, which ends the process.
- (-A, -B, C) is accepted for every accepted proof (A, B, C), as the equation has it, and coordinates
  that are no point of the groups go into the pairing unchecked.
- The size for no public signals is 4 bytes; `null` and its terminator take 5.
- The sizes a call tells when its buffers were short are those of that proof; the next one is
  blinded anew and may need more for the proof.
- A circuit without public signals has proofs that are never accepted: `parse_inputs` throws on an
  empty list before the proof is looked at. `VerificationCorrect` is therefore about circuits with some.

Hazards no property covers. `PROJECT.json` lists those that are in the models, each with the property
that names it as its exception or is silent about it: a refused write of a witness after its leaf, the
tree of two clients, the witness that ages, the window over all trees, the row of a login without a token;
the stop of a payout before its commit, the payment whose answer was lost, the month allocated twice; the
mutex locked twice, the input or `.wtns` file of an earlier body, the division by zero; the key unmapped
under its object, the second close of a descriptor, the sizes that are too small; and the points nobody
checks. In these the code does what the model does, and no property can forbid it and hold.

Others are outside the models. All threads of the server share one connection, so one commits what
another has executed; the key id and the private key of a login are two reads of two files; a
carried balance of an agent without logins in a month is not visited; identity files are
written in place; the watcher's response type wants a field the server does not send; a watcher
that cannot start calls nothing back; events that arrive between subscribing and listening are
not seen; one leaf can be enrolled under two spellings.

## 5. The proofs

Each theorem holds for every value of the constants that satisfies the assumptions of its module:
any number of threads, trees, agents, crashes, files, coefficients, locks, descriptors, and any
depth of the tree. The bounds of the model are constants too and no proof uses their values. The
assumptions say what kind of thing each constant is, and where they say more:

- `EnrollCommit`: the pool of threads is finite, for `ReplayBounded` counts in it; clients and purposes
  are lists of words, any lists.
- `PayoutAllocator`: the table of agents is finite, for a share is one part of a sum over it.
- `MerkleTree`: the eight digits of a leaf are no leaf, which has sixty-four.
- `ProofServer`: `None`, which is no answer, is neither a proof nor a status.
- `BinFile`: memory ends far below 2^64, no file was written beyond it, and
  (`LayoutAssumption`) the writer gave a header every field and each section the length its fields
  take, in elements of fewer than 2^32 bytes. Nothing is assumed of the sizes in the table,
  of where the file was cut, or of what a misplaced read finds.
- `ProverApi`: descriptors and addresses are finite sets of numbers, and a decimal has at most 77
  digits, as a number below the order of the curve has.
- `Groth16Prover`: the order has an inverse of the Montgomery radix; the chunks of `parallelFor` are
  disjoint and together all coefficients (`ChunksAssumption`); a key has points for every variable
  and the same random values in both groups (`KeyAssumption`); the square of the root that shifts
  the domain, and the size of the domain, have inverses (`RootAssumption`). The order is not assumed prime.
- `Groth16Verifier` and `Groth16`: the verification key holds numbers, and is the one exported with the
  proving key (`ExportAssumption`); each group has as many points as its order, and the negative of a
  point of the first has the negative ordinate (`CurveAssumption`). Nothing is assumed of a document.

What the theorems on verdicts assume besides stands in their statements: `GeneratedOK`, that the powers of
the pairing of the generators multiply, are one exactly at multiples of the order, and one stays one;
`[]MillerExact`, which is the pairing itself; and for `VerificationCorrect` also `KeyDecides` and
that there is a public signal. TLC finds the first and third true of the small curve and its key (the `ASSUME`s of
`MCGroth16`; the powers for the exponents it lists) and the second an invariant of the run, so the
hypotheses hold together.

| module | theorems | argument |
|---|---|---|
| `EnrollCommitProofs` | `TypeCorrect`, `WitnessCorrect`, `AckCorrect`, `CapacityCorrect`, `ScopeCorrect` | what a thread holds is in tables that only grow |
| | `ReplayBoundCorrect` | the leaves of an authorization and the threads racing for one, counted together |
| | `SerialReplayCorrect`, `SerialRootsCorrect`, `SerialIsRegistry` | one thread finds the tree as it left it |
| `MerkleTreeProofs` | `RootCorrect`, `WitnessCorrect`, `BindsCorrect` | stored hashes are those of the complete subtrees left of the next leaf |
| `TokenProofs` | `TypeCorrect`, `ScopeCorrect`, `LogCorrect`, `PassedCorrect` | what each thread holds is true of the rows, and rows are only appended |
| | `OidcTypeCorrect`, `BoundCorrect`, `ReuseCorrect`, `OneTimeAlone` | tokens of a code are counted against `refused` and `used` |
| `PayoutProofs` | `TypeCorrect`, `LedgerCorrect`, `PaidCorrect`, `MovedCorrect`, `PaidWithoutDryRuns` | balances of the open transaction include what is still due |
| | `PoolCorrect` | a floor of each part is no more than the part, and the parts add up |
| `WatcherProofs` | `TypeCorrect`, `RetryCorrect`, `AuthorizationCorrect` | what is queued, held, called or recorded was published |
| `ProofServerProofs` | `ServerTypes`, `OneJob`, `ServerIsProofJobs` | status is busy exactly when one thread works, and nothing is pending |
| | `HonestCorrect` | the job knows whose witness it has, the call which statuses are excluded |
| `RapidsnarkProofs` | `StaysInFile`, `AcceptedCorrect`, `HeaderCorrect` | the position against the table as written, call by call of `loadHeader` |
| | `ApiTypes`, `DescriptorsCorrect`, `KeyCorrect`, `SizesCorrect` | what a call opened is its own until it closes it |
| `Groth16Proofs` | `ProverTypes`, `NothingLost` | who has read a cell holds its lock, so the cell still has that value |
| | `SumsCorrect` | a cell is the sum of the coefficients stored so far |
| | `BlindingCorrect` | the blinded terms cancel, modulo the order |
| | `PairingCorrect`, `EquationCorrect` | the exponent accumulated so far is that of the pairs passed |
| | `VerificationCorrect` | the proof is a function of the witness and the two random numbers |

Enrollment. `WitnessOpensRoot` is not inductive: it must be known of a thread about to record
its leaf that the root it computed is published, and of one about to save its witness that its
row is recorded. The inductive invariant adds that for each value of `pc[t]`. It speaks only
of what the thread holds and of tables that grow, which is why another thread cannot break it:
the stored tree, which another thread does overwrite, is not mentioned. Capacity needs that what
a thread has read is below it. `SerialReplayCorrect` adds, for one thread, that the
authorization of a request past CHECK 5 still has no row; this is the fact another thread falsifies in
`enroll_replay`. What is left with several threads is `ReplayBoundCorrect`: a row is recorded by a
thread that stops racing, so rows and racing threads together do not grow, except when a thread
passes CHECK 5, which needs that there is no row; and the threads are then the bound. It is kept as
a count, hence `BoundInv` adds that the rows of an authorization are finitely many.
`SerialInv` is for one thread: between its read and its record the tree is `seen[t]` or the root
it computed, whatever crash ends the attempt. From it follows `SerialRootsCorrect`, and with
the invariants of `CapacityCorrect` and `SerialReplayCorrect` each step is one of `EnrollRegistry` or
a stutter: `UpdateTree` takes a slot, `RecordLeaf` with a new row admits, everything else leaves slots
and admissions alone (`SerialIsRegistry`). `ScopeCorrect` assumes nothing of the names: a row of
`merkle_trees` is made by a request whose authorization spells its identifier and keeps its client, and
a thread past `CreateTree` holds a request that spells the identifier of a row there is.

Tree. `Exact` says of every reachable state: the root is the root of `Layers(leaves, made)`,
and where the number of leaves has bit k set, the stored hash of level k is that of the complete
subtree left of the next leaf's way up. It is stronger than `RootIsReference`, which speaks only
of states in which every hash is from the program. The tree is a function that recurs over the levels; that the
insertion climbs through exactly its nodes is an induction over the level, and so are the openings.
`tlapm` has no induction rule it can instantiate here, so `SetInduction` derives one from the least
number outside a set, and each statement about all levels is a set of levels. `BindsCorrect` says the root
binds every leaf, whatever program failed or was missing, under `HashesAreNoLeaves`: the pair that stands for a
hash is not itself one of the leaves, which is true of any set of leaves that is not made of
such pairs, as in the run.

Login. A thread past `FindTrees` holds trees of its client; one past `CheckRoot` has a row with its
root. `PassedCorrect` needs the lemma that a row among those a search of several trees calls
recent is in the window of its own tree, by a counting argument on row ids.

OIDC. For each code: unused codes have at most `refused` tokens and used ones at most one more.
`OneTimeAlone` says that when no other process writes (`MaxLocks = 0`) nothing is refused.

Payout. With `due` what the open run has still to process, `carried + paid + due = earned`
inside the transaction and, without `due`, at the last commit. `moved` against `paid` follows
the same split; `PaidWithoutDryRuns` drops `pretended` when `DryRun` has no TRUE. `PoolRespected` is
about the operator `SumFunction`, a sum in an order nobody knows, over any finite set of agents:
`SumOfSums`, `OneMore` and `SumBound` are proved by induction over subsets. With `RowsCounted`, the total a run reads
is the sum of what it reads for each agent unless a login came in between, and then
`pool * n / total`, rounded down or once more, cannot exceed the agent's part.

Watcher. `RetryIsSafe` needs the UNIQUE constraint of the row and nothing else: CHECK 5 and the
duplicate check could be left out. `OnlyMyAuthorizations` follows an authorization from the
relay through the channel and the call to the row, with CHECK 4 for whom it is for.

Proof server. `OneThread` says that a busy server has one working thread, one that is not busy
has none, a cancellation belongs to a job, and nothing is pending except in a call that holds
`mtx` for ever. The last part is what makes `Finish` unable to start a second job. With it each
step of the server is a step of `ProofJobs` or a stutter (`ServerIsProofJobs`). `HonestCorrect`
is about a call that takes no lock: `JobKnows` follows the last body from the file of its input and
the generator's to the proof, statement by statement of the thread, `Sound` is what `finish` and "success" stand for, and `CallKnows`
says which comparisons have failed. The point is that a status other than busy stands until the call
returns, since only a request starts a job and requests come one after the other; while it is
busy, the call may see any outcome of the job that ends meanwhile, and that outcome is sound.

Binary files. `StaysInFile` needs `ReaderInv`: found sections are records of numbers and the
position is a number while the table is read. The step that matters: an end that wrapped at 2^64 is
below the length only if the size was larger than the file, because no memory reaches 2^63.
`AcceptedCorrect` adds `Sound`: when the table is as written the loop stands at `HeadAt(file, k)`
before the k-th section, so it ends past the file exactly if a section is missing. `HeaderCorrect` is
about tables with a wrong size. `Exact` says, for each line of `loadHeader`, which numbers
have been read, which sections they came from, and that the position is where the writer put the next
field, as long as sections were found in place (`InTable`); `endReadSection` fails unless the
size of the section is what its fields take, so a damaged size of a section that was read cannot survive
the last line. Elsewhere `Exact` says nothing, and `HeaderExact` does not either: a size that moves
the position to where nobody wrote a header may lead to anything.

Prover. A thread between `Take` and `Store` is at a coefficient, owns the lock of its row and has
read what the cell still holds. That is kept because a cell has one lock, that of its row: the
mutant takes the lock of the signal instead. `NothingLost` follows, and would for chunks that
overlap. For `SumsCorrect` let `Done` be the coefficients behind the threads' positions: `SumsInv` says that
each cell is the sum, modulo the order, of the products of the coefficients of `Done` that belong to it. A
store adds one coefficient to `Done` that no thread has passed, since the chunks are disjoint, and
adds its product to one cell, since `fr.mul` twice takes a coefficient stored in Montgomery form twice
over to the plain product (`MontCorrect`). When all threads have ended `Done` is everything. Sums over a finite set
in an order nobody knows are handled as in the payout (`SumsExist`, `TotalStep`, `TotalRemove`).

Proof and verdict. Numbers are compared by `Same`, equal remainders, which sums, products and negatives
keep. `BlindingCorrect` expands `Assemble`: the two random numbers occur in plain and in Montgomery form, and
`Same` makes each product the plain one before the terms cancel. `VerdictInv` follows the control of
`groth16_verify`: before the pairing nothing but the refusals the code states has set a status, and
while pairs are taken they are those of the document, whatever its coordinates, and of `vk_x` (`VkXSame`: the
inputs lose their Montgomery form). `AccInv` says, if the points of the document have
logarithms, that the product so far is, after the final exponentiation, the generators' pairing to the sum
over the pairs passed; a pair with a zero adds nothing, hence `Skip` keeps it (`SkipAcc`). At the end
the sum of all is zero modulo the order exactly if the equation holds (`PairsEquation`). Finally `DecisionInv`
says which `ExpectedPi` the proof has been made from; `SumsInv` makes that independent of the threads, `BlindingCorrect`
of the random numbers, and `KeyDecides` turns the equation into "satisfies, equivalent, with its signals". What
is proved is the part the code adds to the mathematics of Groth16: locks, forms of numbers,
blinding, signs, zero pairs and refusals.

C interface. `Owned`: unless a load has failed in a loader without a name, the descriptors open for a
thread are exactly the one of its call. `OwnMapping`: unless an unset address was
unmapped, the mapping of a call exists and no other call has it; with `Exclusive`, the
contract of the interface that an object is used by one call at a time, `KeyStaysMapped` follows. The two
exceptions are flags that never fall back, so each theorem says what happened before if it
fails to hold. `SizesCorrect` is arithmetic over decimals of 77 digits: the fixed size of a proof is
enough for all, and the size a key asks for is enough for its public signals.

Induction. No step of a proof takes an operator as a parameter, so induction is stated for sets:
`SetInduction` for numbers and `SubsetInduction` for subsets of a finite set. It serves for functions that
recur over a number or a finite set, as in the tree, the section table and the sums.

Only model-checked, and why:

- `WitnessFollows`, `Settles`, `JobEnds`: liveness under fairness, for which the prover has no rule.
- `MillerExact`: a fact of one curve. It computes in towers of fields over a concrete
  prime, to a result that depends on the parameter; for other constants it is a theorem
  of algebraic geometry and no assumption on the constants short of the result gives it.
  The theorems on verdicts have it as a hypothesis in the open; `EquationChecked` and `ProofVerifies` are
  invariants of the run without one.

## 6. What is not modelled

Membership's reads of witnesses and roots, root publication (`roots.py`; publish and add raise
a `TypeError`, delete deletes no row), session and claims handlers, the demo server, agent identity
and storage, delegation and wallet, the relay policy and the offline tree tool are not
modelled; some of them are planned below. Of rapidsnark the logger only prints. The towers of
fields over the prime field, the groups, the FFT, the thread pool, Pistache and GMP are submodules
or libraries whose source is not there: they are modelled as external, by what the code uses of
them. The prime fields are in `native/rapidsnark/build`; of them the models have what an operation
returns, not its limbs. Of the C interface the
checks of NULL arguments, the error texts and the Windows loader are left out; of the verifier,
which part of a text could not be parsed: a proof is refused for its protocol, inputs for being
none or the wrong number, and a verification key for any reason (`readable`). The sizes of the sections of a key are compared
with neither `nVars` nor `domainSize` in the code, so nothing is said of reads past them by
the prover. The witness calculator is generated by circom, the circuit is arithmetic, the
language SDKs are wrappers, and scripts, tests and documentation have no state. `PROJECT.json`
lists each with its reason, and lists the hazards of the code with the properties
that cover them.

## 7. The plan

The order is by what the system stands on: enrollment and its tree first, then login that
relies on them, then what is derived from logins (tokens, money), then the agent, then the
prover it calls and the server around it. Done: all of section 2.

Next modules:

1. `SharedConnection`: the transaction mode of `OidcCodes` for all writing handlers, with
   `execute` and `commit` apart, under enrollment; abstract specification: autocommitted
   statements. Runs: what a commit of one thread does to the other's statements, 2 threads.
2. `WitnessLookup`: membership's witness and validate-root endpoints, where a normalised
   commitment is compared with the one stored as sent.
3. `KeyRotation`: key id and private key as two reads in login and OIDC.
4. `AgentStorage`: identity and its files with a crash between any two writes.
5. `WalletRenewal` and `DemoGates`: renewal of a subscription and the order of the demo's gates.
6. A comparison of `tools/sbm-tree`, which hashes its padding, with `MerkleTree`.

Each is to come with its type and safety theorems. Of the modules there are, every invariant that is not
about one curve is a theorem.
