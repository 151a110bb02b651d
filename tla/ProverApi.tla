------------------------------ MODULE ProverApi -----------------------------
(***************************************************************************)
(* The C interface of the prover (native/rapidsnark/src/prover.cpp) and  *)
(* the FileLoader it maps keys with (fileloader.cpp, the POSIX half), as *)
(* used by threads of one process that also opens files of its own: the  *)
(* SDK calls it from the threads of an app.                              *)
(*                                                                       *)
(* A call is its system calls and, between them, its work.  Descriptors  *)
(* are numbers the kernel gives out again, the lowest free one first;    *)
(* memory is the buffers of the callers, which stay, and the mappings of *)
(* files, which go when they are unmapped.                               *)
(***************************************************************************)
EXTENDS Integers, FiniteSets

CONSTANTS
  Thread,
  Descriptor,   \* numbers of descriptors; the process may run out of them
  Region,       \* bound of the model: mappings at a time
  Handle,       \* bound of the model: prover objects at a time
  Zkey,         \* keys: exists, empty, sound, nVars, nPublic
  Witness,      \* witnesses: sound, nVars, digits of each value
  Digits,       \* decimal digits of a coordinate
  MaxCalls,     \* bound of the model: calls
  Other         \* the rest of the process

None == -1

ASSUME ConstantsAssumption ==
  /\ Descriptor \subseteq Nat /\ Region \subseteq Nat
  /\ IsFiniteSet(Descriptor) /\ IsFiniteSet(Region)
  /\ Digits \subseteq 1 .. 77
  /\ \A z \in Zkey : z.nVars \in Nat /\ z.nPublic \in Nat
  /\ \A w \in Witness : w.nVars \in Nat /\ w.digits \in 1 .. 77
  /\ MaxCalls \in Nat
  /\ Other \notin Thread /\ None \notin Thread /\ Other # None

VARIABLES
  opener,      \* opener[d]: who opened descriptor d
  live,       \* the mappings that exist
  provers,    \* provers[h]: the object, or its absence
  at,         \* at[t]: where thread t is in its call
  call,       \* call[t]: the call
  fd, addr,   \* the FileLoader of the call
  result,     \* result[t]: what the last call gave back
  calls,
  loadFailed, \* a load failed after open, in a loader that was made without a file
  wild,       \* an address nobody initialised was unmapped
  stolen,     \* a descriptor was closed by one who had not opened it
  strays      \* reads of memory that was no longer mapped

apiVars == <<opener, live, provers, at, call, fd, addr, result, calls, loadFailed, wild, stolen, strays>>
memory == <<live, provers, strays>>
history == <<calls, loadFailed, wild, stolen>>

NoObject == [exists |-> FALSE]

-----------------------------------------------------------------------------
(* Sizes, with the byte that ends a string. *)
ProofBufferMinSize == 810

(* A mutant: a signal is allowed two bytes less. *)
PublicBufferShort(count) == count * 79 + 4

PublicBufferMinSize(count) == count * 82 + 4

(* BuildPublicString and toJson: what dump() makes of the decimals. *)
PublicLength(n, digits) == IF n = 0 THEN 4 ELSE n * (digits + 3) + 1
ProofLength(digits) == 95 + 8 * digits

-----------------------------------------------------------------------------
FileCalls == {"size_file", "create_file", "prove_file"}
BufferCalls == {"size_buffer", "create_buffer", "prove_buffer", "prove_object", "destroy"}

(* The form of loader whose destructor runs although load has thrown: one *)
(* made without a file name.  The other is a member of a BinFile whose    *)
(* constructor did not finish.                                            *)
MadeWithoutFile(t) == call[t].fn \in {"create_file", "prove_file"}

NoBytes == [proof |-> 0, public |-> 0]
NoResult == [code |-> "OK", zkey |-> NoObject, witness |-> NoObject, given |-> NoBytes,
             sizes |-> NoBytes, written |-> NoBytes, retry |-> FALSE]

ApiInit ==
  /\ opener = [d \in Descriptor |-> None]
  /\ live = {}
  /\ provers = [h \in Handle |-> NoObject]
  /\ at = [t \in Thread |-> "idle"]
  /\ call = [t \in Thread |-> NoObject]
  /\ fd = [t \in Thread |-> None]
  /\ addr = [t \in Thread |-> None]
  /\ result = [t \in Thread |-> NoResult]
  /\ calls = 0
  /\ loadFailed = FALSE /\ wild = FALSE /\ stolen = FALSE
  /\ strays = {}

Free == {d \in Descriptor : opener[d] = None}
Lowest(S) == CHOOSE d \in S : \A e \in S : d <= e

(* The sizes a caller passes: those a size call gives, those the last call *)
(* asked for, or none.                                                     *)
Given(t, z) ==
  {NoBytes, [proof |-> ProofBufferMinSize, public |-> PublicBufferMinSize(z.nPublic)], result[t].sizes}

(* Callers keep their buffers and do not destroy an object in use. *)
InUse(h) == \E t \in Thread : call[t] # NoObject /\ call[t].prover = h

Calls(t) ==
  [fn : {"size_file", "size_buffer", "create_file", "create_buffer"}, zkey : Zkey,
   witness : {NoObject}, given : {NoBytes}, prover : {None}]
  \cup (UNION {[fn : {"prove_file", "prove_buffer"}, zkey : {z}, witness : Witness,
                given : Given(t, z), prover : {None}] : z \in Zkey})
  \cup (UNION {[fn : {"prove_object"}, zkey : {provers[h].zkey}, witness : Witness,
                given : Given(t, provers[h].zkey), prover : {h}] :
                  h \in {o \in Handle : provers[o].exists /\ ~InUse(o)}})
  \cup {[fn |-> "destroy", zkey |-> provers[h].zkey, witness |-> NoObject, given |-> NoBytes,
          prover |-> h] :
          h \in {o \in Handle : provers[o].exists /\ ~InUse(o)}}

BeginCall(t) ==
  /\ at[t] = "idle"
  /\ calls < MaxCalls
  /\ calls' = calls + 1
  /\ \E c \in Calls(t) :
       /\ call' = [call EXCEPT ![t] = c]
       /\ at' = [at EXCEPT ![t] = IF c.fn \in FileCalls THEN "open" ELSE "work"]
  /\ UNCHANGED <<opener, fd, addr, result, memory, loadFailed, wild, stolen>>

(* The call returns to its caller, and its frame is gone. *)
Return(t) ==
  /\ at' = [at EXCEPT ![t] = "idle"]
  /\ call' = [call EXCEPT ![t] = NoObject]
  /\ fd' = [fd EXCEPT ![t] = None]
  /\ addr' = [addr EXCEPT ![t] = None]

(* What the caller finds: the code, with its sizes as they were. *)
Code(t, code) ==
  result' = [result EXCEPT ![t] = [NoResult EXCEPT !.code = code, !.sizes = call[t].given]]

-----------------------------------------------------------------------------
(* FileLoader::load: open. *)
Open(t) ==
  /\ at[t] = "open"
  /\ \/ /\ ~call[t].zkey.exists \/ Free = {}
        /\ Code(t, "ERROR")
        /\ Return(t)
        /\ UNCHANGED opener
     \/ /\ call[t].zkey.exists /\ Free # {}
        /\ opener' = [opener EXCEPT ![Lowest(Free)] = t]
        /\ fd' = [fd EXCEPT ![t] = Lowest(Free)]
        /\ at' = [at EXCEPT ![t] = "map"]
        /\ UNCHANGED <<call, addr, result>>
  /\ UNCHANGED <<memory, history>>

(* close(d) by thread t. *)
Close(t, d) ==
  /\ opener' = [opener EXCEPT ![d] = None]
  /\ stolen' = (stolen \/ opener[d] \notin {None, t})

(* fstat or mmap fails; mmap does for an empty file.  load closes the       *)
(* descriptor and keeps its number.  Where the destructor runs nonetheless, *)
(* addr is MAP_FAILED, or has never been set when fstat failed.             *)
LoadFails(t) ==
  /\ at[t] = "map"
  /\ Close(t, fd[t])
  /\ Code(t, "ERROR")
  /\ \/ /\ ~MadeWithoutFile(t)
        /\ Return(t)
        /\ UNCHANGED <<loadFailed, wild>>
     \/ /\ MadeWithoutFile(t)
        /\ at' = [at EXCEPT ![t] = "unload"]
        /\ loadFailed' = TRUE
        /\ \E a \in {None} \cup live : addr' = [addr EXCEPT ![t] = a]
        /\ wild' = (wild \/ addr'[t] # None)
        /\ UNCHANGED <<call, fd>>
  /\ UNCHANGED <<memory, calls>>

(* A mutant: the loader lives only in the block that calls load. *)
MapInBlock(t) ==
  /\ at[t] = "map"
  /\ ~call[t].zkey.empty
  /\ Region \ live # {}
  /\ addr' = [addr EXCEPT ![t] = Lowest(Region \ live)]
  /\ at' = [at EXCEPT ![t] = "work"]
  /\ UNCHANGED <<opener, call, fd, result, memory, history>>

Map(t) ==
  LET r == Lowest(Region \ live) IN
  /\ at[t] = "map"
  /\ ~call[t].zkey.empty
  /\ Region \ live # {}
  /\ live' = live \cup {r}
  /\ addr' = [addr EXCEPT ![t] = r]
  /\ at' = [at EXCEPT ![t] = "work"]
  /\ UNCHANGED <<opener, provers, call, fd, result, strays, history>>

(* A mutant: the destructor forgets the descriptor. *)
UnloadOpen(t) ==
  /\ at[t] = "unload"
  /\ live' = live \ {addr[t]}
  /\ Return(t)
  /\ UNCHANGED <<opener, provers, result, strays, history>>

(* ~FileLoader: what it unmaps and closes may by now be somebody else's. *)
Unload(t) ==
  /\ at[t] = "unload"
  /\ live' = live \ {addr[t]}
  /\ Close(t, fd[t])
  /\ Return(t)
  /\ UNCHANGED <<provers, result, calls, loadFailed, wild, strays>>

-----------------------------------------------------------------------------
(* The work of a call, once the key is in memory. *)
Mapped(t) == call[t].fn \in FileCalls

(* A stray read, by who made the memory go. *)
Reads(t, from, kind) == strays' = IF from = None \/ from \in live THEN strays ELSE strays \cup {kind}

After(t) ==
  IF Mapped(t) THEN at' = [at EXCEPT ![t] = "unload"] /\ UNCHANGED <<call, fd, addr>>
               ELSE Return(t)

(* groth16_public_size_for_zkey_buf and ..._file, and groth16_proof_size: *)
(* a key that is unsound only in its prime has its sizes, too.            *)
PublicSize(t) ==
  LET z == call[t].zkey IN
  /\ at[t] = "work"
  /\ call[t].fn \in {"size_file", "size_buffer"}
  /\ \/ ~z.sound /\ Code(t, "ERROR")
     \/ /\ ~z.empty
        /\ result' = [result EXCEPT ![t] =
             [NoResult EXCEPT !.sizes = [proof |-> ProofBufferMinSize,
                                         public |-> PublicBufferMinSize(z.nPublic)]]]
  /\ Reads(t, addr[t], "key")
  /\ After(t)
  /\ UNCHANGED <<opener, live, provers, history>>

(* The constructor of Groth16Prover: the object points into the key. *)
Made(t) ==
  [exists |-> TRUE, zkey |-> call[t].zkey,
   key |-> IF Mapped(t) THEN addr[t] ELSE None, file |-> Mapped(t)]

(* groth16_prover_create and ..._zkey_file. *)
Create(t) ==
  /\ at[t] = "work"
  /\ call[t].fn \in {"create_file", "create_buffer"}
  /\ \/ /\ ~call[t].zkey.sound
        /\ Code(t, "ERROR")
        /\ UNCHANGED provers
     \/ /\ call[t].zkey.sound
        /\ Code(t, "OK")
        /\ \E h \in Handle :
             /\ ~provers[h].exists
             /\ provers' = [provers EXCEPT ![h] = Made(t)]
  /\ Reads(t, addr[t], "key")
  /\ After(t)
  /\ UNCHANGED <<opener, live, history>>

Fits(given, size) == given.proof >= size.proof /\ given.public >= size.public

(* The memory a proof reads the key from: that of its object, or of the    *)
(* object groth16_prover and ..._zkey_file create and destroy around it.   *)
ProverOf(t) == IF call[t].fn = "prove_object" THEN provers[call[t].prover] ELSE Made(t)

(* What Groth16Prover::prove may throw: a witness that is not sound may be *)
(* so in its format, before its length is compared, or only in its prime.  *)
Refusals(z, w) ==
  (IF ~w.sound THEN {"ERROR"} ELSE {})
    \cup (IF z.nVars # w.nVars THEN {"INVALID_WITNESS_LENGTH"} ELSE {})

(* A call with the buffers the one before asked for, which were too short. *)
Retries(before, z, w, g) ==
  before.code = "SHORT_BUFFER" /\ before.zkey = z /\ before.witness = w /\ before.sizes = g

(* groth16_prover_prove.  A proof is different each time: it is blinded *)
(* with random numbers.                                                 *)
Prove(t) ==
  LET z == call[t].zkey  w == call[t].witness  g == call[t].given
      p == ProverOf(t) IN
  /\ at[t] = "work"
  /\ call[t].fn \in {"prove_file", "prove_buffer", "prove_object"}
  /\ \/ ~z.sound /\ Code(t, "ERROR")
     \/ z.sound /\ \E refusal \in Refusals(z, w) : Code(t, refusal)
     \/ /\ z.sound /\ Refusals(z, w) = {}
        /\ \E d \in Digits :
             LET length == [proof |-> ProofLength(d), public |-> PublicLength(z.nPublic, w.digits)]
                 required == [proof |-> length.proof + 1, public |-> length.public + 1] IN
             result' = [result EXCEPT ![t] =
               [zkey |-> z, witness |-> w, given |-> g,
                code |-> IF Fits(g, required) THEN "OK" ELSE "SHORT_BUFFER",
                sizes |-> IF Fits(g, required) THEN length ELSE required,
                written |-> IF Fits(g, required) THEN required ELSE NoBytes,
                retry |-> Retries(result[t], z, w, g)]]
  /\ Reads(t, p.key, IF p.file /\ ~Mapped(t) THEN "object of a file" ELSE "key")
  /\ After(t)
  /\ UNCHANGED <<opener, live, provers, history>>

Destroy(t) ==
  /\ at[t] = "work"
  /\ call[t].fn = "destroy"
  /\ provers' = [provers EXCEPT ![call[t].prover] = NoObject]
  /\ Code(t, "OK")
  /\ After(t)
  /\ UNCHANGED <<opener, live, strays, history>>

-----------------------------------------------------------------------------
(* The rest of the process opens and closes a file of its own. *)
OtherOpens ==
  /\ Free # {}
  /\ \A d \in Descriptor : opener[d] # Other
  /\ opener' = [opener EXCEPT ![Lowest(Free)] = Other]
  /\ UNCHANGED <<at, call, fd, addr, result, memory, history>>

OtherCloses ==
  /\ \E d \in Descriptor :
       /\ opener[d] = Other
       /\ opener' = [opener EXCEPT ![d] = None]
  /\ UNCHANGED <<at, call, fd, addr, result, memory, history>>

Step(t) ==
  \/ BeginCall(t) \/ Open(t) \/ LoadFails(t) \/ Map(t) \/ Unload(t)
  \/ PublicSize(t) \/ Create(t) \/ Prove(t) \/ Destroy(t)

ApiNext == (\E t \in Thread : Step(t)) \/ OtherOpens \/ OtherCloses

ApiSpec == ApiInit /\ [][ApiNext]_apiVars

-----------------------------------------------------------------------------
(* No call closes a descriptor of somebody else, and none is left open when  *)
(* no call runs, unless a load failed in a loader made without a file name:  *)
(* its destructor closes the number a second time (fileloader.cpp:136, 156). *)
DescriptorsOwned ==
  ~loadFailed =>
    /\ ~stolen
    /\ \A d \in Descriptor : opener[d] \in Thread => at[opener[d]] \in {"map", "work", "unload"}

(* The key is in memory whenever it is read, by whatever threads call what,  *)
(* but for an object made from a file, whose mapping is gone before the call *)
(* that makes it returns (prover.cpp:264), and for the process in which an   *)
(* address nobody had set was unmapped.                                      *)
KeyStaysMapped == wild \/ strays \subseteq {"object of a file"}

(* Nothing is written past a buffer, and the sizes handed out are enough:   *)
(* those of the size calls if there is a public signal, and for the public  *)
(* signals also those a call that found its buffers short asked for, if the *)
(* next one is for the same witness (prover.cpp:359).  For the proof they   *)
(* may be short again: the next proof is another one.                       *)
SizesSuffice ==
  \A t \in Thread :
    LET r == result[t] IN
    /\ r.written.proof <= r.given.proof /\ r.written.public <= r.given.public
    /\ r.code = "SHORT_BUFFER" =>
         /\ r.zkey.nPublic > 0 =>
              ~Fits(r.given, [proof |-> ProofBufferMinSize,
                              public |-> PublicBufferMinSize(r.zkey.nPublic)])
         /\ r.retry => r.given.public >= r.sizes.public /\ r.given.proof < r.sizes.proof
=============================================================================
