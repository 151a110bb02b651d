------------------------------ MODULE BinFile -------------------------------
(***************************************************************************)
(* One object of class BinFileUtils::BinFile                               *)
(* (native/rapidsnark/src/binfile_utils.cpp) from its constructor to the   *)
(* last pointer its owner takes from it: the section table is read, then   *)
(* the header by ZKeyUtils::loadHeader or WtnsUtils::loadHeader, then the  *)
(* sections the prover works on.  An exception ends the object.            *)
(*                                                                         *)
(* A file is what a writer (snarkjs, the witness generator) put down and   *)
(* what became of it: sizes in the table may be damaged and the file may   *)
(* be cut short.  Where the reader has lost its place it finds any number. *)
(***************************************************************************)
EXTENDS Naturals, Sequences

CONSTANTS
  Files,       \* the files the object may be opened on
  Garbage,     \* numbers read where no number was written
  Lost,        \* ids and sizes read where no header of a section was written
  Word,        \* 2^32, scaled
  Width        \* 2^64, scaled

(* A section: its id, the size in the table, the bytes of its payload. *)
Section == [id : Nat, size : Nat, len : Nat]
HeaderSize == 12

(* Where the writer put the header of section k, after the ones before it. *)
HeadAt(f, k) ==
  LET at[i \in 1 .. k] == IF i = 1 THEN HeaderSize ELSE at[i - 1] + 12 + f.sections[i - 1].len
  IN  at[k]

(* The fields of a header, and the bytes its writer needs for them in the  *)
(* section of this id: words, primes and points.  The coefficients follow  *)
(* a word with their number.                                               *)
Fields(type) ==
  IF type = "zkey"
  THEN {"protocol", "n8q", "n8r", "nVars", "nPublic", "domainSize", "nCoefs"}
  ELSE {"n8", "nVars"}
Sized(f, id, len) ==
  LET n == f.number IN
  /\ f.type = "zkey" /\ id = 1 => len = 4
  /\ f.type = "zkey" /\ id = 2 => len = 20 + 19 * n["n8q"] + n["n8r"]
  /\ f.type = "zkey" /\ id = 4 => len = 4 + n["nCoefs"] * (12 + n["n8r"])
  /\ f.type = "wtns" /\ id = 1 => len = 8 + n["n8"]

(* The table of a file gives nSections, the file holds length bytes; number *)
(* gives what was written for each field of the header.                     *)
ASSUME FilesAssumption ==
  /\ Word \in Nat \ {0} /\ Width \in Nat \ {0}
  /\ Garbage \subseteq Nat
  /\ Lost \subseteq [id : Nat, size : Nat]
  /\ \A f \in Files :
       /\ f.nSections \in Nat /\ f.length \in Nat /\ f.version \in Nat
       /\ f.sections \in Seq(Section)
       /\ \A n \in DOMAIN f.number : f.number[n] \in Nat
       \* memory ends below 2^64, and no header of a section crosses its end
       /\ 2 * (f.length + HeaderSize) < Width
       \* so did the file when it was written
       /\ HeadAt(f, Len(f.sections) + 1) < Width

(* What writers put down: every field, sizes of elements of a few bytes, and *)
(* sections of the length their fields take.                                 *)
ASSUME LayoutAssumption ==
  \A f \in Files :
    /\ f.type \in {"zkey", "wtns"} => Fields(f.type) \subseteq DOMAIN f.number
    /\ f.type = "zkey" => 4 * f.number["n8q"] < Word /\ 12 + f.number["n8r"] < Word
    /\ f.type = "wtns" => f.number["n8"] < Word
    /\ \A k \in 1 .. Len(f.sections) : Sized(f, f.sections[k].id, f.sections[k].len)

VARIABLES
  file,
  as,        \* the type the owner opens it as
  step,      \* what the object does next
  pos,       \* BinFile::pos
  found,     \* the sections found, in their order: the map `sections`
  reading,   \* readingSection, an index of found; 0: nullptr
  line,      \* the next operation of loadHeader
  header,    \* the Header filled so far
  access     \* the bytes last read through addr: from, to

vars == <<file, as, step, pos, found, reading, line, header, access>>

Found == [id : Nat, start : Nat, size : Nat]

TypeOK ==
  /\ file \in Files
  /\ as \in {"zkey", "wtns"}
  /\ step \in {"open", "table", "header", "sections", "done",
               "range_error", "invalid_argument", "SIGFPE"}
  /\ pos \in Nat
  /\ found \in Seq(Found)
  /\ reading \in 0 .. Len(found)
  /\ line \in Nat
  /\ access \in [from : Nat, to : Nat]

Init ==
  /\ file \in Files
  /\ as \in {"zkey", "wtns"}
  /\ step = "open"
  /\ pos = 0
  /\ found = <<>>
  /\ reading = 0
  /\ line = 1
  /\ header = <<>>
  /\ access = [from |-> 0, to |-> 0]

Throw(exception) ==
  /\ step' = exception
  /\ UNCHANGED <<file, as, pos, found, reading, line, header, access>>

Read(from, to) == access' = [from |-> from, to |-> to]

-----------------------------------------------------------------------------
(* What the owners pass: Groth16Prover, FullProver and the job of a prover. *)
MaxVersion == IF as = "zkey" THEN 1 ELSE 2
Needed == IF as = "zkey" THEN 4 .. 9 ELSE {2}

(* The constructors and readFileData.  Type, version and number of sections *)
(* are the first 12 bytes.                                                  *)
TableFits == file.length >= HeaderSize + file.nSections * 12

OpenFile ==
  /\ step = "open"
  /\ \/ file.length < HeaderSize /\ Throw("range_error")
     \/ /\ file.length >= HeaderSize
        /\ file.type # as \/ file.version > MaxVersion
        /\ Throw("invalid_argument")
     \/ /\ file.length >= HeaderSize
        /\ file.type = as /\ file.version <= MaxVersion
        /\ ~TableFits
        /\ Throw("range_error")
     \/ /\ file.length >= HeaderSize
        /\ file.type = as /\ file.version <= MaxVersion
        /\ TableFits
        /\ step' = "table"
        /\ pos' = HeaderSize
        /\ Read(0, HeaderSize)
        /\ UNCHANGED <<file, as, found, reading, line, header>>

(* The section whose header or whose payload was written at p; 0: none. *)
Written(p, of) == {k \in 1 .. Len(file.sections) : HeadAt(file, k) + of = p}

(* readU32LE and readU64LE at pos: an id and a size. *)
TableEntries ==
  IF Written(pos, 0) # {}
  THEN {[id |-> file.sections[k].id, size |-> file.sections[k].size] : k \in Written(pos, 0)}
  ELSE Lost

(* One round of the loop over the sections, which allows the end of a    *)
(* section to be the position limit allows.                              *)
Round(limit) ==
  /\ step = "table"
  /\ Len(found) < file.nSections
  /\ \/ pos + 12 > file.length /\ Throw("range_error")
     \/ /\ pos + 12 <= file.length
        /\ \E e \in TableEntries :
             LET end == (pos + 12 + e.size) % Width IN
             \/ end > limit /\ Throw("range_error")
             \/ /\ end <= limit
                /\ found' = Append(found, [id |-> e.id, start |-> pos + 12, size |-> e.size])
                /\ pos' = end
                /\ Read(pos, pos + 12)
                /\ UNCHANGED <<file, as, step, reading, line, header>>

(* Mutants: the end of a section is not checked; the last byte is refused. *)
ReadTableUnchecked == Round(Width)
ReadTableShort == Round(file.length - 1)

ReadTable == Round(file.length)

TableRead ==
  /\ step = "table"
  /\ Len(found) = file.nSections
  /\ step' = "header"
  /\ pos' = 0
  /\ UNCHANGED <<file, as, found, reading, line, header, access>>

-----------------------------------------------------------------------------
(* loadHeader, as the list of its calls.  A pointer into the file is of size *)
(* times a field; times 0 stands for a number of 4 bytes.                    *)
Start(id) == [call |-> "start", name |-> "", times |-> 0, size |-> "", id |-> id]
Number(name) == [call |-> "number", name |-> name, times |-> 0, size |-> "", id |-> 0]
Pointer(name, times, size) ==
  [call |-> "pointer", name |-> name, times |-> times, size |-> size, id |-> 0]
EndRead == [call |-> "end", name |-> "", times |-> 0, size |-> "", id |-> 0]

ZkeyHeader ==
  << Start(1), Number("protocol"), EndRead,
     Start(2), Number("n8q"), Pointer("qPrime", 1, "n8q"), Number("n8r"), Pointer("rPrime", 1, "n8r"),
     Number("nVars"), Number("nPublic"), Number("domainSize"),
     Pointer("vk_alpha1", 2, "n8q"), Pointer("vk_beta1", 2, "n8q"), Pointer("vk_beta2", 4, "n8q"),
     Pointer("vk_gamma2", 4, "n8q"), Pointer("vk_delta1", 2, "n8q"), Pointer("vk_delta2", 4, "n8q"),
     EndRead >>

WtnsHeader ==
  << Start(1), Number("n8"), Pointer("prime", 1, "n8"), Number("nVars"), EndRead >>

LoadHeader == IF as = "zkey" THEN ZkeyHeader ELSE WtnsHeader

Call(name) == step = "header" /\ line <= Len(LoadHeader) /\ LoadHeader[line].call = name
Ids == {found[k].id : k \in DOMAIN found}
First(id) == CHOOSE k \in DOMAIN found :
               found[k].id = id /\ \A j \in DOMAIN found : found[j].id = id => k <= j

(* startReadSection(id); only the first section of an id is ever asked for. *)
StartReadSection ==
  LET id == LoadHeader[line].id IN
  /\ Call("start")
  /\ \/ id \notin Ids /\ Throw("range_error")
     \/ /\ id \in Ids
        /\ reading' = First(id)
        /\ pos' = found[First(id)].start
        /\ line' = line + 1
        /\ UNCHANGED <<file, as, step, found, header, access>>

(* readU32LE into a field; loadHeader refuses another protocol at once. *)
FieldValues(name) ==
  IF \E k \in Written(found[reading].start, 12) : pos + 4 <= found[reading].start + file.sections[k].len
  THEN {file.number[name]}
  ELSE Garbage

ReadNumber ==
  LET name == LoadHeader[line].name IN
  /\ Call("number")
  /\ \/ pos + 4 > file.length /\ Throw("range_error")
     \/ /\ pos + 4 <= file.length
        /\ \E v \in FieldValues(name) :
             \/ name = "protocol" /\ v # 1 /\ Throw("invalid_argument")
             \/ /\ ~(name = "protocol" /\ v # 1)
                /\ header' = [n \in DOMAIN header \cup {name} |-> IF n = name THEN v ELSE header[n]]
                /\ pos' = pos + 4
                /\ Read(pos, pos + 4)
                /\ line' = line + 1
                /\ UNCHANGED <<file, as, step, found, reading>>

(* read(len): the length is a product of 32 bits. *)
ReadPointer ==
  LET op == LoadHeader[line]
      len == (header[op.size] * op.times) % Word IN
  /\ Call("pointer")
  /\ \/ pos + len > file.length /\ Throw("range_error")
     \/ /\ pos + len <= file.length
        /\ header' = [n \in DOMAIN header \cup {op.name} |-> IF n = op.name THEN pos ELSE header[n]]
        /\ pos' = pos + len
        /\ Read(pos, pos + len)
        /\ line' = line + 1
        /\ UNCHANGED <<file, as, step, found, reading>>

(* endReadSection, which wants the section read to its last byte. *)
EndSection(whole) ==
  /\ Call("end")
  /\ \/ ~whole /\ Throw("range_error")
     \/ /\ whole
        /\ reading' = 0
        /\ line' = line + 1
        /\ UNCHANGED <<file, as, step, pos, found, header, access>>

(* A mutant: the size is not checked. *)
EndReadSectionUnchecked == EndSection(TRUE)

EndReadSection == EndSection(pos = found[reading].start + found[reading].size)

-----------------------------------------------------------------------------
(* The number of coefficients loadHeader takes from the size of section 4:  *)
(* each is three words and a field element, after a word with their number; *)
(* the size of one is a sum of 32 bits.  A division by a sum that wrapped   *)
(* to 0 ends the process, or has the result 0 where the processor says so.  *)
CoefSize == (12 + header["n8r"]) % Word

NumberOfCoefs == IF CoefSize = 0 THEN 0 ELSE found[First(4)].size \div CoefSize

HeaderRead ==
  /\ step = "header"
  /\ line > Len(LoadHeader)
  /\ \/ as = "zkey" /\ 4 \notin Ids /\ Throw("range_error")
     \/ as = "zkey" /\ 4 \in Ids /\ CoefSize = 0 /\ Throw("SIGFPE")
     \/ /\ as = "zkey" => 4 \in Ids
        /\ step' = "sections"
        /\ header' = IF as = "zkey"
                     THEN [n \in DOMAIN header \cup {"nCoefs"} |->
                             IF n = "nCoefs" THEN NumberOfCoefs ELSE header[n]]
                     ELSE header
        /\ UNCHANGED <<file, as, pos, found, reading, line, access>>

(* The owner takes pointers with getSectionData. *)
GetSectionData ==
  /\ step = "sections"
  /\ \/ ~(Needed \subseteq Ids) /\ Throw("range_error")
     \/ /\ Needed \subseteq Ids
        /\ step' = "done"
        /\ UNCHANGED <<file, as, pos, found, reading, line, header, access>>

Next ==
  \/ OpenFile \/ ReadTable \/ TableRead
  \/ StartReadSection \/ ReadNumber \/ ReadPointer \/ EndReadSection
  \/ HeaderRead \/ GetSectionData

Spec == Init /\ [][Next]_vars

-----------------------------------------------------------------------------
TableAccepted == step \in {"header", "sections", "done"}

(* Nothing outside the file is read, and a section the reader accepts ends *)
(* inside it, unless a size in the table is so large that the position     *)
(* wraps at 2^64 (binfile_utils.cpp:65).                                   *)
WithinFile ==
  /\ access.to <= file.length
  /\ \A k \in DOMAIN found :
       found[k].size <= file.length => found[k].start + found[k].size <= file.length

(* The reference for the loop of readFileData (binfile_utils.cpp:55): a file *)
(* whose table is as written is accepted if and only if it has the type, a   *)
(* version and all the bytes of the sections it announces.                   *)
AsWritten(f) ==
  /\ f.nSections <= Len(f.sections)
  /\ \A k \in 1 .. Len(f.sections) : f.sections[k].size = f.sections[k].len

Whole(f) ==
  /\ f.type = as /\ f.version <= MaxVersion
  /\ f.length >= HeadAt(f, f.nSections + 1)

TableRefused ==
  /\ step \in {"range_error", "invalid_argument"}
  /\ access.to = 0 \/ Len(found) < file.nSections

AcceptedIffWhole ==
  AsWritten(file) =>
    /\ TableAccepted => Whole(file)
    /\ TableRefused => ~Whole(file)

(* A header that was loaded is the one that was written, and the number of   *)
(* coefficients is the one in the file (zkey_utils.cpp:50), whatever size in *)
(* the table is damaged, as long as the table itself was read in its place:  *)
(* a damaged size of a section the header is read from does not go unseen.   *)
HeaderExact ==
  step = "done" /\ (\A k \in DOMAIN found : Written(found[k].start, 12) # {}) =>
    /\ \A j \in DOMAIN LoadHeader :
         LET op == LoadHeader[j] IN
         /\ op.call = "number" => header[op.name] = file.number[op.name]
         /\ op.call = "start" =>
              \A k \in Written(found[First(op.id)].start, 12) :
                found[First(op.id)].size = file.sections[k].len
    /\ as = "zkey" =>
         \A k \in Written(found[First(4)].start, 12) :
           found[First(4)].size = file.sections[k].len => header["nCoefs"] = file.number["nCoefs"]
=============================================================================
