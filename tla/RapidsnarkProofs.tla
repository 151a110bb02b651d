-------------------------- MODULE RapidsnarkProofs --------------------------
(***************************************************************************)
(* The theorems about the edges of the prover, native/rapidsnark: its      *)
(* reader of binary files, and its C interface with the loader of files.   *)
(* Each is a system of its own; nothing in one is used in the proofs of    *)
(* the other but the lemma about least numbers.  The proof it computes is  *)
(* in Groth16Proofs.                                                       *)
(***************************************************************************)
EXTENDS BinFile, ProverApi, FiniteSetTheorems, WellFoundedInduction, TLAPS

(* Induction over a set of numbers.                                        *)
LEMMA Least ==
  ASSUME NEW S \in SUBSET Nat, S # {}
  PROVE  \E m \in S : \A k \in S : m <= k
<1>1. PICK m \in S : \A k \in S : <<k, m>> \notin OpToRel(<, Nat)
  BY NatLessThanWellFounded, WFMin, Zenon
<1>2. \A k \in S : ~(k < m)
  BY <1>1, Zenon DEF OpToRel
<1> QED BY <1>2

LEMMA SetInduction ==
  ASSUME NEW S, 0 \in S, \A n \in Nat : n \in S => n + 1 \in S
  PROVE  Nat \subseteq S
<1> SUFFICES ASSUME Nat \ S # {} PROVE FALSE
  OBVIOUS
<1>1. PICK m \in Nat \ S : \A k \in Nat \ S : m <= k
  BY Least
<1>2. m # 0 /\ m - 1 \in Nat /\ m - 1 \in S
  BY <1>1
<1> QED BY <1>1, <1>2

-----------------------------------------------------------------------------
(* The reader of binary files. *)
Inside(s) == s.size <= file.length => s.start + s.size <= file.length

(* WithinFile, and what it needs: while the table is read the position is *)
(* a number, and the sections found are records.                          *)
ReaderInv ==
  /\ file \in Files
  /\ step \in {"open", "table"} => pos \in Nat
  /\ found \in Seq(Found)
  /\ WithinFile

LEMMA FileType ==
  ASSUME NEW f \in Files
  PROVE  /\ f.length \in Nat /\ f.nSections \in Nat
         /\ \A k \in 1 .. Len(f.sections) : f.sections[k] \in Section
         /\ 2 * (f.length + HeaderSize) < Width
<1>1. f.sections \in Seq(Section)
  BY FilesAssumption
<1>2. \A k \in 1 .. Len(f.sections) : f.sections[k] \in Section
  BY <1>1
<1> QED BY <1>2, FilesAssumption

LEMMA SmallModulo == ASSUME NEW x \in Nat, NEW w \in Nat, x < w PROVE x % w = x
  OBVIOUS

LEMMA ReaderInit == Init => ReaderInv
<1> SUFFICES ASSUME Init PROVE ReaderInv
  OBVIOUS
<1>1. file \in Files /\ pos \in Nat /\ found = << >> /\ access.to = 0
  BY DEF Init
<1>2. file.length \in Nat
  BY <1>1, FileType
<1> QED BY <1>1, <1>2 DEF ReaderInv, WithinFile

(* Entries of the table are numbers, wherever they are read. *)
LEMMA EntryType ==
  ASSUME file \in Files, NEW e \in TableEntries PROVE e.id \in Nat /\ e.size \in Nat
<1>1. CASE Written(pos, 0) # {}
  <2>1. PICK k \in Written(pos, 0) : e = [id |-> file.sections[k].id, size |-> file.sections[k].size]
    BY <1>1 DEF TableEntries
  <2>2. file.sections[k] \in Section
    BY <2>1, FileType DEF Written
  <2> QED BY <2>1, <2>2 DEF Section
<1>2. CASE Written(pos, 0) = {}
  <2>1. e \in Lost
    BY <1>2 DEF TableEntries
  <2> QED BY <2>1, FilesAssumption
<1> QED BY <1>1, <1>2

LEMMA ReadTableInv == ASSUME ReaderInv, ReadTable PROVE ReaderInv'
<1>1. step = "table" /\ pos \in Nat /\ file \in Files /\ file.length \in Nat
  BY FileType DEF ReaderInv, ReadTable, Round
<1>2. ASSUME Throw("range_error") PROVE ReaderInv'
  BY <1>2 DEF ReaderInv, Throw, WithinFile
<1>3. ASSUME NEW e \in TableEntries, pos + 12 <= file.length,
             (pos + 12 + e.size) % Width <= file.length,
             found' = Append(found, [id |-> e.id, start |-> pos + 12, size |-> e.size]),
             pos' = (pos + 12 + e.size) % Width, Read(pos, pos + 12),
             UNCHANGED <<file, as, step, reading, line, header>>
      PROVE  ReaderInv'
  <2> DEFINE s == [id |-> e.id, start |-> pos + 12, size |-> e.size]
  <2>1. e.id \in Nat /\ e.size \in Nat
    BY <1>1, EntryType
  <2>2. s \in Found
    BY <1>1, <2>1 DEF Found
  <2>3. found' \in Seq(Found) /\ found' = Append(found, s)
    BY <1>3, <2>2 DEF ReaderInv
  <2>4. pos' \in Nat
    BY <1>1, <1>3, <2>1, FilesAssumption
  <2>5. Inside(s)
    <3> SUFFICES ASSUME e.size <= file.length PROVE pos + 12 + e.size <= file.length
      BY DEF Inside
    <3>1. pos + 12 + e.size < Width /\ Width \in Nat
      BY <1>1, <1>3, <2>1, FileType, FilesAssumption DEF HeaderSize
    <3>2. (pos + 12 + e.size) % Width = pos + 12 + e.size
      BY <1>1, <2>1, <3>1, SmallModulo
    <3> QED BY <1>3, <3>2
  <2>6. access'.to = pos + 12
    BY <1>3 DEF Read
  <2>7. \A k \in DOMAIN found' : Inside(found'[k])
    <3> HIDE DEF s
    <3>1. \A k \in DOMAIN found : Inside(found[k])
      BY DEF ReaderInv, WithinFile, Inside
    <3> QED BY <2>2, <2>3, <2>5, <3>1 DEF ReaderInv
  <2> QED BY <1>1, <1>3, <2>3, <2>4, <2>6, <2>7 DEF ReaderInv, WithinFile, Inside
<1> QED BY <1>1, <1>2, <1>3 DEF ReadTable, Round

LEMMA OpenFileInv == ASSUME ReaderInv, OpenFile PROVE ReaderInv'
<1>1. file.length \in Nat
  BY FileType DEF ReaderInv
<1>2. ASSUME NEW x, x \in {"range_error", "invalid_argument", "SIGFPE"}, Throw(x) PROVE ReaderInv'
  BY <1>2 DEF ReaderInv, Throw, WithinFile
<1>3. CASE /\ file.length >= HeaderSize /\ step' = "table" /\ pos' = HeaderSize
           /\ Read(0, HeaderSize) /\ UNCHANGED <<file, as, found, reading, line, header>>
  BY <1>1, <1>3 DEF ReaderInv, Read, HeaderSize, WithinFile
<1> QED BY <1>2, <1>3 DEF OpenFile

LEMMA ReadInside ==
  ASSUME ReaderInv, NEW to, to <= file.length, step = "header", Read(pos, to),
         UNCHANGED <<file, as, step, found, reading>>
  PROVE  ReaderInv'
<1>1. access'.to = to
  BY DEF Read
<1>2. access'.to <= file'.length
  BY <1>1
<1>3. \A k \in DOMAIN found' : Inside(found[k])'
  BY DEF ReaderInv, WithinFile, Inside
<1> QED BY <1>2, <1>3 DEF ReaderInv, WithinFile, Inside

(* Once the table has been read the list of sections is final; a read is *)
(* refused unless it ends in the file.                                   *)
LEMMA HeaderInv ==
  ASSUME ReaderInv,
         TableRead \/ StartReadSection \/ ReadNumber \/ ReadPointer \/ EndReadSection
           \/ HeaderRead \/ GetSectionData
  PROVE  ReaderInv'
<1>1. ASSUME NEW x, x \in {"range_error", "invalid_argument", "SIGFPE"}, Throw(x) PROVE ReaderInv'
  BY <1>1 DEF ReaderInv, Throw, WithinFile
<1>2. CASE TableRead
  BY <1>2 DEF ReaderInv, TableRead, WithinFile
<1>3. CASE StartReadSection
  BY <1>1, <1>3 DEF ReaderInv, StartReadSection, Call, WithinFile
<1>4. CASE ReadNumber
  <2>1. (\E x \in {"range_error", "invalid_argument", "SIGFPE"} : Throw(x))
          \/ /\ pos + 4 <= file.length /\ step = "header" /\ Read(pos, pos + 4)
             /\ UNCHANGED <<file, as, step, found, reading>>
    BY <1>4 DEF ReadNumber, Call
  <2> QED BY <1>1, <2>1, ReadInside
<1>5. CASE ReadPointer
  <2> DEFINE len == (header[LoadHeader[line].size] * LoadHeader[line].times) % Word
  <2>1. Throw("range_error")
          \/ /\ pos + len <= file.length /\ step = "header" /\ Read(pos, pos + len)
             /\ UNCHANGED <<file, as, step, found, reading>>
    BY <1>5 DEF ReadPointer, Call
  <2> HIDE DEF len
  <2> QED BY <1>1, <2>1, ReadInside
<1>6. CASE EndReadSection
  BY <1>1, <1>6 DEF ReaderInv, EndReadSection, EndSection, Call, WithinFile
<1>7. CASE HeaderRead
  BY <1>1, <1>7 DEF ReaderInv, HeaderRead, WithinFile
<1>8. CASE GetSectionData
  BY <1>1, <1>8 DEF ReaderInv, GetSectionData, WithinFile
<1> QED BY <1>2, <1>3, <1>4, <1>5, <1>6, <1>7, <1>8

LEMMA ReaderNext == ReaderInv /\ [Next]_vars => ReaderInv'
<1> SUFFICES ASSUME ReaderInv, [Next]_vars PROVE ReaderInv'
  OBVIOUS
<1>1. CASE UNCHANGED vars
  BY <1>1 DEF ReaderInv, vars, WithinFile
<1> QED BY <1>1, OpenFileInv, ReadTableInv, HeaderInv DEF Next

(* No file makes the reader look past its end (binfile_utils.cpp:28-76,  *)
(* 133-167).                                                             *)
THEOREM StaysInFile == Spec => []WithinFile
<1>1. ReaderInv => WithinFile
  BY DEF ReaderInv
<1> QED BY <1>1, ReaderInit, ReaderNext, PTL DEF Spec

-----------------------------------------------------------------------------
(* The places of the sections.                                             *)
IsHeads(g, f, m) ==
  g = [i \in 1 .. m |-> IF i = 1 THEN HeaderSize ELSE g[i - 1] + 12 + f.sections[i - 1].len]

LEMMA HeadsExist ==
  ASSUME NEW f, NEW k \in Nat
  PROVE  \E g : IsHeads(g, f, k + 1) /\ HeadAt(f, k + 1) = g[k + 1]
<1> DEFINE Next1(i, v) == IF i = 1 THEN HeaderSize ELSE v + 12 + f.sections[i - 1].len
           S == {m \in Nat : \E g : IsHeads(g, f, m)}
<1>1. 0 \in S
  <2>1. IsHeads([i \in 1 .. 0 |-> 0], f, 0)
    BY DEF IsHeads
  <2> QED BY <2>1
<1>2. ASSUME NEW m \in Nat, m \in S PROVE m + 1 \in S
  <2>1. PICK g : IsHeads(g, f, m)
    BY <1>2
  <2> DEFINE h == [i \in 1 .. m + 1 |-> IF i <= m THEN g[i] ELSE Next1(m + 1, g[m])]
  <2>2. g = [i \in 1 .. m |-> Next1(i, g[i - 1])]
    BY <2>1 DEF IsHeads
  <2>3. \A i \in 1 .. m + 1 : h[i] = Next1(i, h[i - 1])
    <3> TAKE i \in 1 .. m + 1
    <3>1. CASE i <= m /\ i # 1
      <4> HIDE DEF S, Next1
      <4>1. h[i] = g[i] /\ h[i - 1] = g[i - 1]
        BY <3>1
      <4> QED BY <2>2, <3>1, <4>1
    <3>2. CASE i <= m /\ i = 1
      <4>1. h[i] = g[i] /\ g[i] = HeaderSize
        BY <2>2, <3>2
      <4> QED BY <3>2, <4>1
    <3>3. CASE i = m + 1 /\ m # 0
      <4> HIDE DEF S, Next1
      <4> QED BY <3>3
    <3>4. CASE i = m + 1 /\ m = 0
      BY <3>4
    <3> QED BY <3>1, <3>2, <3>3, <3>4
  <2>4. IsHeads(h, f, m + 1)
    BY <2>3 DEF IsHeads
  <2> HIDE DEF h
  <2> QED BY <2>4
<1> HIDE DEF S
<1>3. k + 1 \in S
  BY <1>1, <1>2, SetInduction
<1>4. PICK g : IsHeads(g, f, k + 1)
  BY <1>3 DEF S
<1>5. HeadAt(f, k + 1) = (CHOOSE e : IsHeads(e, f, k + 1))[k + 1]
  BY DEF HeadAt, IsHeads
<1>6. IsHeads(CHOOSE e : IsHeads(e, f, k + 1), f, k + 1)
  BY <1>4
<1> QED BY <1>5, <1>6

(* Sections follow each other.                                             *)
LEMMA HeadNext ==
  ASSUME NEW f, NEW k \in Nat \ {0}
  PROVE  HeadAt(f, 1) = HeaderSize /\ HeadAt(f, k + 1) = HeadAt(f, k) + 12 + f.sections[k].len
<1>1. PICK g : IsHeads(g, f, k + 1) /\ HeadAt(f, k + 1) = g[k + 1]
  BY HeadsExist
<1>2. PICK h : IsHeads(h, f, k) /\ HeadAt(f, k) = h[k]
  <2>1. k - 1 \in Nat /\ (k - 1) + 1 = k
    OBVIOUS
  <2> QED BY <2>1, HeadsExist
<1>3. HeadAt(f, 1) = HeaderSize
  <2>1. PICK e : IsHeads(e, f, 0 + 1) /\ HeadAt(f, 0 + 1) = e[0 + 1]
    BY HeadsExist, 0 \in Nat
  <2>2. 0 + 1 = 1
    OBVIOUS
  <2> QED BY <2>1, <2>2 DEF IsHeads
<1> DEFINE S == {m \in Nat : m < k => g[m + 1] = h[m + 1]}
<1>4. 0 \in S
  BY <1>1, <1>2 DEF IsHeads
<1>5. ASSUME NEW m \in Nat, m \in S PROVE m + 1 \in S
  <2> SUFFICES ASSUME m + 1 < k PROVE g[(m + 1) + 1] = h[(m + 1) + 1]
    OBVIOUS
  <2>1. g[m + 1] = h[m + 1]
    BY <1>5
  <2>2. m + 2 \in 1 .. k /\ m + 2 \in 1 .. k + 1 /\ m + 2 # 1 /\ (m + 2) - 1 = m + 1
        /\ (m + 1) + 1 = m + 2
    OBVIOUS
  <2>3. g[m + 2] = g[(m + 2) - 1] + 12 + f.sections[(m + 2) - 1].len
    BY <1>1, <2>2, Zenon DEF IsHeads
  <2>4. h[m + 2] = h[(m + 2) - 1] + 12 + f.sections[(m + 2) - 1].len
    BY <1>2, <2>2, Zenon DEF IsHeads
  <2> QED BY <2>1, <2>2, <2>3, <2>4
<1> HIDE DEF S
<1>6. k - 1 \in S
  BY <1>4, <1>5, SetInduction
<1>7. g[k] = h[k]
  BY <1>6 DEF S
<1>8. g[k + 1] = g[k] + 12 + f.sections[k].len
  <2>1. k + 1 \in 1 .. k + 1 /\ k + 1 # 1 /\ (k + 1) - 1 = k
    OBVIOUS
  <2>2. g[k + 1] = g[(k + 1) - 1] + 12 + f.sections[(k + 1) - 1].len
    BY <1>1, <2>1, Zenon DEF IsHeads
  <2> QED BY <2>1, <2>2
<1> QED BY <1>1, <1>2, <1>3, <1>7, <1>8

LEMMA HeadLater ==
  ASSUME NEW f \in Files, NEW j \in 1 .. Len(f.sections), NEW k \in Nat, j <= k,
         k <= Len(f.sections)
  PROVE  /\ HeadAt(f, j) \in Nat /\ HeadAt(f, k + 1) \in Nat /\ HeadAt(f, j) >= HeaderSize
         /\ HeadAt(f, j) + 12 + f.sections[j].len <= HeadAt(f, k + 1)
<1> DEFINE n == Len(f.sections)
           S == {m \in Nat : m <= n => HeadAt(f, m + 1) \in Nat /\ HeadAt(f, m + 1) >= HeaderSize}
           T == {m \in Nat : j <= m /\ m <= n =>
                   HeadAt(f, j) + 12 + f.sections[j].len <= HeadAt(f, m + 1)}
<1>1. n \in Nat /\ \A i \in 1 .. n : f.sections[i].len \in Nat
  <2>1. f.sections \in Seq(Section)
    BY FilesAssumption
  <2>2. n \in Nat /\ \A i \in 1 .. n : f.sections[i] \in Section
    BY <2>1
  <2> QED BY <2>2 DEF Section
<1> HIDE DEF n
<1>2. 0 \in S
  <2>1. HeadAt(f, 1) = HeaderSize
    BY HeadNext, 1 \in Nat \ {0}
  <2> QED BY <2>1 DEF HeaderSize
<1>3. ASSUME NEW m \in Nat, m \in S PROVE m + 1 \in S
  <2>1. m + 1 \in Nat \ {0}
    OBVIOUS
  <2>2. HeadAt(f, (m + 1) + 1) = HeadAt(f, m + 1) + 12 + f.sections[m + 1].len
    BY ONLY <2>1, HeadNext
  <2> QED BY <1>1, <1>3, <2>2 DEF HeaderSize
<1> HIDE DEF S
<1>4. \A m \in 0 .. n : HeadAt(f, m + 1) \in Nat /\ HeadAt(f, m + 1) >= HeaderSize
  <2>1. Nat \subseteq S
    BY <1>2, <1>3, SetInduction
  <2> QED BY <1>1, <2>1 DEF S
<1>5. HeadAt(f, j) \in Nat /\ HeadAt(f, j) >= HeaderSize
  <2>1. j - 1 \in 0 .. n /\ (j - 1) + 1 = j
    BY <1>1 DEF n
  <2> QED BY <1>4, <2>1
<1>6. HeadAt(f, j + 1) = HeadAt(f, j) + 12 + f.sections[j].len
  BY HeadNext
<1>7. 0 \in T
  OBVIOUS
<1>8. ASSUME NEW m \in Nat, m \in T PROVE m + 1 \in T
  <2> SUFFICES ASSUME j <= m + 1, m + 1 <= n
               PROVE  HeadAt(f, j) + 12 + f.sections[j].len <= HeadAt(f, (m + 1) + 1)
    OBVIOUS
  <2>1. CASE j = m + 1
    BY <1>5, <1>6, <2>1, <1>1, <1>4
  <2>2. CASE j <= m
    <3>1. HeadAt(f, j) + 12 + f.sections[j].len <= HeadAt(f, m + 1)
      BY <1>1, <1>8, <2>2
    <3>2. HeadAt(f, (m + 1) + 1) = HeadAt(f, m + 1) + 12 + f.sections[m + 1].len
      BY HeadNext
    <3>3. m \in 0 .. n /\ m + 1 \in 1 .. n /\ j \in 1 .. n
      BY <1>1 DEF n
    <3>4. HeadAt(f, m + 1) \in Nat /\ f.sections[m + 1].len \in Nat /\ f.sections[j].len \in Nat
      BY <1>1, <1>4, <3>3
    <3>5. HeadAt(f, (m + 1) + 1) >= HeadAt(f, m + 1)
      BY <3>2, <3>4
    <3>6. HeadAt(f, (m + 1) + 1) \in Nat
      BY <3>2, <3>4
    <3> QED BY <1>5, <3>1, <3>4, <3>5, <3>6
  <2> QED BY <2>1, <2>2
<1> HIDE DEF T
<1>9. k \in T
  BY <1>7, <1>8, SetInduction
<1> QED BY <1>1, <1>4, <1>5, <1>9 DEF T, n

(* Where a section was written says which one it is.                       *)
LEMMA WrittenOnce ==
  ASSUME file \in Files, NEW p, NEW of \in {0, 12}, NEW j \in Written(p, of),
         NEW k \in Written(p, of)
  PROVE  j = k
<1>1. /\ j \in 1 .. Len(file.sections) /\ k \in 1 .. Len(file.sections)
      /\ HeadAt(file, j) + of = HeadAt(file, k) + of
  BY DEF Written
<1>2. ASSUME NEW a \in 1 .. Len(file.sections), NEW b \in 1 .. Len(file.sections), a < b
      PROVE  HeadAt(file, a) \in Nat /\ HeadAt(file, b) \in Nat /\ HeadAt(file, a) # HeadAt(file, b)
  <2>1. b - 1 \in Nat /\ a <= b - 1 /\ b - 1 <= Len(file.sections) /\ (b - 1) + 1 = b
    BY <1>2
  <2>2. HeadAt(file, a) + 12 + file.sections[a].len <= HeadAt(file, b)
        /\ HeadAt(file, a) \in Nat /\ HeadAt(file, b) \in Nat
    BY <2>1, HeadLater
  <2>3. file.sections[a].len \in Nat
    BY FileType DEF Section
  <2> QED BY <2>2, <2>3
<1> QED BY <1>1, <1>2

-----------------------------------------------------------------------------
(* The calls of loadHeader.                                                *)
LEMMA ZkeyLines ==
  LET h == ZkeyHeader IN
  /\ Len(h) = 18
  /\ h[1] = Start(1) /\ h[2] = Number("protocol") /\ h[3] = EndRead
  /\ h[4] = Start(2) /\ h[5] = Number("n8q") /\ h[6] = Pointer("qPrime", 1, "n8q")
  /\ h[7] = Number("n8r") /\ h[8] = Pointer("rPrime", 1, "n8r")
  /\ h[9] = Number("nVars") /\ h[10] = Number("nPublic") /\ h[11] = Number("domainSize")
  /\ h[12] = Pointer("vk_alpha1", 2, "n8q") /\ h[13] = Pointer("vk_beta1", 2, "n8q")
  /\ h[14] = Pointer("vk_beta2", 4, "n8q") /\ h[15] = Pointer("vk_gamma2", 4, "n8q")
  /\ h[16] = Pointer("vk_delta1", 2, "n8q") /\ h[17] = Pointer("vk_delta2", 4, "n8q")
  /\ h[18] = EndRead
BY DEF ZkeyHeader

LEMMA WtnsLines ==
  LET h == WtnsHeader IN
  /\ Len(h) = 5
  /\ h[1] = Start(1) /\ h[2] = Number("n8") /\ h[3] = Pointer("prime", 1, "n8")
  /\ h[4] = Number("nVars") /\ h[5] = EndRead
BY DEF WtnsHeader

LEMMA Forms ==
  /\ \A id : Start(id).call = "start" /\ Start(id).id = id
  /\ \A name : Number(name).call = "number" /\ Number(name).name = name
  /\ \A name, times, size :
       /\ Pointer(name, times, size).call = "pointer"
       /\ Pointer(name, times, size).name = name
       /\ Pointer(name, times, size).times = times
       /\ Pointer(name, times, size).size = size
  /\ EndRead.call = "end"
BY DEF Start, Number, Pointer, EndRead

(* The section a line of loadHeader reads, and the bytes of it read before, *)
(* when the sizes are those that were written.                              *)
SectionOf(type, j) == IF type = "zkey" /\ j > 3 THEN 2 ELSE 1
Offset(f, j) ==
  IF f.type = "zkey"
  THEN LET q == f.number["n8q"]
           r == f.number["n8r"]
       IN << 0, 0, 4, 0, 0, 4, 4 + q, 8 + q, 8 + q + r, 12 + q + r, 16 + q + r, 20 + q + r,
             20 + 3 * q + r, 20 + 5 * q + r, 20 + 9 * q + r, 20 + 13 * q + r,
             20 + 15 * q + r, 20 + 19 * q + r, 0 >>[j]
  ELSE LET n == f.number["n8"] IN << 0, 0, 4, 4 + n, 8 + n, 0 >>[j]

(* What each line finds and what the next one needs.                        *)
StartLine(f, h, j) ==
  /\ h[j].call = "start" /\ h[j].id = SectionOf(f.type, j)
  /\ SectionOf(f.type, j + 1) = SectionOf(f.type, j) /\ Offset(f, j + 1) = 0

NumberLine(f, h, j) ==
  /\ h[j].call = "number" /\ h[j].name \in Fields(f.type) \ {"nCoefs"}
  /\ SectionOf(f.type, j + 1) = SectionOf(f.type, j)
  /\ Offset(f, j) \in Nat /\ Offset(f, j + 1) = Offset(f, j) + 4
  /\ \A len \in Nat : Sized(f, SectionOf(f.type, j), len) => Offset(f, j) + 4 <= len

PointerLine(f, h, j) ==
  /\ h[j].call = "pointer" /\ h[j].name \notin Fields(f.type)
  /\ h[j].times \in Nat /\ h[j].size \in Fields(f.type)
  /\ \E i \in 1 .. j - 1 : h[i].call = "number" /\ h[i].name = h[j].size
  /\ SectionOf(f.type, j + 1) = SectionOf(f.type, j)
  /\ Offset(f, j) \in Nat
  /\ Offset(f, j + 1) = Offset(f, j) + ((f.number[h[j].size] * h[j].times) % Word)

EndLine(f, h, j) ==
  /\ h[j].call = "end"
  /\ \A len \in Nat : Sized(f, SectionOf(f.type, j), len) => len = Offset(f, j)

LEMMA ZkeySized ==
  ASSUME NEW f, f.type = "zkey", NEW len
  PROVE  /\ Sized(f, 1, len) => len = 4
         /\ Sized(f, 2, len) => len = 20 + 19 * f.number["n8q"] + f.number["n8r"]
BY DEF Sized

LEMMA WtnsSized ==
  ASSUME NEW f, f.type = "wtns", NEW len
  PROVE  Sized(f, 1, len) => len = 8 + f.number["n8"]
BY DEF Sized

LEMMA ZkeyFacts ==
  ASSUME NEW f \in Files, f.type = "zkey"
  PROVE  /\ \A j \in {1, 4} : StartLine(f, ZkeyHeader, j)
         /\ \A j \in {2, 5, 7, 9, 10, 11} : NumberLine(f, ZkeyHeader, j)
         /\ \A j \in {6, 8} \cup 12 .. 17 : PointerLine(f, ZkeyHeader, j)
         /\ \A j \in {3, 18} : EndLine(f, ZkeyHeader, j)
<1>1. PICK q \in Nat, r \in Nat :
        /\ q = f.number["n8q"] /\ r = f.number["n8r"] /\ 4 * q < Word /\ 12 + r < Word
  BY FilesAssumption, LayoutAssumption DEF Fields
<1>2. /\ (q * 1) % Word = q /\ (q * 2) % Word = 2 * q /\ (q * 4) % Word = 4 * q
      /\ (r * 1) % Word = r
  <2>1. Word \in Nat
    BY FilesAssumption
  <2>2. /\ q * 1 = q /\ q * 2 = 2 * q /\ q * 4 = 4 * q /\ r * 1 = r
        /\ q < Word /\ 2 * q < Word /\ 4 * q < Word /\ r < Word
        /\ q \in Nat /\ 2 * q \in Nat /\ 4 * q \in Nat
    BY <1>1, <2>1
  <2> QED BY <2>1, <2>2, SmallModulo
<1>3. \A j \in 1 .. 19 : SectionOf("zkey", j) = IF j > 3 THEN 2 ELSE 1
  BY DEF SectionOf
<1>4. ASSUME NEW len \in Nat
      PROVE  (Sized(f, 1, len) => len = 4) /\ (Sized(f, 2, len) => len = 20 + 19 * q + r)
  BY <1>1, ZkeySized
<1>5. /\ Offset(f, 2) = 0 /\ Offset(f, 3) = 4
      /\ Offset(f, 5) = 0 /\ Offset(f, 6) = 4 /\ Offset(f, 7) = 4 + q
      /\ Offset(f, 8) = 8 + q /\ Offset(f, 9) = 8 + q + r /\ Offset(f, 10) = 12 + q + r
      /\ Offset(f, 11) = 16 + q + r /\ Offset(f, 12) = 20 + q + r
      /\ Offset(f, 13) = 20 + 3 * q + r /\ Offset(f, 14) = 20 + 5 * q + r
      /\ Offset(f, 15) = 20 + 9 * q + r /\ Offset(f, 16) = 20 + 13 * q + r
      /\ Offset(f, 17) = 20 + 15 * q + r /\ Offset(f, 18) = 20 + 19 * q + r
  BY <1>1 DEF Offset
<1>5a. StartLine(f, ZkeyHeader, 1) /\ StartLine(f, ZkeyHeader, 4)
  BY <1>3, <1>5, ZkeyLines, Forms DEF StartLine
<1>6. ASSUME NEW j \in {2, 5, 7, 9, 10, 11} PROVE NumberLine(f, ZkeyHeader, j)
  <2>1. ZkeyHeader[j].call = "number" /\ ZkeyHeader[j].name \in Fields("zkey") \ {"nCoefs"}
    BY ZkeyLines, Forms DEF Fields
  <2>2. SectionOf("zkey", j + 1) = SectionOf("zkey", j)
    BY <1>3
  <2>3. Offset(f, j) \in Nat /\ Offset(f, j + 1) = Offset(f, j) + 4
    BY <1>5
  <2>4. \A len \in Nat : Sized(f, SectionOf("zkey", j), len) => Offset(f, j) + 4 <= len
    BY <1>3, <1>4, <1>5
  <2> QED BY <2>1, <2>2, <2>3, <2>4 DEF NumberLine
<1>7. ASSUME NEW j \in {6, 8} \cup 12 .. 17 PROVE PointerLine(f, ZkeyHeader, j)
  <2>1. j \in {6, 8, 12, 13, 14, 15, 16, 17}
    OBVIOUS
  <2>2. /\ ZkeyHeader[j].call = "pointer" /\ ZkeyHeader[j].name \notin Fields("zkey")
        /\ ZkeyHeader[j].size = IF j = 8 THEN "n8r" ELSE "n8q"
        /\ ZkeyHeader[j].times = IF j < 12 THEN 1 ELSE IF j \in {14, 15, 17} THEN 4 ELSE 2
    BY <2>1, ZkeyLines, Forms DEF Fields
  <2>3. \E i \in 1 .. j - 1 :
          ZkeyHeader[i].call = "number" /\ ZkeyHeader[i].name = ZkeyHeader[j].size
    <3>1. /\ ZkeyHeader[5].call = "number" /\ ZkeyHeader[5].name = "n8q"
          /\ ZkeyHeader[7].call = "number" /\ ZkeyHeader[7].name = "n8r"
      BY ZkeyLines, Forms
    <3>2. 5 \in 1 .. j - 1 /\ (j = 8 => 7 \in 1 .. j - 1)
      BY <2>1
    <3> QED BY <2>2, <3>1, <3>2
  <2>4. SectionOf("zkey", j + 1) = SectionOf("zkey", j)
    BY <1>3, <2>1
  <2>5. /\ Offset(f, j) \in Nat
        /\ Offset(f, j + 1) =
             Offset(f, j) + ((f.number[ZkeyHeader[j].size] * ZkeyHeader[j].times) % Word)
    BY <1>1, <1>2, <1>5, <2>1, <2>2
  <2> QED BY <2>2, <2>3, <2>4, <2>5 DEF PointerLine, Fields
<1>8. EndLine(f, ZkeyHeader, 3) /\ EndLine(f, ZkeyHeader, 18)
  BY <1>1, <1>3, <1>4, <1>5, ZkeyLines, Forms DEF EndLine
<1> QED BY <1>5a, <1>6, <1>7, <1>8

LEMMA WtnsFacts ==
  ASSUME NEW f \in Files, f.type = "wtns"
  PROVE  /\ StartLine(f, WtnsHeader, 1)
         /\ \A j \in {2, 4} : NumberLine(f, WtnsHeader, j)
         /\ PointerLine(f, WtnsHeader, 3)
         /\ EndLine(f, WtnsHeader, 5)
<1>1. PICK n \in Nat : n = f.number["n8"] /\ n < Word
  BY FilesAssumption, LayoutAssumption DEF Fields
<1>2. (n * 1) % Word = n
  <2>1. Word \in Nat /\ n * 1 = n
    BY FilesAssumption
  <2> QED BY <1>1, <2>1, SmallModulo
<1>3. \A j \in 1 .. 6 : SectionOf("wtns", j) = 1
  BY DEF SectionOf
<1>4. ASSUME NEW len \in Nat
      PROVE  Sized(f, 1, len) => len = 8 + n
  BY <1>1, WtnsSized
<1>4a. Offset(f, 2) = 0 /\ Offset(f, 3) = 4 /\ Offset(f, 4) = 4 + n /\ Offset(f, 5) = 8 + n
  BY <1>1 DEF Offset
<1>5. StartLine(f, WtnsHeader, 1)
  BY <1>1, <1>3, <1>4a, WtnsLines, Forms DEF StartLine
<1>6. NumberLine(f, WtnsHeader, 2) /\ NumberLine(f, WtnsHeader, 4)
  BY <1>1, <1>3, <1>4, <1>4a, WtnsLines, Forms DEF NumberLine, Fields
<1>7. PointerLine(f, WtnsHeader, 3)
  <2>1. 2 \in 1 .. 3 - 1 /\ WtnsHeader[2].call = "number" /\ WtnsHeader[2].name = WtnsHeader[3].size
    BY WtnsLines, Forms
  <2> QED BY <1>1, <1>2, <1>3, <2>1, <1>4a, WtnsLines, Forms DEF PointerLine, Fields
<1>8. EndLine(f, WtnsHeader, 5)
  BY <1>1, <1>3, <1>4, <1>4a, WtnsLines, Forms DEF EndLine
<1> QED BY <1>5, <1>6, <1>7, <1>8

-----------------------------------------------------------------------------
(* What a call of loadHeader has to do with the others.                    *)
CallsOf(type) == IF type = "zkey" THEN ZkeyHeader ELSE WtnsHeader

Lines(f, h) ==
  /\ Len(h) \in {5, 18} /\ DOMAIN h = 1 .. Len(h)
  /\ \A j \in 1 .. Len(h) : \/ StartLine(f, h, j) \/ NumberLine(f, h, j)
                            \/ PointerLine(f, h, j) \/ EndLine(f, h, j)
  /\ h[1].call = "start" /\ EndLine(f, h, Len(h))
  /\ \A j \in 1 .. Len(h) - 1 : h[j].call = "end" => h[j + 1].call = "start"
  /\ \A i \in 1 .. Len(h), j \in 1 .. Len(h) :
       h[i].call = "number" /\ h[j].call = "number" /\ h[i].name = h[j].name => i = j
  /\ \A j \in 1 .. Len(h) : h[j].call = "start" =>
       \E e \in 1 .. Len(h) : h[e].call = "end" /\ SectionOf(f.type, e) = h[j].id

LEMMA ZkeyCalls ==
  ASSUME NEW f \in Files, f.type = "zkey"
  PROVE  Lines(f, ZkeyHeader)
<1>1. Len(ZkeyHeader) = 18 /\ DOMAIN ZkeyHeader = 1 .. 18
  BY DEF ZkeyHeader
<1>2. \A j \in 1 .. 18 : j \in {1, 4} \/ j \in {2, 5, 7, 9, 10, 11}
                         \/ j \in {6, 8} \cup 12 .. 17 \/ j \in {3, 18}
  OBVIOUS
<1>3. /\ \A j \in 1 .. 18 : \/ StartLine(f, ZkeyHeader, j) \/ NumberLine(f, ZkeyHeader, j)
                            \/ PointerLine(f, ZkeyHeader, j) \/ EndLine(f, ZkeyHeader, j)
      /\ EndLine(f, ZkeyHeader, 18)
  BY <1>2, ZkeyFacts
<1>4. \A j \in 1 .. 18 : /\ ZkeyHeader[j].call = "start" => j \in {1, 4}
                         /\ ZkeyHeader[j].call = "end" => j \in {3, 18}
                         /\ ZkeyHeader[j].call = "number" => j \in {2, 5, 7, 9, 10, 11}
  BY ZkeyLines, Forms
<1>5. /\ ZkeyHeader[1].call = "start" /\ ZkeyHeader[4].call = "start"
      /\ ZkeyHeader[1].id = 1 /\ ZkeyHeader[4].id = 2
      /\ ZkeyHeader[3].call = "end" /\ ZkeyHeader[18].call = "end"
      /\ SectionOf("zkey", 3) = 1 /\ SectionOf("zkey", 18) = 2
  BY ZkeyLines, Forms DEF SectionOf
<1>6. /\ ZkeyHeader[2].name = "protocol" /\ ZkeyHeader[5].name = "n8q"
      /\ ZkeyHeader[7].name = "n8r" /\ ZkeyHeader[9].name = "nVars"
      /\ ZkeyHeader[10].name = "nPublic" /\ ZkeyHeader[11].name = "domainSize"
  BY ZkeyLines, Forms
<1>7. \A i \in 1 .. 18, j \in 1 .. 18 :
        ZkeyHeader[i].call = "number" /\ ZkeyHeader[j].call = "number"
          /\ ZkeyHeader[i].name = ZkeyHeader[j].name => i = j
  BY <1>4, <1>6
<1>8. ASSUME NEW j \in 1 .. 17, ZkeyHeader[j].call = "end"
      PROVE  ZkeyHeader[j + 1].call = "start"
  <2>1. j = 3
    BY <1>4, <1>8
  <2> QED BY <1>5, <2>1
<1>9. ASSUME NEW j \in 1 .. 18, ZkeyHeader[j].call = "start"
      PROVE  \E e \in 1 .. 18 :
               ZkeyHeader[e].call = "end" /\ SectionOf(f.type, e) = ZkeyHeader[j].id
  <2>1. CASE j = 1
    BY <1>5, <2>1, 3 \in 1 .. 18
  <2>2. CASE j = 4
    BY <1>5, <2>2, 18 \in 1 .. 18
  <2>3. j = 1 \/ j = 4
    BY <1>4, <1>9
  <2> QED BY <2>1, <2>2, <2>3
<1>10. \A n : n = 18 =>
         /\ \A j \in 1 .. n : \/ StartLine(f, ZkeyHeader, j) \/ NumberLine(f, ZkeyHeader, j)
                             \/ PointerLine(f, ZkeyHeader, j) \/ EndLine(f, ZkeyHeader, j)
         /\ EndLine(f, ZkeyHeader, n)
         /\ \A j \in 1 .. n - 1 : ZkeyHeader[j].call = "end" => ZkeyHeader[j + 1].call = "start"
  BY ONLY <1>3, <1>8
<1>11. \A j \in 1 .. 18 : ZkeyHeader[j].call = "start" =>
         \E e \in 1 .. 18 : ZkeyHeader[e].call = "end" /\ SectionOf(f.type, e) = ZkeyHeader[j].id
  BY ONLY <1>9
<1>12. Len(ZkeyHeader) \in {5, 18} /\ DOMAIN ZkeyHeader = 1 .. Len(ZkeyHeader)
  BY <1>1
<1>13. /\ \A i \in 1 .. Len(ZkeyHeader), j \in 1 .. Len(ZkeyHeader) :
            ZkeyHeader[i].call = "number" /\ ZkeyHeader[j].call = "number"
              /\ ZkeyHeader[i].name = ZkeyHeader[j].name => i = j
       /\ \A j \in 1 .. Len(ZkeyHeader) : ZkeyHeader[j].call = "start" =>
            \E e \in 1 .. Len(ZkeyHeader) :
              ZkeyHeader[e].call = "end" /\ SectionOf(f.type, e) = ZkeyHeader[j].id
  BY ONLY <1>1, <1>7, <1>11
<1> QED BY ONLY <1>1, <1>5, <1>10, <1>12, <1>13, Zenon DEF Lines

LEMMA WtnsCalls ==
  ASSUME NEW f \in Files, f.type = "wtns"
  PROVE  Lines(f, WtnsHeader)
<1>1. Len(WtnsHeader) = 5 /\ DOMAIN WtnsHeader = 1 .. 5
  BY DEF WtnsHeader
<1>2. \A j \in 1 .. 5 : j = 1 \/ j \in {2, 4} \/ j = 3 \/ j = 5
  OBVIOUS
<1>3. /\ \A j \in 1 .. 5 : \/ StartLine(f, WtnsHeader, j) \/ NumberLine(f, WtnsHeader, j)
                           \/ PointerLine(f, WtnsHeader, j) \/ EndLine(f, WtnsHeader, j)
      /\ EndLine(f, WtnsHeader, 5)
  BY <1>2, WtnsFacts
<1>4. \A j \in 1 .. 5 : /\ WtnsHeader[j].call = "start" => j = 1
                        /\ WtnsHeader[j].call = "end" => j = 5
                        /\ WtnsHeader[j].call = "number" => j \in {2, 4}
  BY WtnsLines, Forms
<1>5. /\ WtnsHeader[1].call = "start" /\ WtnsHeader[1].id = 1 /\ WtnsHeader[5].call = "end"
      /\ SectionOf("wtns", 5) = 1
      /\ WtnsHeader[2].name = "n8" /\ WtnsHeader[4].name = "nVars"
  BY WtnsLines, Forms DEF SectionOf
<1>6. \A i \in 1 .. 5, j \in 1 .. 5 :
        WtnsHeader[i].call = "number" /\ WtnsHeader[j].call = "number"
          /\ WtnsHeader[i].name = WtnsHeader[j].name => i = j
  BY <1>4, <1>5
<1>7. \A j \in 1 .. 5 : WtnsHeader[j].call = "start" =>
        \E e \in 1 .. 5 : WtnsHeader[e].call = "end" /\ SectionOf("wtns", e) = WtnsHeader[j].id
  BY <1>4, <1>5
<1>8. \A j \in 1 .. 4 : WtnsHeader[j].call = "end" => WtnsHeader[j + 1].call = "start"
  BY <1>4
<1> QED BY <1>1, <1>3, <1>5, <1>6, <1>7, <1>8 DEF Lines

LEMMA CallLines ==
  ASSUME NEW f \in Files, f.type \in {"zkey", "wtns"}
  PROVE  Lines(f, CallsOf(f.type))
BY ZkeyCalls, WtnsCalls DEF CallsOf

-----------------------------------------------------------------------------
(* The header as far as it has been loaded: the fields before line m, the  *)
(* sections that were ended before it, and the place the reader is at, for *)
(* the sections s that were found in the file f.                           *)
Heads(f, p) == {k \in 1 .. Len(f.sections) : HeadAt(f, k) + 12 = p}
IdsOf(s) == {s[k].id : k \in DOMAIN s}
FirstOf(s, id) == CHOOSE k \in DOMAIN s :
                    s[k].id = id /\ \A j \in DOMAIN s : s[j].id = id => k <= j

InTable(f, s) == \A j \in DOMAIN s : Heads(f, s[j].start) # {}
RightIds(f, s) == \A j \in DOMAIN s : \A k \in Heads(f, s[j].start) : s[j].id = f.sections[k].id

Fetched(type, h, m) ==
  \A j \in 1 .. m - 1 :
    LET op == CallsOf(type)[j] IN
    op.call \in {"number", "pointer"} => op.name \in DOMAIN h /\ h[op.name] \in Nat

NumbersRead(f, h, m) ==
  \A j \in 1 .. m - 1 :
    LET op == CallsOf(f.type)[j] IN
    op.call = "number" => h[op.name] = f.number[op.name]

SectionsRead(f, s, m) ==
  \A j \in 1 .. m - 1 :
    LET id == SectionOf(f.type, j) IN
    CallsOf(f.type)[j].call = "end" => id \in IdsOf(s) /\ s[FirstOf(s, id)].size = Offset(f, j)

InPlace(f, s, m, r, p) ==
  LET id == SectionOf(f.type, m) IN
  m <= Len(CallsOf(f.type)) /\ CallsOf(f.type)[m].call # "start" =>
    id \in IdsOf(s) /\ r = FirstOf(s, id) /\ p = s[r].start + Offset(f, m)

LEMMA FirstFound ==
  ASSUME NEW s \in Seq(Found), NEW id \in IdsOf(s)
  PROVE  FirstOf(s, id) \in DOMAIN s /\ s[FirstOf(s, id)].id = id
<1> DEFINE S == {k \in DOMAIN s : s[k].id = id}
<1>1. S \in SUBSET Nat /\ S # {}
  BY DEF IdsOf
<1>2. PICK k \in S : \A j \in S : k <= j
  BY <1>1, Least
<1>3. \E k1 \in DOMAIN s : s[k1].id = id /\ \A j \in DOMAIN s : s[j].id = id => k1 <= j
  BY <1>2
<1> QED BY <1>3 DEF FirstOf

LEMMA FieldStored ==
  ASSUME NEW type, NEW h, NEW m \in Nat \ {0}, Fetched(type, h, m), NEW g,
         CallsOf(type)[m].name \in DOMAIN g, g[CallsOf(type)[m].name] \in Nat,
         \A n \in DOMAIN h : n \in DOMAIN g /\ (n # CallsOf(type)[m].name => g[n] = h[n])
  PROVE  Fetched(type, g, m + 1)
<1> SUFFICES ASSUME NEW j \in 1 .. m, CallsOf(type)[j].call \in {"number", "pointer"}
             PROVE  CallsOf(type)[j].name \in DOMAIN g /\ g[CallsOf(type)[j].name] \in Nat
  BY DEF Fetched
<1>1. CASE j = m
  BY <1>1
<1>2. CASE j # m
  <2>1. j \in 1 .. m - 1
    BY <1>2
  <2>2. CallsOf(type)[j].name \in DOMAIN h /\ h[CallsOf(type)[j].name] \in Nat
    BY <2>1 DEF Fetched
  <2> QED BY <2>2
<1> QED BY <1>1, <1>2

LEMMA NumberStored ==
  ASSUME NEW f \in Files, f.type \in {"zkey", "wtns"},
         NEW h, NEW m \in 1 .. Len(CallsOf(f.type)), Fetched(f.type, h, m), NumbersRead(f, h, m),
         NEW g, CallsOf(f.type)[m].call \in {"number", "pointer"},
         \A n \in DOMAIN h : n # CallsOf(f.type)[m].name => g[n] = h[n],
         CallsOf(f.type)[m].call = "number" =>
           g[CallsOf(f.type)[m].name] = f.number[CallsOf(f.type)[m].name]
  PROVE  NumbersRead(f, g, m + 1)
<1>1. PICK c : c = CallsOf(f.type) /\ Lines(f, c)
  BY CallLines
<1>2. m \in 1 .. Len(c) /\ m \in Nat /\ Len(c) \in Nat
  BY <1>1 DEF Lines
<1> SUFFICES ASSUME NEW j \in 1 .. m, c[j].call = "number"
             PROVE  g[c[j].name] = f.number[c[j].name]
  <2>1. (m + 1) - 1 = m
    BY <1>2
  <2> QED BY <1>1, <2>1 DEF NumbersRead
<1>3. CASE j = m
  BY <1>1, <1>3
<1>4. CASE j # m
  <2>1. j \in 1 .. m - 1 /\ j \in 1 .. Len(c)
    BY <1>2, <1>4
  <2>2. c[j].name \in DOMAIN h /\ h[c[j].name] = f.number[c[j].name]
    BY <1>1, <2>1 DEF Fetched, NumbersRead
  <2>3. c[j].name # c[m].name
    <3>1. CASE c[m].call = "number"
      BY <1>1, <1>2, <1>4, <2>1, <3>1 DEF Lines
    <3>2. CASE c[m].call = "pointer"
      <4>1. PointerLine(f, c, m)
        BY <1>1, <1>2, <3>2 DEF Lines, StartLine, NumberLine, EndLine
      <4>2. NumberLine(f, c, j)
        BY <1>1, <2>1 DEF Lines, StartLine, PointerLine, EndLine
      <4> QED BY <4>1, <4>2 DEF PointerLine, NumberLine
    <3> QED BY <1>1, <3>1, <3>2
  <2> QED BY <1>1, <2>2, <2>3
<1> QED BY <1>3, <1>4

-----------------------------------------------------------------------------
(* What holds of every object, whatever its file. *)
Typed ==
  /\ as \in {"zkey", "wtns"}
  /\ \A k \in DOMAIN found : found[k].start >= HeaderSize
  /\ step = "open" => found = << >> /\ access.to = 0
  /\ step \in {"open", "table"} => line = 1
  /\ step \in {"table", "header", "sections", "done"} =>
       file.type = as /\ file.version <= MaxVersion /\ access.to > 0
  /\ step = "table" => Len(found) <= file.nSections
  /\ step \in {"header", "sections", "done"} => Len(found) = file.nSections
  /\ step = "header" =>
       /\ line \in 1 .. Len(CallsOf(as)) + 1
       /\ pos \in Nat /\ (line > 1 => pos >= HeaderSize)
       /\ Fetched(as, header, line)

(* AcceptedIffWhole, and where the loop over the sections is. *)
Sound ==
  AsWritten(file) =>
    /\ step = "table" => pos = HeadAt(file, Len(found) + 1) /\ pos <= file.length
    /\ TableAccepted => HeadAt(file, file.nSections + 1) <= file.length
    /\ TableRefused => ~Whole(file)

(* HeaderExact, line by line. *)
Exact ==
  InTable(file, found) =>
    /\ step = "header" =>
         /\ NumbersRead(file, header, line)
         /\ SectionsRead(file, found, line)
         /\ InPlace(file, found, line, reading, pos)
    /\ step \in {"sections", "done"} =>
         /\ NumbersRead(file, header, Len(CallsOf(as)) + 1)
         /\ SectionsRead(file, found, Len(CallsOf(as)) + 1)
         /\ as = "zkey" =>
              /\ 4 \in IdsOf(found)
              /\ header["nCoefs"] =
                   found[FirstOf(found, 4)].size \div ((12 + file.number["n8r"]) % Word)

-----------------------------------------------------------------------------
Errors == {"range_error", "invalid_argument", "SIGFPE"}

LEMMA LineOf ==
  ASSUME ReaderInv, Typed, NEW name, Call(name)
  PROVE  /\ step = "header" /\ line \in 1 .. Len(LoadHeader) /\ line \in Nat \ {0}
         /\ file.type = as /\ file.type \in {"zkey", "wtns"} /\ LoadHeader = CallsOf(file.type)
         /\ Lines(file, LoadHeader) /\ LoadHeader[line].call = name
         /\ name = "start" => StartLine(file, LoadHeader, line)
         /\ name = "number" => NumberLine(file, LoadHeader, line)
         /\ name = "pointer" => PointerLine(file, LoadHeader, line)
         /\ name = "end" => EndLine(file, LoadHeader, line)
         /\ name # "start" => line > 1 /\ pos >= HeaderSize
         /\ pos \in Nat /\ Fetched(as, header, line)
<1>1. /\ step = "header" /\ file.type = as /\ file.type \in {"zkey", "wtns"} /\ file \in Files
      /\ line \in 1 .. Len(CallsOf(as)) + 1 /\ line <= Len(LoadHeader) /\ LoadHeader[line].call = name
      /\ pos \in Nat /\ (line > 1 => pos >= HeaderSize) /\ Fetched(as, header, line)
  BY DEF ReaderInv, Typed, Call
<1>2. LoadHeader = CallsOf(as)
  BY DEF LoadHeader, CallsOf
<1>3. PICK h : h = LoadHeader /\ h = CallsOf(as) /\ Lines(file, h)
  BY <1>1, <1>2, CallLines
<1>4. Len(h) \in Nat /\ line \in 1 .. Len(h) /\ line \in Nat \ {0}
  <2>1. Len(h) \in {5, 18}
    BY <1>3 DEF Lines
  <2>2. line \in 1 .. Len(h) + 1 /\ line <= Len(h)
    BY <1>1, <1>3
  <2> QED BY <2>1, <2>2
<1>5. h[1].call = "start" /\ h[line].call = name
  BY <1>1, <1>3 DEF Lines
<1>6. \/ StartLine(file, h, line) \/ NumberLine(file, h, line)
      \/ PointerLine(file, h, line) \/ EndLine(file, h, line)
  BY <1>3, <1>4 DEF Lines
<1>7. /\ name = "start" => StartLine(file, h, line)
      /\ name = "number" => NumberLine(file, h, line)
      /\ name = "pointer" => PointerLine(file, h, line)
      /\ name = "end" => EndLine(file, h, line)
  BY <1>5, <1>6 DEF StartLine, NumberLine, PointerLine, EndLine
<1>8. name # "start" => line > 1
  BY <1>4, <1>5
<1> QED BY <1>1, <1>2, <1>3, <1>4, <1>7, <1>8

(* A refused read leaves nothing to show but the table. *)
LEMMA Refused ==
  ASSUME ReaderInv, Typed, RightIds(file, found), NEW x \in Errors, Throw(x)
  PROVE  Typed' /\ RightIds(file, found)' /\ Exact'
<1>1. step' \in Errors
  BY DEF Throw
<1>2. step' \notin {"open", "table", "header", "sections", "done"}
  BY <1>1 DEF Errors
<1>3. UNCHANGED <<file, as, pos, found, reading, line, header, access>>
  BY DEF Throw
<1>4. Typed'
  BY <1>2, <1>3 DEF Typed
<1>5. Exact'
  BY <1>2 DEF Exact
<1>6. RightIds(file, found)'
  BY <1>3
<1> QED BY <1>4, <1>5, <1>6

LEMMA FieldSkipped ==
  ASSUME NEW type, NEW h, NEW m \in Nat \ {0}, Fetched(type, h, m),
         CallsOf(type)[m].call \notin {"number", "pointer"}
  PROVE  Fetched(type, h, m + 1)
<1> SUFFICES ASSUME NEW j \in 1 .. m, CallsOf(type)[j].call \in {"number", "pointer"}
             PROVE  CallsOf(type)[j].name \in DOMAIN h /\ h[CallsOf(type)[j].name] \in Nat
  BY DEF Fetched
<1>1. j # m
  OBVIOUS
<1>2. j \in 1 .. m - 1
  BY <1>1
<1> QED BY <1>2 DEF Fetched

(* What is read for a field is a number. *)
LEMMA FieldType ==
  ASSUME ReaderInv, Typed, Call("number"), NEW v \in FieldValues(LoadHeader[line].name)
  PROVE  v \in Nat
<1> DEFINE name == LoadHeader[line].name
<1>1. name \in Fields(file.type) /\ file.type \in {"zkey", "wtns"}
  BY LineOf DEF NumberLine
<1>2. file.number[name] \in Nat
  BY <1>1, LayoutAssumption, FilesAssumption DEF ReaderInv
<1>3. v = file.number[name] \/ v \in Garbage
  BY DEF FieldValues
<1> QED BY <1>2, <1>3, FilesAssumption

LEMMA PointerType ==
  ASSUME ReaderInv, Typed, Call("pointer")
  PROVE  (header[LoadHeader[line].size] * LoadHeader[line].times) % Word \in Nat
<1>1. PICK h : h = LoadHeader /\ h = CallsOf(as) /\ PointerLine(file, h, line)
               /\ Fetched(as, header, line)
  BY LineOf
<1>2. PICK i \in 1 .. line - 1 : h[i].call = "number" /\ h[i].name = h[line].size
  BY <1>1 DEF PointerLine
<1>3. header[h[line].size] \in Nat
  BY <1>1, <1>2 DEF Fetched
<1>4. h[line].times \in Nat
  BY <1>1 DEF PointerLine
<1>5. PICK x \in Nat : x = header[h[line].size] * h[line].times
  BY <1>3, <1>4
<1>6. x % Word \in Nat
  BY FilesAssumption
<1> QED BY <1>1, <1>5, <1>6

-----------------------------------------------------------------------------
OpenedInv == ReaderInv /\ Typed /\ RightIds(file, found) /\ Exact

(* An entry of the table is the one of the section written there.          *)
LEMMA EntryRight ==
  ASSUME file \in Files, pos \in Nat, NEW e \in TableEntries, NEW k \in Heads(file, pos + 12)
  PROVE  e.id = file.sections[k].id /\ e.size = file.sections[k].size
<1>1. k \in 1 .. Len(file.sections) /\ HeadAt(file, k) + 12 = pos + 12
  BY DEF Heads
<1>2. HeadAt(file, k) \in Nat
  <2>1. k <= k /\ k \in Nat /\ k <= Len(file.sections)
    BY <1>1
  <2> QED BY <1>1, <2>1, HeadLater
<1>3. k \in Written(pos, 0)
  BY <1>1, <1>2 DEF Written
<1>4. PICK j \in Written(pos, 0) :
        e = [id |-> file.sections[j].id, size |-> file.sections[j].size]
  BY <1>3 DEF TableEntries
<1>5. j = k
  BY <1>3, <1>4, WrittenOnce
<1> QED BY <1>4, <1>5

LEMMA OpenFileStep == ASSUME OpenedInv, OpenFile PROVE Typed' /\ RightIds(file, found)' /\ Exact'
<1>1. ASSUME NEW x \in Errors, Throw(x) PROVE Typed' /\ RightIds(file, found)' /\ Exact'
  BY <1>1, Refused DEF OpenedInv
<1>2. ASSUME file.type = as, file.version <= MaxVersion, step' = "table", Read(0, HeaderSize),
             UNCHANGED <<file, as, found, reading, line, header>>, step = "open"
      PROVE  Typed' /\ RightIds(file, found)' /\ Exact'
  <2>1. Exact' /\ RightIds(file, found)'
    BY <1>2 DEF Exact, OpenedInv
  <2>2. access'.to > 0
    BY <1>2 DEF Read, HeaderSize
  <2>3. found = << >> /\ line = 1 /\ as \in {"zkey", "wtns"} /\ file.nSections \in Nat
    BY <1>2, FileType DEF OpenedInv, Typed, ReaderInv
  <2>4. MaxVersion' = MaxVersion
    BY <1>2 DEF MaxVersion
  <2>5. Len(found') <= file.nSections /\ \A k \in DOMAIN found' : found'[k].start >= HeaderSize
    BY <1>2, <2>3
  <2> QED BY <1>2, <2>1, <2>2, <2>3, <2>4, <2>5 DEF Typed
<1> QED BY <1>1, <1>2 DEF OpenFile, Errors

LEMMA ReadTableStep == ASSUME OpenedInv, ReadTable PROVE Typed' /\ RightIds(file, found)' /\ Exact'
<1>1. ASSUME NEW x \in Errors, Throw(x) PROVE Typed' /\ RightIds(file, found)' /\ Exact'
  BY <1>1, Refused DEF OpenedInv
<1>2. ASSUME NEW e \in TableEntries,
             found' = Append(found, [id |-> e.id, start |-> pos + 12, size |-> e.size]),
             Read(pos, pos + 12), step = "table", Len(found) < file.nSections,
             UNCHANGED <<file, as, step, reading, line, header>>
      PROVE  Typed' /\ RightIds(file, found)' /\ Exact'
  <2>1. pos \in Nat /\ file \in Files /\ file.nSections \in Nat /\ found \in Seq(Found)
    BY <1>2, FileType DEF OpenedInv, ReaderInv
  <2>2. PICK s : s = [id |-> e.id, start |-> pos + 12, size |-> e.size]
    OBVIOUS
  <2>3. s.start = pos + 12 /\ s.id = e.id
    BY <2>2
  <2>4. /\ Len(found') = Len(found) + 1 /\ Len(found) \in Nat
        /\ DOMAIN found' = 1 .. Len(found) + 1 /\ DOMAIN found = 1 .. Len(found)
        /\ \A k \in DOMAIN found' : found'[k] = IF k = Len(found) + 1 THEN s ELSE found[k]
    <3>1. s \in Found
      BY <2>1, <2>2, EntryType DEF Found
    <3> QED BY <1>2, <2>1, <2>2, <3>1
  <2>5. Exact'
    BY <1>2 DEF Exact
  <2>6. Typed'
    <3>1. access'.to > 0
      BY <1>2, <2>1 DEF Read
    <3>2. \A k \in DOMAIN found' : found'[k].start >= HeaderSize
      <4> TAKE k \in DOMAIN found'
      <4>1. CASE k = Len(found) + 1
        BY <2>1, <2>3, <2>4, <4>1 DEF HeaderSize
      <4>2. CASE k \in DOMAIN found
        BY <2>4, <4>2 DEF OpenedInv, Typed
      <4> QED BY <2>4, <4>1, <4>2
    <3>3. MaxVersion' = MaxVersion
      BY <1>2 DEF MaxVersion
    <3>4. Len(found') <= file.nSections
      BY <1>2, <2>1, <2>4
    <3> QED BY <1>2, <3>1, <3>2, <3>3, <3>4 DEF OpenedInv, Typed
  <2>7. RightIds(file, found)'
    <3> SUFFICES ASSUME NEW j \in DOMAIN found', NEW k \in Heads(file, found'[j].start)
                 PROVE  found'[j].id = file.sections[k].id
      BY <1>2 DEF RightIds
    <3>1. CASE j = Len(found) + 1
      BY <2>1, <2>3, <2>4, <3>1, EntryRight
    <3>2. CASE j \in DOMAIN found
      <4>1. found'[j] = found[j]
        BY <2>4, <3>2
      <4> QED BY <3>2, <4>1 DEF OpenedInv, RightIds
    <3> QED BY <2>4, <3>1, <3>2
  <2> QED BY <2>5, <2>6, <2>7
<1> QED BY <1>1, <1>2 DEF ReadTable, Round, Errors

LEMMA TableReadStep == ASSUME OpenedInv, TableRead PROVE Typed' /\ RightIds(file, found)' /\ Exact'
<1>1. /\ step = "table" /\ Len(found) = file.nSections /\ step' = "header" /\ pos' = 0
      /\ UNCHANGED <<file, as, found, reading, line, header, access>>
  BY DEF TableRead
<1>2. line = 1 /\ as \in {"zkey", "wtns"} /\ file.type = as /\ file \in Files
  BY <1>1 DEF OpenedInv, Typed, ReaderInv
<1>3. PICK h : h = CallsOf(file.type) /\ Len(h) \in {5, 18} /\ h[1].call = "start"
  BY <1>2, CallLines DEF Lines
<1>4. Typed'
  <2>1. line' \in 1 .. Len(CallsOf(as)) + 1
    <3>1. 1 \in 1 .. Len(h) + 1
      BY <1>3
    <3> QED BY <1>1, <1>2, <1>3, <3>1
  <2>2. Fetched(as, header, line)'
    <3>1. Fetched(as, header, 1)
      BY DEF Fetched
    <3> QED BY <1>1, <1>2, <3>1
  <2>3. MaxVersion' = MaxVersion
    BY <1>1 DEF MaxVersion
  <2>4. /\ \A k \in DOMAIN found : found[k].start >= HeaderSize
        /\ file.version <= MaxVersion /\ access.to > 0
    BY <1>1 DEF OpenedInv, Typed
  <2>5. pos' \in Nat /\ ~(line' > 1)
    BY <1>1, <1>2
  <2> QED BY <1>1, <1>2, <2>1, <2>2, <2>3, <2>4, <2>5 DEF Typed
<1>5. RightIds(file, found)'
  BY <1>1 DEF OpenedInv
<1>6. Exact'
  <2>1. /\ NumbersRead(file, header, 1) /\ SectionsRead(file, found, 1)
    BY DEF NumbersRead, SectionsRead
  <2>2. InPlace(file, found, 1, reading, 0)
    BY <1>3 DEF InPlace
  <2> QED BY <1>1, <1>2, <2>1, <2>2 DEF Exact
<1> QED BY <1>4, <1>5, <1>6

-----------------------------------------------------------------------------
LEMMA NextLine ==
  ASSUME NEW n \in Nat, NEW m \in 1 .. n
  PROVE  m + 1 \in 1 .. n + 1 /\ (m + 1 <= n => m \in 1 .. n - 1)
OBVIOUS

(* One call of loadHeader has been done. *)
LEMMA Advance ==
  ASSUME OpenedInv, NEW name, Call(name), line' = line + 1, UNCHANGED <<file, as, step, found>>,
         pos' \in Nat, pos' >= HeaderSize, access'.to > 0, Fetched(as, header', line + 1)
  PROVE  Typed' /\ RightIds(file, found)'
<1>1. PICK n \in Nat : n = Len(CallsOf(as)) /\ line \in 1 .. n
  <2>1. ReaderInv /\ Typed
    BY DEF OpenedInv
  <2>2. LoadHeader = CallsOf(as) /\ Lines(file, LoadHeader) /\ line \in 1 .. Len(LoadHeader)
    BY <2>1, LineOf
  <2>3. PICK n \in Nat : n = Len(LoadHeader)
    BY <2>2 DEF Lines
  <2> QED BY <2>2, <2>3
<1>2. line' \in 1 .. n + 1
  BY <1>1, NextLine
<1>3. /\ step = "header" /\ as \in {"zkey", "wtns"} /\ file.type = as
      /\ file.version <= MaxVersion /\ Len(found) = file.nSections
      /\ \A k \in DOMAIN found : found[k].start >= HeaderSize
  BY DEF OpenedInv, Typed, Call
<1>4. MaxVersion' = MaxVersion
  BY DEF MaxVersion
<1>5. Typed'
  BY <1>1, <1>2, <1>3, <1>4 DEF Typed
<1> QED BY <1>5 DEF OpenedInv

(* Only a number adds to NumbersRead, only an end to SectionsRead.         *)
LEMMA NumbersSkipped ==
  ASSUME NEW f, NEW h, NEW m \in Nat \ {0}, NumbersRead(f, h, m), CallsOf(f.type)[m].call # "number"
  PROVE  NumbersRead(f, h, m + 1)
<1> SUFFICES ASSUME NEW j \in 1 .. m, CallsOf(f.type)[j].call = "number"
             PROVE  h[CallsOf(f.type)[j].name] = f.number[CallsOf(f.type)[j].name]
  BY DEF NumbersRead
<1>1. j # m
  OBVIOUS
<1>2. j \in 1 .. m - 1
  BY <1>1
<1> QED BY <1>2 DEF NumbersRead

LEMMA SectionsSkipped ==
  ASSUME NEW f, NEW s, NEW m \in Nat \ {0}, SectionsRead(f, s, m), CallsOf(f.type)[m].call # "end"
  PROVE  SectionsRead(f, s, m + 1)
<1> SUFFICES ASSUME NEW j \in 1 .. m, CallsOf(f.type)[j].call = "end"
             PROVE  /\ SectionOf(f.type, j) \in IdsOf(s)
                    /\ s[FirstOf(s, SectionOf(f.type, j))].size = Offset(f, j)
  BY DEF SectionsRead
<1>1. j # m
  OBVIOUS
<1>2. j \in 1 .. m - 1
  BY <1>1
<1> QED BY <1>2 DEF SectionsRead

LEMMA StartStep ==
  ASSUME OpenedInv, StartReadSection PROVE Typed' /\ RightIds(file, found)' /\ Exact'
<1> DEFINE id == LoadHeader[line].id
<1>1. ASSUME NEW x \in Errors, Throw(x) PROVE Typed' /\ RightIds(file, found)' /\ Exact'
  BY <1>1, Refused DEF OpenedInv
<1>2. ASSUME id \in Ids, reading' = First(id), pos' = found[First(id)].start, line' = line + 1,
             UNCHANGED <<file, as, step, found, header, access>>, Call("start")
      PROVE  Typed' /\ RightIds(file, found)' /\ Exact'
  <2>1. /\ step = "header" /\ file.type = as /\ line \in Nat \ {0}
        /\ LoadHeader = CallsOf(file.type) /\ LoadHeader[line].call = "start"
        /\ StartLine(file, LoadHeader, line) /\ Fetched(as, header, line)
    BY <1>2, LineOf DEF OpenedInv
  <2>2. id \in IdsOf(found) /\ First(id) = FirstOf(found, id) /\ found \in Seq(Found)
    BY <1>2 DEF Ids, IdsOf, First, FirstOf, OpenedInv, ReaderInv
  <2>3. First(id) \in DOMAIN found /\ found[First(id)].start \in Nat
    <3> HIDE DEF id
    <3>1. First(id) \in DOMAIN found
      BY <2>2, FirstFound
    <3>2. found[First(id)] \in Found
      BY <2>2, <3>1
    <3> QED BY <3>1, <3>2 DEF Found
  <2>4. Typed' /\ RightIds(file, found)'
    <3>1. Fetched(as, header', line + 1)
      BY <1>2, <2>1, FieldSkipped
    <3>2. pos' >= HeaderSize
      BY <1>2, <2>3 DEF OpenedInv, Typed
    <3>3. access'.to > 0
      BY <1>2, <2>1 DEF OpenedInv, Typed
    <3> QED BY <1>2, <2>3, <3>1, <3>2, <3>3, Advance
  <2>5. Exact'
    <3> SUFFICES ASSUME InTable(file, found)
                 PROVE  /\ NumbersRead(file, header, line + 1)
                        /\ SectionsRead(file, found, line + 1)
                        /\ InPlace(file, found, line + 1, reading', pos')
      BY <1>2, <2>1 DEF Exact
    <3>1. NumbersRead(file, header, line) /\ SectionsRead(file, found, line)
      BY <2>1 DEF OpenedInv, Exact
    <3>2. NumbersRead(file, header, line + 1) /\ SectionsRead(file, found, line + 1)
      BY <2>1, <3>1, NumbersSkipped, SectionsSkipped
    <3>3. /\ SectionOf(file.type, line + 1) = id /\ Offset(file, line + 1) = 0
      BY <2>1 DEF StartLine
    <3>4. InPlace(file, found, line + 1, reading', pos')
      <4> HIDE DEF id
      <4> QED BY <1>2, <2>2, <2>3, <3>3 DEF InPlace
    <3> QED BY <3>2, <3>4
  <2> QED BY <2>4, <2>5
<1> QED BY <1>1, <1>2 DEF StartReadSection, Errors

(* Where a section is read, the reader is in its first copy in the table.  *)
LEMMA PlaceOf ==
  ASSUME OpenedInv, NEW name, Call(name), name # "start", InTable(file, found)
  PROVE  LET id == SectionOf(file.type, line)
             s == found[reading]
         IN /\ id \in IdsOf(found) /\ reading = FirstOf(found, id) /\ reading \in DOMAIN found
            /\ s \in Found /\ s.id = id /\ pos = s.start + Offset(file, line)
            /\ \E k \in 1 .. Len(file.sections) :
                 /\ HeadAt(file, k) + 12 = s.start
                 /\ file.sections[k].len \in Nat /\ Sized(file, id, file.sections[k].len)
<1>1. /\ step = "header" /\ line \in 1 .. Len(LoadHeader) /\ line \in Nat \ {0}
      /\ LoadHeader = CallsOf(file.type) /\ LoadHeader[line].call = name
      /\ file \in Files /\ found \in Seq(Found) /\ file.type \in {"zkey", "wtns"}
  BY LineOf DEF OpenedInv, ReaderInv
<1>2. PICK id : id = SectionOf(file.type, line)
  OBVIOUS
<1>3. id \in IdsOf(found) /\ reading = FirstOf(found, id)
      /\ pos = found[reading].start + Offset(file, line)
  <2>1. line <= Len(LoadHeader)
    BY <1>1 DEF Call
  <2>2. InPlace(file, found, line, reading, pos)
    BY <1>1 DEF OpenedInv, Exact
  <2> QED BY <1>1, <1>2, <2>1, <2>2 DEF InPlace
<1>4. reading \in DOMAIN found /\ found[reading].id = id
  BY <1>1, <1>3, FirstFound
<1>5. PICK k \in Heads(file, found[reading].start) : TRUE
  BY <1>4 DEF InTable
<1>6. k \in 1 .. Len(file.sections) /\ HeadAt(file, k) + 12 = found[reading].start
  BY <1>5 DEF Heads
<1>7. file.sections[k].id = id
  BY <1>4, <1>5 DEF OpenedInv, RightIds
<1>8. file.sections[k].len \in Nat /\ Sized(file, id, file.sections[k].len)
  BY <1>1, <1>6, <1>7, FileType, LayoutAssumption DEF Section
<1> QED BY <1>1, <1>2, <1>3, <1>4, <1>6, <1>8

LEMMA EndStep ==
  ASSUME OpenedInv, EndReadSection PROVE Typed' /\ RightIds(file, found)' /\ Exact'
<1>1. ASSUME NEW x \in Errors, Throw(x) PROVE Typed' /\ RightIds(file, found)' /\ Exact'
  BY <1>1, Refused DEF OpenedInv
<1>2. ASSUME pos = found[reading].start + found[reading].size, line' = line + 1,
             UNCHANGED <<file, as, step, pos, found, header, access>>, Call("end")
      PROVE  Typed' /\ RightIds(file, found)' /\ Exact'
  <2>1. /\ step = "header" /\ file.type = as /\ line \in Nat \ {0} /\ line \in 1 .. Len(LoadHeader)
        /\ LoadHeader = CallsOf(file.type) /\ LoadHeader[line].call = "end"
        /\ Lines(file, LoadHeader) /\ EndLine(file, LoadHeader, line)
        /\ Fetched(as, header, line) /\ pos \in Nat /\ pos >= HeaderSize
    <3>1. ReaderInv /\ Typed
      BY DEF OpenedInv
    <3>2. Call("end") /\ "end" # "start"
      BY <1>2
    <3> QED BY <3>1, <3>2, LineOf
  <2>2. Typed' /\ RightIds(file, found)'
    <3>1. Fetched(as, header', line + 1)
      BY <1>2, <2>1, FieldSkipped
    <3>2. access'.to > 0
      BY <1>2, <2>1 DEF OpenedInv, Typed
    <3> QED BY <1>2, <2>1, <3>1, <3>2, Advance
  <2>3. Exact'
    <3> SUFFICES ASSUME InTable(file, found)
                 PROVE  /\ NumbersRead(file, header, line + 1)
                        /\ SectionsRead(file, found, line + 1)
                        /\ InPlace(file, found, line + 1, reading', pos')
      BY <1>2, <2>1 DEF Exact
    <3>1. NumbersRead(file, header, line) /\ SectionsRead(file, found, line)
      BY <2>1 DEF OpenedInv, Exact
    <3>2. NumbersRead(file, header, line + 1)
      BY <2>1, <3>1, NumbersSkipped
    <3>3. SectionsRead(file, found, line + 1)
      <4>1. PICK id, s :
              /\ id = SectionOf(file.type, line) /\ s = found[reading] /\ id \in IdsOf(found)
              /\ reading = FirstOf(found, id) /\ s \in Found
              /\ pos = s.start + Offset(file, line)
              /\ \E k \in 1 .. Len(file.sections) :
                   file.sections[k].len \in Nat /\ Sized(file, id, file.sections[k].len)
        BY <1>2, PlaceOf
      <4>2. s.size = Offset(file, line)
        <5>1. Offset(file, line) \in Nat
          BY <2>1, <4>1 DEF EndLine
        <5>2. s.start \in Nat /\ s.size \in Nat /\ pos = s.start + s.size
          BY <1>2, <4>1 DEF Found
        <5> QED BY <4>1, <5>1, <5>2
      <4> SUFFICES ASSUME NEW j \in 1 .. line, CallsOf(file.type)[j].call = "end"
                   PROVE  /\ SectionOf(file.type, j) \in IdsOf(found)
                          /\ found[FirstOf(found, SectionOf(file.type, j))].size = Offset(file, j)
        <5>1. (line + 1) - 1 = line
          BY <2>1
        <5> QED BY <5>1 DEF SectionsRead
      <4>3. CASE j = line
        BY <4>1, <4>2, <4>3
      <4>4. CASE j # line
        <5>1. j \in 1 .. line - 1
          BY <2>1, <4>4
        <5> QED BY <3>1, <5>1 DEF SectionsRead
      <4> QED BY <4>3, <4>4
    <3>4. InPlace(file, found, line + 1, reading', pos')
      <4>1. line + 1 <= Len(LoadHeader) => LoadHeader[line + 1].call = "start"
        <5> SUFFICES ASSUME line + 1 <= Len(LoadHeader) PROVE LoadHeader[line + 1].call = "start"
          OBVIOUS
        <5>1. PICK n \in Nat : n = Len(LoadHeader)
          BY <2>1 DEF Lines
        <5>2. line \in 1 .. n - 1
          BY <2>1, <5>1, NextLine
        <5> QED BY <2>1, <5>1, <5>2 DEF Lines
      <4> QED BY <2>1, <4>1 DEF InPlace
    <3> QED BY <3>2, <3>3, <3>4
  <2> QED BY <2>2, <2>3
<1> QED BY <1>1, <1>2 DEF EndReadSection, EndSection, Errors

-----------------------------------------------------------------------------
(* A field has been read, as the line before it says. *)
LEMMA Stored ==
  ASSUME OpenedInv, NEW name \in {"number", "pointer"}, Call(name), NEW v \in Nat, NEW len \in Nat,
         header' = [n \in DOMAIN header \cup {LoadHeader[line].name} |->
                      IF n = LoadHeader[line].name THEN v ELSE header[n]],
         pos' = pos + len, access'.to > 0, line' = line + 1,
         UNCHANGED <<file, as, step, found, reading>>,
         InTable(file, found) =>
           /\ Offset(file, line + 1) = Offset(file, line) + len
           /\ name = "number" => v = file.number[LoadHeader[line].name]
  PROVE  Typed' /\ RightIds(file, found)' /\ Exact'
<1>1. ReaderInv /\ Typed
  BY DEF OpenedInv
<1>2. /\ step = "header" /\ file.type = as /\ line \in Nat \ {0} /\ line \in 1 .. Len(LoadHeader)
      /\ LoadHeader = CallsOf(file.type) /\ LoadHeader[line].call = name
      /\ file \in Files /\ file.type \in {"zkey", "wtns"}
      /\ Fetched(as, header, line) /\ pos \in Nat /\ pos >= HeaderSize
  BY <1>1, LineOf DEF ReaderInv
<1>3. SectionOf(file.type, line + 1) = SectionOf(file.type, line) /\ Offset(file, line) \in Nat
  BY <1>1, LineOf DEF NumberLine, PointerLine
<1>4. Typed' /\ RightIds(file, found)'
  <2> DEFINE field == CallsOf(as)[line].name
  <2>1. LoadHeader[line].name = field /\ line \in Nat \ {0} /\ Fetched(as, header, line)
    BY <1>2
  <2> HIDE DEF field
  <2>2. /\ field \in DOMAIN header' /\ header'[field] \in Nat
        /\ \A n \in DOMAIN header : n \in DOMAIN header' /\ (n # field => header'[n] = header[n])
    BY <2>1
  <2>3. Fetched(as, header', line + 1)
    BY ONLY <2>1, <2>2, FieldStored DEF field
  <2>4. pos' \in Nat /\ pos' >= HeaderSize
    BY <1>2 DEF HeaderSize
  <2> QED BY <2>3, <2>4, Advance
<1>5. Exact'
  <2> SUFFICES ASSUME InTable(file, found)
               PROVE  /\ NumbersRead(file, header', line + 1)
                      /\ SectionsRead(file, found, line + 1)
                      /\ InPlace(file, found, line + 1, reading', pos')
    BY <1>2 DEF Exact
  <2>1. NumbersRead(file, header, line) /\ SectionsRead(file, found, line)
    BY <1>2 DEF OpenedInv, Exact
  <2>2. NumbersRead(file, header', line + 1)
    <3>1. /\ Fetched(file.type, header, line) /\ line \in 1 .. Len(CallsOf(file.type))
          /\ CallsOf(file.type)[line].call \in {"number", "pointer"}
          /\ CallsOf(file.type)[line].call = "number" =>
               header'[CallsOf(file.type)[line].name] = file.number[CallsOf(file.type)[line].name]
          /\ \A n \in DOMAIN header : n # CallsOf(file.type)[line].name => header'[n] = header[n]
      BY <1>2
    <3>2. NumbersRead(file, header, line) /\ file \in Files /\ file.type \in {"zkey", "wtns"}
      BY <1>2, <2>1
    <3> QED BY <3>1, <3>2, NumberStored
  <2>3. SectionsRead(file, found, line + 1)
    BY <1>2, <2>1, SectionsSkipped
  <2>4. InPlace(file, found, line + 1, reading', pos')
    <3>1. PICK id, s :
            /\ id = SectionOf(file.type, line) /\ s = found[reading] /\ id \in IdsOf(found)
            /\ reading = FirstOf(found, id) /\ s \in Found
            /\ pos = s.start + Offset(file, line)
      BY PlaceOf
    <3>2. PICK a \in Nat, b \in Nat : a = s.start /\ b = Offset(file, line)
      BY <1>3, <3>1 DEF Found
    <3>3. pos' = s.start + Offset(file, line + 1)
      <4>1. pos = a + b /\ Offset(file, line + 1) = b + len
        BY <3>1, <3>2
      <4> QED BY <3>2, <4>1
    <3> QED BY <1>3, <3>1, <3>3 DEF InPlace
  <2> QED BY <2>2, <2>3, <2>4
<1> QED BY <1>4, <1>5

LEMMA NumberStep ==
  ASSUME OpenedInv, ReadNumber PROVE Typed' /\ RightIds(file, found)' /\ Exact'
<1> DEFINE name == LoadHeader[line].name
<1>1. ASSUME NEW x \in Errors, Throw(x) PROVE Typed' /\ RightIds(file, found)' /\ Exact'
  BY <1>1, Refused DEF OpenedInv
<1>2. ASSUME NEW v \in FieldValues(name), Call("number"),
             header' = [n \in DOMAIN header \cup {name} |-> IF n = name THEN v ELSE header[n]],
             pos' = pos + 4, Read(pos, pos + 4), line' = line + 1,
             UNCHANGED <<file, as, step, found, reading>>
      PROVE  Typed' /\ RightIds(file, found)' /\ Exact'
  <2>1. ReaderInv /\ Typed
    BY DEF OpenedInv
  <2>2. v \in Nat
    BY <1>2, <2>1, FieldType
  <2>3. pos \in Nat /\ NumberLine(file, LoadHeader, line)
    BY <1>2, <2>1, LineOf
  <2>4. access'.to > 0
    BY <1>2, <2>3 DEF Read
  <2>5. Offset(file, line + 1) = Offset(file, line) + 4
    BY <2>3 DEF NumberLine
  <2>6. ASSUME InTable(file, found) PROVE v = file.number[name]
    <3>1. PICK k \in 1 .. Len(file.sections) :
            /\ found[reading] \in Found /\ pos = found[reading].start + Offset(file, line)
            /\ HeadAt(file, k) + 12 = found[reading].start
            /\ file.sections[k].len \in Nat
            /\ Sized(file, SectionOf(file.type, line), file.sections[k].len)
      <4>1. Call("number") /\ "number" # "start"
        BY <1>2
      <4> QED BY <2>6, <4>1, PlaceOf
    <3>2. Offset(file, line) \in Nat /\ Offset(file, line) + 4 <= file.sections[k].len
      BY <2>3, <3>1 DEF NumberLine
    <3>3. pos + 4 <= found[reading].start + file.sections[k].len
      <4>1. PICK b \in Nat, o \in Nat, n \in Nat :
              b = found[reading].start /\ o = Offset(file, line) /\ n = file.sections[k].len
        BY <3>1, <3>2 DEF Found
      <4>2. pos = b + o /\ o + 4 <= n
        BY <3>1, <3>2, <4>1
      <4>3. pos + 4 <= b + n
        BY <4>2
      <4> QED BY <4>1, <4>3
    <3>4. k \in Written(found[reading].start, 12)
      BY <3>1 DEF Written
    <3>5. FieldValues(name) = {file.number[name]}
      BY <3>3, <3>4 DEF FieldValues
    <3> QED BY <1>2, <3>5
  <2> HIDE DEF name
  <2> QED BY <1>2, <2>2, <2>4, <2>5, <2>6, Stored DEF name
<1> QED BY <1>1, <1>2 DEF ReadNumber, Errors

LEMMA PointerStep ==
  ASSUME OpenedInv, ReadPointer PROVE Typed' /\ RightIds(file, found)' /\ Exact'
<1> DEFINE op == LoadHeader[line]
           len == (header[op.size] * op.times) % Word
<1>1. ASSUME NEW x \in Errors, Throw(x) PROVE Typed' /\ RightIds(file, found)' /\ Exact'
  BY <1>1, Refused DEF OpenedInv
<1>2. ASSUME Call("pointer"),
             header' = [n \in DOMAIN header \cup {op.name} |-> IF n = op.name THEN pos ELSE header[n]],
             pos' = pos + len, Read(pos, pos + len), line' = line + 1,
             UNCHANGED <<file, as, step, found, reading>>
      PROVE  Typed' /\ RightIds(file, found)' /\ Exact'
  <2>1. ReaderInv /\ Typed
    BY DEF OpenedInv
  <2>2. len \in Nat
    BY <1>2, <2>1, PointerType
  <2>3. /\ pos \in Nat /\ pos >= HeaderSize /\ step = "header" /\ LoadHeader = CallsOf(file.type)
        /\ PointerLine(file, LoadHeader, line)
    <3>1. Call("pointer") /\ "pointer" # "start"
      BY <1>2
    <3>2. pos \in Nat /\ step = "header" /\ LoadHeader = CallsOf(file.type)
      BY <2>1, <3>1, LineOf
    <3>3. pos >= HeaderSize
      BY <2>1, <3>1, LineOf
    <3>4. PointerLine(file, LoadHeader, line)
      BY <2>1, <3>1, LineOf
    <3> QED BY <3>2, <3>3, <3>4
  <2>4. access'.to > 0
    <3> HIDE DEF len
    <3> QED BY <1>2, <2>2, <2>3 DEF Read, HeaderSize
  <2>5. ASSUME InTable(file, found) PROVE Offset(file, line + 1) = Offset(file, line) + len
    <3>1. PICK i \in 1 .. line - 1 : LoadHeader[i].call = "number" /\ LoadHeader[i].name = op.size
      BY <2>3 DEF PointerLine
    <3>2. NumbersRead(file, header, line)
      BY <2>3, <2>5 DEF OpenedInv, Exact
    <3>3. header[op.size] = file.number[op.size]
      BY <2>3, <3>1, <3>2 DEF NumbersRead
    <3> QED BY <2>3, <3>3 DEF PointerLine
  <2> HIDE DEF len
  <2> QED BY <1>2, <2>2, <2>3, <2>4, <2>5, Stored
<1> QED BY <1>1, <1>2 DEF ReadPointer, Errors

-----------------------------------------------------------------------------
LEMMA HeaderReadStep ==
  ASSUME OpenedInv, HeaderRead PROVE Typed' /\ RightIds(file, found)' /\ Exact'
<1>1. ASSUME NEW x \in Errors, Throw(x) PROVE Typed' /\ RightIds(file, found)' /\ Exact'
  BY <1>1, Refused DEF OpenedInv
<1>2. ASSUME as = "zkey" => 4 \in Ids, step = "header", step' = "sections",
             line > Len(LoadHeader),
             header' = IF as = "zkey"
                       THEN [n \in DOMAIN header \cup {"nCoefs"} |->
                               IF n = "nCoefs" THEN NumberOfCoefs ELSE header[n]]
                       ELSE header,
             UNCHANGED <<file, as, pos, found, reading, line, access>>
      PROVE  Typed' /\ RightIds(file, found)' /\ Exact'
  <2>1. RightIds(file, found)'
    BY <1>2 DEF OpenedInv
  <2>2. Typed'
    <3>1. MaxVersion' = MaxVersion
      BY <1>2 DEF MaxVersion
    <3> QED BY <1>2, <3>1 DEF OpenedInv, Typed
  <2>3. Exact'
    <3> SUFFICES ASSUME InTable(file, found)
                 PROVE  /\ NumbersRead(file, header', Len(CallsOf(as)) + 1)
                        /\ SectionsRead(file, found, Len(CallsOf(as)) + 1)
                        /\ as = "zkey" =>
                             /\ 4 \in IdsOf(found)
                             /\ header'["nCoefs"] =
                                  found[FirstOf(found, 4)].size
                                    \div ((12 + file.number["n8r"]) % Word)
      BY <1>2 DEF Exact
    <3>1. /\ file.type = as /\ as \in {"zkey", "wtns"} /\ file \in Files
          /\ line \in 1 .. Len(CallsOf(as)) + 1 /\ Fetched(as, header, line)
          /\ NumbersRead(file, header, line) /\ SectionsRead(file, found, line)
      BY <1>2 DEF OpenedInv, Typed, ReaderInv, Exact
    <3>2. PICK h : h = CallsOf(as) /\ h = LoadHeader /\ Lines(file, h)
      BY <3>1, CallLines DEF CallsOf, LoadHeader
    <3>3. PICK m \in Nat : m = Len(h)
      BY <3>2 DEF Lines
    <3>4. line = m + 1
      BY <1>2, <3>1, <3>2, <3>3
    <3>5. ASSUME NEW j \in 1 .. m, h[j].call = "number"
          PROVE  /\ h[j].name \in DOMAIN header /\ header[h[j].name] = file.number[h[j].name]
                 /\ header'[h[j].name] = header[h[j].name]
      <4>1. NumberLine(file, h, j)
        BY <3>2, <3>3, <3>5 DEF Lines, StartLine, PointerLine, EndLine
      <4>2. h[j].name # "nCoefs"
        BY <4>1 DEF NumberLine
      <4>3. line - 1 = m
        BY <3>4
      <4>4. h[j].name \in DOMAIN header /\ header[h[j].name] = file.number[h[j].name]
        BY <3>1, <3>2, <3>5, <4>3 DEF Fetched, NumbersRead
      <4> QED BY <1>2, <4>2, <4>4
    <3>6. NumbersRead(file, header', m + 1)
      <4>1. (m + 1) - 1 = m
        OBVIOUS
      <4> QED BY <3>1, <3>2, <3>5, <4>1 DEF NumbersRead
    <3>7. ASSUME as = "zkey"
          PROVE  /\ 4 \in IdsOf(found)
                 /\ header'["nCoefs"] =
                      found[FirstOf(found, 4)].size \div ((12 + file.number["n8r"]) % Word)
      <4>1. m = 18 /\ h[7].call = "number" /\ h[7].name = "n8r"
        <5>1. h = ZkeyHeader
          BY <3>2, <3>7 DEF CallsOf
        <5> QED BY <3>3, <5>1, ZkeyLines, Forms
      <4>2. header["n8r"] = file.number["n8r"]
        BY <3>5, <4>1
      <4>3. Ids = IdsOf(found) /\ First(4) = FirstOf(found, 4)
        BY DEF Ids, IdsOf, First, FirstOf
      <4>4. header'["nCoefs"] = NumberOfCoefs
        BY <1>2, <3>7
      <4>5. CoefSize = 12 + file.number["n8r"] /\ CoefSize # 0
        <5>1. file.number["n8r"] \in Nat /\ 12 + file.number["n8r"] < Word
          BY <3>1, <3>7, FilesAssumption, LayoutAssumption DEF Fields
        <5> QED BY <4>2, <5>1, FilesAssumption DEF CoefSize
      <4>6. (12 + file.number["n8r"]) % Word = CoefSize
        BY <4>2 DEF CoefSize
      <4> QED BY <1>2, <3>7, <4>3, <4>4, <4>5, <4>6 DEF NumberOfCoefs
    <3> QED BY <3>1, <3>2, <3>3, <3>4, <3>6, <3>7
  <2> QED BY <2>1, <2>2, <2>3
<1> QED BY <1>1, <1>2 DEF HeaderRead, Errors

LEMMA GetSectionDataStep ==
  ASSUME OpenedInv, GetSectionData PROVE Typed' /\ RightIds(file, found)' /\ Exact'
<1>1. ASSUME NEW x \in Errors, Throw(x) PROVE Typed' /\ RightIds(file, found)' /\ Exact'
  BY <1>1, Refused DEF OpenedInv
<1>2. ASSUME step = "sections", step' = "done",
             UNCHANGED <<file, as, pos, found, reading, line, header, access>>
      PROVE  Typed' /\ RightIds(file, found)' /\ Exact'
  <2>1. MaxVersion' = MaxVersion
    BY <1>2 DEF MaxVersion
  <2>2. Typed'
    BY <1>2, <2>1 DEF OpenedInv, Typed
  <2>3. Exact'
    BY <1>2 DEF OpenedInv, Exact
  <2> QED BY <1>2, <2>2, <2>3 DEF OpenedInv
<1> QED BY <1>1, <1>2 DEF GetSectionData, Errors

LEMMA OpenedNext == OpenedInv /\ [Next]_vars => OpenedInv'
<1> SUFFICES ASSUME OpenedInv, [Next]_vars PROVE OpenedInv'
  OBVIOUS
<1>1. ReaderInv'
  BY ReaderNext DEF OpenedInv
<1>2. CASE UNCHANGED vars
  <2>1. Typed' /\ RightIds(file, found)' /\ Exact'
    BY <1>2 DEF vars, OpenedInv, Typed, Exact, MaxVersion
  <2> QED BY <1>1, <2>1 DEF OpenedInv
<1>3. CASE Next
  <2>1. Typed' /\ RightIds(file, found)' /\ Exact'
    BY <1>3, OpenFileStep, ReadTableStep, TableReadStep, StartStep, NumberStep, PointerStep,
       EndStep, HeaderReadStep, GetSectionDataStep DEF Next
  <2> QED BY <1>1, <2>1 DEF OpenedInv
<1> QED BY <1>2, <1>3

LEMMA OpenedInit == Init => OpenedInv
<1> SUFFICES ASSUME Init PROVE OpenedInv
  OBVIOUS
<1>1. ReaderInv
  BY ReaderInit
<1>2. step = "open" /\ found = << >> /\ access.to = 0 /\ line = 1 /\ as \in {"zkey", "wtns"}
  BY DEF Init
<1>3. Typed
  <2>1. \A k \in DOMAIN found : found[k].start >= HeaderSize
    BY <1>2
  <2> QED BY <1>2, <2>1 DEF Typed
<1>4. RightIds(file, found) /\ Exact
  BY <1>2 DEF RightIds, Exact
<1> QED BY <1>1, <1>3, <1>4 DEF OpenedInv

(* The coefficients are counted from the size of their section.            *)
LEMMA Counted ==
  ASSUME NEW n \in Nat, NEW c \in Nat, c > 4 PROVE (4 + n * c) \div c = n
OBVIOUS

(* What loadHeader has read is what was written (zkey_utils.cpp:20-52,      *)
(* wtns_utils.cpp).                                                         *)
LEMMA HeaderWritten == OpenedInv => HeaderExact
<1> SUFFICES ASSUME OpenedInv, step = "done",
                    \A k \in DOMAIN found : Written(found[k].start, 12) # {}
             PROVE  /\ \A j \in DOMAIN LoadHeader :
                         LET op == LoadHeader[j] IN
                         /\ op.call = "number" => header[op.name] = file.number[op.name]
                         /\ op.call = "start" =>
                              \A k \in Written(found[First(op.id)].start, 12) :
                                found[First(op.id)].size = file.sections[k].len
                    /\ as = "zkey" =>
                         \A k \in Written(found[First(4)].start, 12) :
                           found[First(4)].size = file.sections[k].len =>
                             header["nCoefs"] = file.number["nCoefs"]
  BY DEF HeaderExact
<1>1. \A p : Written(p, 12) = Heads(file, p)
  BY DEF Written, Heads
<1>2. InTable(file, found)
  BY <1>1 DEF InTable
<1>3. /\ file.type = as /\ as \in {"zkey", "wtns"} /\ file \in Files /\ found \in Seq(Found)
      /\ RightIds(file, found)
      /\ NumbersRead(file, header, Len(CallsOf(as)) + 1)
      /\ SectionsRead(file, found, Len(CallsOf(as)) + 1)
      /\ as = "zkey" =>
           /\ 4 \in IdsOf(found)
           /\ header["nCoefs"] =
                found[FirstOf(found, 4)].size \div ((12 + file.number["n8r"]) % Word)
  BY <1>2 DEF OpenedInv, Typed, ReaderInv, Exact
<1>4. PICK h : h = CallsOf(as) /\ h = LoadHeader /\ Lines(file, h)
  BY <1>3, CallLines DEF CallsOf, LoadHeader
<1>5. PICK m \in Nat : m = Len(h) /\ (m + 1) - 1 = m
  <2>1. Len(h) = 5 \/ Len(h) = 18
    BY <1>4 DEF Lines
  <2>2. Len(h) \in Nat /\ (Len(h) + 1) - 1 = Len(h)
    BY ONLY <2>1
  <2> QED BY <2>2
<1>6. DOMAIN h = 1 .. m
  BY <1>4, <1>5 DEF Lines
<1>7. \A id : First(id) = FirstOf(found, id)
  BY DEF First, FirstOf
<1>8. ASSUME NEW id \in IdsOf(found), NEW k \in Written(found[First(id)].start, 12)
      PROVE  /\ found[First(id)] \in Found
             /\ file.sections[k].len \in Nat /\ Sized(file, id, file.sections[k].len)
  <2>1. First(id) \in DOMAIN found /\ found[First(id)].id = id
    BY <1>3, <1>7, FirstFound
  <2>2. k \in 1 .. Len(file.sections) /\ file.sections[k].id = id
    BY <1>1, <1>3, <2>1 DEF RightIds, Heads
  <2>3. found[First(id)] \in Found
    BY <1>3, <2>1
  <2> QED BY <1>3, <2>2, <2>3, FileType, LayoutAssumption DEF Section
<1>9. ASSUME NEW j \in 1 .. m, h[j].call = "number" PROVE header[h[j].name] = file.number[h[j].name]
  BY <1>3, <1>4, <1>5, <1>9 DEF NumbersRead
<1>10. ASSUME NEW j \in 1 .. m, h[j].call = "start",
              NEW k \in Written(found[First(h[j].id)].start, 12)
       PROVE  found[First(h[j].id)].size = file.sections[k].len
  <2>1. PICK e \in 1 .. m : h[e].call = "end" /\ SectionOf(file.type, e) = h[j].id
    BY <1>4, <1>5, <1>10 DEF Lines
  <2>2. /\ h[j].id \in IdsOf(found)
        /\ found[First(h[j].id)].size = Offset(file, e)
    BY <1>3, <1>4, <1>5, <1>7, <2>1 DEF SectionsRead
  <2>3. EndLine(file, h, e)
    BY <1>4, <1>5, <2>1 DEF Lines, StartLine, NumberLine, PointerLine
  <2> QED BY <1>8, <1>10, <2>1, <2>2, <2>3 DEF EndLine
<1>11. ASSUME as = "zkey", NEW k \in Written(found[First(4)].start, 12),
              found[First(4)].size = file.sections[k].len
       PROVE  header["nCoefs"] = file.number["nCoefs"]
  <2>1. PICK n \in Nat, r \in Nat :
          n = file.number["nCoefs"] /\ r = file.number["n8r"] /\ 12 + r < Word
    BY <1>3, <1>11, FilesAssumption, LayoutAssumption DEF Fields
  <2>2. file.sections[k].len = 4 + n * (12 + r)
    BY <1>3, <1>8, <1>11, <2>1 DEF Sized
  <2>3. (12 + r) % Word = 12 + r
    <3>1. Word \in Nat /\ 12 + r \in Nat
      BY FilesAssumption
    <3> QED BY <2>1, <3>1, SmallModulo
  <2>4. (4 + n * (12 + r)) \div (12 + r) = n
    BY Counted, 12 + r \in Nat, 12 + r > 4
  <2> QED BY <1>3, <1>7, <1>11, <2>1, <2>2, <2>3, <2>4
<1>12. ASSUME NEW j \in DOMAIN h
       PROVE  /\ h[j].call = "number" => header[h[j].name] = file.number[h[j].name]
              /\ h[j].call = "start" =>
                   \A k \in Written(found[First(h[j].id)].start, 12) :
                     found[First(h[j].id)].size = file.sections[k].len
  BY <1>6, <1>9, <1>10
<1>13. \A j \in DOMAIN LoadHeader :
         LET op == LoadHeader[j] IN
         /\ op.call = "number" => header[op.name] = file.number[op.name]
         /\ op.call = "start" =>
              \A k \in Written(found[First(op.id)].start, 12) :
                found[First(op.id)].size = file.sections[k].len
  BY <1>4, <1>12
<1> QED BY <1>11, <1>13

-----------------------------------------------------------------------------
(* A file that ends before its table is not whole.                          *)
LEMMA HeadRoom ==
  ASSUME NEW f \in Files, NEW k \in 0 .. Len(f.sections)
  PROVE  HeadAt(f, k + 1) \in Nat /\ HeadAt(f, k + 1) >= HeaderSize + k * 12
<1> DEFINE n == Len(f.sections)
           S == {m \in Nat : m <= n =>
                   HeadAt(f, m + 1) \in Nat /\ HeadAt(f, m + 1) >= HeaderSize + m * 12}
<1>1. n \in Nat /\ \A i \in 1 .. n : f.sections[i].len \in Nat
  <2>1. f.sections \in Seq(Section)
    BY FilesAssumption
  <2>2. n \in Nat /\ \A i \in 1 .. n : f.sections[i] \in Section
    BY <2>1
  <2> QED BY <2>2 DEF Section
<1>2. 0 \in S
  <2>1. HeadAt(f, 1) = HeaderSize
    BY HeadNext, 1 \in Nat \ {0}
  <2> QED BY <2>1 DEF HeaderSize
<1>3. ASSUME NEW m \in Nat, m \in S PROVE m + 1 \in S
  <2>1. m + 1 \in Nat \ {0}
    OBVIOUS
  <2>2. HeadAt(f, (m + 1) + 1) = HeadAt(f, m + 1) + 12 + f.sections[m + 1].len
    BY ONLY <2>1, HeadNext
  <2> HIDE DEF n
  <2> QED BY <1>1, <1>3, <2>2 DEF HeaderSize
<1> HIDE DEF S, n
<1>4. Nat \subseteq S
  BY <1>2, <1>3, SetInduction
<1>5. k \in Nat /\ k <= n
  BY <1>1 DEF n
<1> QED BY <1>4, <1>5 DEF S

(* The announced sections end where the next would begin.                  *)
LEMMA HeadMonotone ==
  ASSUME NEW f \in Files, NEW j \in 1 .. Len(f.sections), NEW k \in Nat, j <= k,
         k <= Len(f.sections)
  PROVE  /\ HeadAt(f, j + 1) = HeadAt(f, j) + 12 + f.sections[j].len
         /\ HeadAt(f, j + 1) <= HeadAt(f, k + 1)
<1>1. HeadAt(f, j + 1) = HeadAt(f, j) + 12 + f.sections[j].len
  BY HeadNext
<1>2. HeadAt(f, j) + 12 + f.sections[j].len <= HeadAt(f, k + 1)
  BY HeadLater
<1> QED BY <1>1, <1>2

AcceptInv == OpenedInv /\ Sound

LEMMA OpenFileSound == ASSUME AcceptInv, OpenFile PROVE Sound'
<1>1. /\ step = "open" /\ found = << >> /\ access.to = 0 /\ file \in Files
      /\ file' = file /\ as' = as /\ found' = found
  BY DEF AcceptInv, OpenedInv, ReaderInv, Typed, OpenFile, Throw
<1>2. MaxVersion' = MaxVersion
  BY <1>1 DEF MaxVersion
<1> SUFFICES ASSUME AsWritten(file)
             PROVE  /\ step' = "table" =>
                         pos' = HeadAt(file, Len(found) + 1) /\ pos' <= file.length
                    /\ TableAccepted' => HeadAt(file, file.nSections + 1) <= file.length
                    /\ TableRefused' => ~Whole(file)
  BY <1>1, <1>2 DEF Sound, Whole, AsWritten
<1>3. step' \notin {"header", "sections", "done"}
  BY DEF OpenFile, Throw
<1>4. file.nSections \in 0 .. Len(file.sections) /\ file.length \in Nat
  <2>1. file.nSections <= Len(file.sections) /\ file.nSections \in Nat /\ file.length \in Nat
    BY <1>1, FileType DEF AsWritten
  <2>2. Len(file.sections) \in Nat
    BY <1>1, FilesAssumption
  <2> QED BY <2>1, <2>2
<1>5. /\ HeadAt(file, file.nSections + 1) \in Nat
      /\ HeadAt(file, file.nSections + 1) >= HeaderSize + file.nSections * 12
  BY <1>1, <1>4, HeadRoom
<1>6. CASE step' = "table"
  <2>1. pos' = HeaderSize /\ file.length >= HeaderSize
    BY <1>6 DEF OpenFile, Throw
  <2>2. Len(found) + 1 = 1 /\ HeadAt(file, 1) = HeaderSize
    BY <1>1, HeadNext, 1 \in Nat \ {0}
  <2> QED BY <1>3, <1>4, <1>6, <2>1, <2>2 DEF TableAccepted, TableRefused, HeaderSize
<1>7. CASE step' # "table"
  <2>1. \/ file.length < HeaderSize \/ file.type # as \/ file.version > MaxVersion \/ ~TableFits
    BY <1>7 DEF OpenFile
  <2>2. CASE file.length < HeaderSize \/ ~TableFits
    <3>1. ~(file.length >= HeadAt(file, file.nSections + 1))
      BY <1>4, <1>5, <2>2 DEF TableFits, HeaderSize
    <3> QED BY <1>3, <1>7, <3>1 DEF Whole, TableAccepted
  <2>3. CASE file.type # as
    BY <1>3, <1>7, <2>3 DEF Whole, TableAccepted
  <2>4. CASE file.version > MaxVersion
    <3>1. file.version \in Nat /\ MaxVersion \in Nat
      BY <1>1, FilesAssumption DEF MaxVersion
    <3>2. ~(file.version <= MaxVersion)
      BY <2>4, <3>1
    <3> QED BY <1>3, <1>7, <3>2 DEF Whole, TableAccepted
  <2> QED BY <2>1, <2>2, <2>3, <2>4
<1> QED BY <1>6, <1>7

LEMMA ReadTableSound == ASSUME AcceptInv, ReadTable PROVE Sound'
<1>1. /\ step = "table" /\ found \in Seq(Found) /\ file \in Files /\ pos \in Nat
      /\ Len(found) < file.nSections /\ file' = file /\ as' = as
  BY DEF AcceptInv, OpenedInv, ReaderInv, ReadTable, Round, Throw
<1>2. MaxVersion' = MaxVersion
  BY <1>1 DEF MaxVersion
<1> SUFFICES ASSUME AsWritten(file)
             PROVE  /\ step' = "table" =>
                         pos' = HeadAt(file, Len(found') + 1) /\ pos' <= file.length
                    /\ TableAccepted' => HeadAt(file, file.nSections + 1) <= file.length
                    /\ TableRefused' => ~Whole(file)
  BY <1>1, <1>2 DEF Sound, Whole, AsWritten
<1>3. pos = HeadAt(file, Len(found) + 1)
  BY <1>1 DEF AcceptInv, Sound
<1>4. PICK n \in Nat, m \in Nat, l \in Nat, all \in Nat :
        n = Len(found) /\ m = file.nSections /\ l = file.length /\ all = Len(file.sections)
  BY <1>1, FilesAssumption
<1>5. n + 1 \in 1 .. all /\ n + 1 <= m /\ m <= all
  <2>1. m <= all /\ n < m
    BY <1>1, <1>4 DEF AsWritten
  <2> QED BY <2>1
<1>6. PICK len \in Nat : len = file.sections[n + 1].len /\ file.sections[n + 1].size = len
  <2>1. file.sections[n + 1].len \in Nat
    BY <1>1, <1>4, <1>5, FileType DEF Section
  <2> QED BY <1>4, <1>5, <2>1 DEF AsWritten
<1>7. PICK end \in Nat : end = pos + 12 + len
  BY <1>1
<1>8. /\ HeadAt(file, (n + 1) + 1) = end
      /\ end <= HeadAt(file, m + 1) /\ end < Width
      /\ HeadAt(file, m + 1) \in Nat
  <2>1. HeadAt(file, (n + 1) + 1) = end /\ end <= HeadAt(file, m + 1)
    BY <1>1, <1>3, <1>4, <1>5, <1>6, <1>7, HeadMonotone
  <2>2. end <= HeadAt(file, all + 1)
    <3>1. n + 1 \in 1 .. Len(file.sections) /\ n + 1 <= all /\ all <= Len(file.sections)
      BY <1>4, <1>5
    <3> QED BY <1>1, <1>4, <2>1, <3>1, HeadMonotone
  <2>3. HeadAt(file, all + 1) < Width /\ Width \in Nat
    BY <1>1, <1>4, FilesAssumption
  <2>4. HeadAt(file, m + 1) \in Nat /\ HeadAt(file, all + 1) \in Nat
    <3>1. m \in 0 .. all /\ all \in 0 .. all
      BY <1>5
    <3> QED BY <1>1, <1>4, <3>1, HeadRoom
  <2> QED BY <2>1, <2>2, <2>3, <2>4
<1>9. end % Width = end
  BY <1>8, SmallModulo, FilesAssumption
<1>10. \A e \in TableEntries : e.size = len
  <2> TAKE e \in TableEntries
  <2>1. n + 1 \in Heads(file, pos + 12)
    BY <1>3, <1>4, <1>5 DEF Heads
  <2> QED BY <1>1, <1>6, <2>1, EntryRight
<1>11. CASE end <= l /\ step' = "table"
  <2>1. PICK e \in TableEntries :
          /\ found' = Append(found, [id |-> e.id, start |-> pos + 12, size |-> e.size])
          /\ pos' = (pos + 12 + e.size) % Width
    BY <1>11 DEF ReadTable, Round, Throw
  <2>2. Len(found') = n + 1
    BY <1>1, <1>4, <2>1
  <2>3. pos' = end
    BY <1>7, <1>9, <1>10, <2>1
  <2> QED BY <1>4, <1>8, <1>11, <2>2, <2>3 DEF TableAccepted, TableRefused
<1>12. CASE end > l /\ step' \in Errors
  <2>1. ~(l >= HeadAt(file, m + 1))
    BY <1>8, <1>12
  <2> QED BY <1>4, <1>12, <2>1 DEF Whole, TableAccepted, Errors
<1>13. (end <= l /\ step' = "table") \/ (end > l /\ step' \in Errors)
  <2>1. CASE pos + 12 > l
    <3>1. end > l
      BY <1>1, <1>7, <2>1
    <3> QED BY <1>1, <1>4, <2>1, <3>1 DEF ReadTable, Round, Throw, Errors
  <2>2. CASE pos + 12 <= l
    <3>1. PICK e \in TableEntries :
            \/ (pos + 12 + e.size) % Width > l /\ step' = "range_error"
            \/ (pos + 12 + e.size) % Width <= l /\ step' = step
      <4>1. ~(pos + 12 > file.length)
        BY <1>1, <1>4, <2>2
      <4> QED BY <1>4, <4>1 DEF ReadTable, Round, Throw
    <3>2. (pos + 12 + e.size) % Width = end
      BY <1>7, <1>9, <1>10
    <3> QED BY <1>1, <3>1, <3>2 DEF Errors
  <2> QED BY <1>1, <1>4, <2>1, <2>2
<1> QED BY <1>11, <1>12, <1>13

(* Once the table has been read, nothing of Sound is undone.               *)
LEMMA HeaderSound ==
  ASSUME AcceptInv,
         TableRead \/ StartReadSection \/ ReadNumber \/ ReadPointer \/ EndReadSection
           \/ HeaderRead \/ GetSectionData
  PROVE  Sound'
<1>1. file' = file /\ as' = as /\ found' = found
  BY DEF TableRead, StartReadSection, ReadNumber, ReadPointer, EndReadSection, EndSection,
         HeaderRead, GetSectionData, Throw
<1>2. MaxVersion' = MaxVersion
  BY <1>1 DEF MaxVersion
<1> SUFFICES ASSUME AsWritten(file)
             PROVE  /\ step' # "table"
                    /\ TableAccepted' => HeadAt(file, file.nSections + 1) <= file.length
                    /\ ~TableRefused'
  BY <1>1, <1>2 DEF Sound, Whole, AsWritten
<1>3. CASE TableRead
  BY <1>3 DEF TableRead, AcceptInv, Sound, TableAccepted, TableRefused
<1>4. CASE ~TableRead
  <2>1. step \in {"header", "sections"}
    BY <1>4 DEF StartReadSection, ReadNumber, ReadPointer, EndReadSection, EndSection,
         HeaderRead, GetSectionData, Call
  <2>2. HeadAt(file, file.nSections + 1) <= file.length
    BY <2>1 DEF AcceptInv, Sound, TableAccepted
  <2>3. Len(found) = file.nSections /\ access.to > 0 /\ file.nSections \in Nat
    BY <2>1, FileType DEF AcceptInv, OpenedInv, ReaderInv, Typed
  <2>4. \/ step' \in {"header", "sections", "done"}
        \/ step' \in Errors /\ access' = access
    BY <1>4, <2>1 DEF StartReadSection, ReadNumber, ReadPointer, EndReadSection, EndSection,
         HeaderRead, GetSectionData, Call, Throw, Errors
  <2>5. ~TableRefused'
    <3>1. CASE step' \in {"header", "sections", "done"}
      BY <3>1 DEF TableRefused
    <3>2. CASE access' = access
      <4>1. access'.to # 0 /\ ~(Len(found') < file'.nSections)
        BY <1>1, <2>3, <3>2
      <4> QED BY <4>1 DEF TableRefused
    <3> QED BY <2>4, <3>1, <3>2
  <2>6. step' # "table"
    BY <2>4 DEF Errors
  <2> QED BY <2>2, <2>5, <2>6
<1> QED BY <1>3, <1>4

LEMMA AcceptNext == AcceptInv /\ [Next]_vars => AcceptInv'
<1> SUFFICES ASSUME AcceptInv, [Next]_vars PROVE AcceptInv'
  OBVIOUS
<1>1. OpenedInv'
  BY OpenedNext DEF AcceptInv
<1>2. CASE UNCHANGED vars
  <2>1. Sound'
    BY <1>2 DEF vars, AcceptInv, Sound, TableAccepted, TableRefused, Whole, MaxVersion
  <2> QED BY <1>1, <2>1 DEF AcceptInv
<1>3. CASE Next
  <2>1. Sound'
    BY <1>3, OpenFileSound, ReadTableSound, HeaderSound DEF Next
  <2> QED BY <1>1, <2>1 DEF AcceptInv
<1> QED BY <1>2, <1>3

LEMMA AcceptInit == Init => AcceptInv
<1> SUFFICES ASSUME Init PROVE AcceptInv
  OBVIOUS
<1>1. OpenedInv
  BY OpenedInit
<1>2. Sound
  BY DEF Init, Sound, TableAccepted, TableRefused
<1> QED BY <1>1, <1>2 DEF AcceptInv

(* A file whose table is as written is accepted exactly when it is whole    *)
(* (binfile_utils.cpp:28-76).                                               *)
THEOREM AcceptedCorrect == Spec => []AcceptedIffWhole
<1>1. AcceptInv => AcceptedIffWhole
  <2> SUFFICES ASSUME AcceptInv, AsWritten(file), TableAccepted PROVE Whole(file)
    BY DEF AcceptedIffWhole, AcceptInv, Sound
  <2>1. file.type = as /\ file.version <= MaxVersion /\ file \in Files
    BY DEF AcceptInv, OpenedInv, ReaderInv, Typed, TableAccepted
  <2>2. HeadAt(file, file.nSections + 1) <= file.length
    BY DEF AcceptInv, Sound
  <2> QED BY <2>1, <2>2 DEF Whole
<1> QED BY <1>1, AcceptInit, AcceptNext, PTL DEF Spec

(* The header the prover works with is the one that was written            *)
(* (zkey_utils.cpp:20-52, wtns_utils.cpp).                                 *)
THEOREM HeaderCorrect == Spec => []HeaderExact
BY OpenedInit, OpenedNext, HeaderWritten, PTL DEF Spec

-----------------------------------------------------------------------------
(* The C interface. *)
LEMMA LowestIn == ASSUME NEW S \in SUBSET Nat, S # {} PROVE Lowest(S) \in S
<1>1. \E d \in S : \A e \in S : d <= e
  BY Least
<1> QED BY <1>1 DEF Lowest

Size == [proof : Nat, public : Nat]

(* What a caller may pass. *)
CallTypes(c) ==
  /\ c # NoObject
  /\ c.fn \in FileCalls \cup BufferCalls
  /\ c.zkey \in Zkey
  /\ c.given \in Size
  /\ c.fn \in {"prove_file", "prove_buffer", "prove_object"} => c.witness \in Witness
  /\ c.fn \in {"prove_object", "destroy"} => c.prover \in Handle

(* The sizes asked for last are those of a proof. *)
ResultTypes(r) ==
  /\ r.given \in Size /\ r.sizes \in Size /\ r.written \in Size
  /\ r.written.proof <= r.given.proof /\ r.written.public <= r.given.public
  /\ r.code = "SHORT_BUFFER" =>
       /\ r.zkey \in Zkey /\ r.witness \in Witness
       /\ r.sizes.public = PublicLength(r.zkey.nPublic, r.witness.digits) + 1
       /\ r.retry => r.given.public >= r.sizes.public
       /\ ~Fits(r.given, r.sizes)
       /\ \E d \in Digits : r.sizes.proof = ProofLength(d) + 1

FrameTypes ==
  /\ at \in [Thread -> {"idle", "open", "map", "work", "unload"}]
  /\ DOMAIN call = Thread
  /\ \A t \in Thread : at[t] # "idle" => CallTypes(call[t])
  /\ fd \in [Thread -> Descriptor \cup {None}]
  /\ addr \in [Thread -> Region \cup {None}]

ResultsOK == DOMAIN result = Thread /\ \A t \in Thread : ResultTypes(result[t])

ApiTypeOK ==
  /\ opener \in [Descriptor -> Thread \cup {Other, None}]
  /\ live \subseteq Region
  /\ provers \in [Handle -> {NoObject} \cup
       [exists : {TRUE}, zkey : Zkey, key : Region \cup {None}, file : BOOLEAN]]
  /\ FrameTypes
  /\ ResultsOK
  /\ loadFailed \in BOOLEAN /\ wild \in BOOLEAN /\ stolen \in BOOLEAN

(* A loader has a descriptor from open on and an address from mmap on. *)
Frames ==
  \A t \in Thread :
    /\ at[t] \in {"open", "map", "unload"} => Mapped(t)
    /\ ~(at[t] \in {"work", "unload"} /\ Mapped(t)) => addr[t] = None
    /\ at[t] \in {"map", "work", "unload"} /\ Mapped(t) => fd[t] \in Descriptor
    /\ at[t] = "idle" => call[t] = NoObject

(* The descriptors of the calls are theirs, and each is some call's. *)
Owned ==
  ~loadFailed =>
    /\ ~stolen
    /\ \A t \in Thread : at[t] \in {"map", "work", "unload"} /\ Mapped(t) => opener[fd[t]] = t
    /\ \A d \in Descriptor, t \in Thread : opener[d] = t =>
         at[t] \in {"map", "work", "unload"} /\ Mapped(t) /\ fd[t] = d

(* The mappings of the calls exist and are theirs alone. *)
OwnMapping ==
  ~wild =>
    \A t \in Thread :
      /\ at[t] = "work" /\ Mapped(t) => addr[t] # None
      /\ addr[t] # None => addr[t] \in live /\ \A u \in Thread \ {t} : addr[u] # addr[t]

(* A prover object that is in use exists and is used by one call. *)
Exclusive ==
  \A t \in Thread :
    at[t] # "idle" /\ call[t].fn \in {"prove_object", "destroy"} =>
      /\ provers[call[t].prover].exists
      /\ \A u \in Thread \ {t} :
           at[u] # "idle" /\ call[u].fn \in {"prove_object", "destroy"}
             => call[u].prover # call[t].prover

(* An object made of a buffer has no mapping. *)
Objects == \A h \in Handle : provers[h].exists /\ ~provers[h].file => provers[h].key = None

ApiInv ==
  /\ ApiTypeOK /\ Frames /\ Owned /\ OwnMapping /\ Exclusive /\ Objects
  /\ KeyStaysMapped

-----------------------------------------------------------------------------
LEMMA ZkeyType == ASSUME NEW z \in Zkey PROVE z.nVars \in Nat /\ z.nPublic \in Nat
  BY ConstantsAssumption

LEMMA NoBytesType == NoBytes \in Size
  BY DEF NoBytes, Size

LEMMA NoResultType == ResultTypes(NoResult)
  BY NoBytesType DEF ResultTypes, NoResult, NoBytes

(* What every error leaves: no byte was written. *)
LEMMA CodeType ==
  ASSUME NEW t \in Thread, ApiTypeOK, at[t] # "idle", NEW c, c # "SHORT_BUFFER", Code(t, c)
  PROVE  ResultsOK'
<1> DEFINE r == [NoResult EXCEPT !.code = c, !.sizes = call[t].given]
<1>1. r.given = NoBytes /\ r.sizes = call[t].given /\ r.written = NoBytes /\ r.code = c
  BY DEF NoResult
<1>2. call[t].given \in Size
  BY DEF ApiTypeOK, FrameTypes, CallTypes
<1>3. ResultTypes(r)
  <2> HIDE DEF r
  <2> QED BY <1>1, <1>2, NoBytesType DEF ResultTypes, NoBytes
<1>4. result' = [result EXCEPT ![t] = r]
  BY DEF Code
<1> HIDE DEF r
<1> QED BY <1>3, <1>4 DEF ApiTypeOK, ResultsOK

LEMMA ApiInitInv == ApiInit => ApiInv
<1> SUFFICES ASSUME ApiInit PROVE ApiInv
  OBVIOUS
<1>1. \A t \in Thread : ResultTypes(result[t])
  BY NoResultType DEF ApiInit
<1>2. ApiTypeOK
  BY <1>1 DEF ApiInit, ApiTypeOK, FrameTypes, ResultsOK
<1>3. Frames /\ Owned
  BY ConstantsAssumption DEF ApiInit, Frames, Owned
<1>4. OwnMapping /\ Exclusive /\ Objects /\ KeyStaysMapped
  BY DEF ApiInit, OwnMapping, Exclusive, Objects, KeyStaysMapped, NoObject
<1> QED BY <1>2, <1>3, <1>4 DEF ApiInv

-----------------------------------------------------------------------------
(* What a step of thread t leaves alone: the frames of the other threads. *)
OthersFrames(t) ==
  \A u \in Thread \ {t} :
    at'[u] = at[u] /\ call'[u] = call[u] /\ fd'[u] = fd[u] /\ addr'[u] = addr[u]

(* A call that returns leaves no frame. *)
LEMMA ReturnFrame ==
  ASSUME FrameTypes, NEW t \in Thread, Return(t)
  PROVE  /\ at'[t] = "idle" /\ call'[t] = NoObject /\ fd'[t] = None /\ addr'[t] = None
         /\ OthersFrames(t)
         /\ FrameTypes'
<1>1. /\ at'[t] = "idle" /\ call'[t] = NoObject /\ fd'[t] = None /\ addr'[t] = None
      /\ OthersFrames(t)
  BY DEF FrameTypes, Return, OthersFrames
<1>2. /\ at' \in [Thread -> {"idle", "open", "map", "work", "unload"}]
      /\ DOMAIN call' = Thread
      /\ fd' \in [Thread -> Descriptor \cup {None}]
      /\ addr' \in [Thread -> Region \cup {None}]
  BY DEF FrameTypes, Return
<1>3. ASSUME NEW u \in Thread, at'[u] # "idle" PROVE CallTypes(call'[u])
  BY <1>1, <1>3 DEF OthersFrames, FrameTypes
<1> QED BY <1>1, <1>2, <1>3 DEF FrameTypes

(* The calls a caller makes. *)
LEMMA GivenTypes ==
  ASSUME ApiTypeOK, NEW t \in Thread, NEW z \in Zkey PROVE Given(t, z) \subseteq Size
<1>1. result[t].sizes \in Size
  BY DEF ApiTypeOK, ResultsOK, ResultTypes
<1>2. PublicBufferMinSize(z.nPublic) \in Nat /\ ProofBufferMinSize \in Nat
  BY ZkeyType DEF PublicBufferMinSize, ProofBufferMinSize
<1> QED BY <1>1, <1>2, NoBytesType DEF Given, Size

LEMMA CallsTypes ==
  ASSUME ApiInv, NEW t \in Thread, NEW c \in Calls(t)
  PROVE  /\ CallTypes(c)
         /\ c.fn \in {"prove_object", "destroy"} =>
              provers[c.prover].exists /\ ~InUse(c.prover)
<1>0. ASSUME NEW h \in Handle, provers[h].exists PROVE provers[h].zkey \in Zkey
  <2>1. provers[h] # NoObject
    BY <1>0 DEF NoObject
  <2> QED BY <2>1 DEF ApiInv, ApiTypeOK
<1> USE DEF FileCalls, BufferCalls, CallTypes, NoObject
<1>1. CASE c \in [fn : {"size_file", "size_buffer", "create_file", "create_buffer"}, zkey : Zkey,
                   witness : {NoObject}, given : {NoBytes}, prover : {None}]
  BY <1>1, NoBytesType
<1>2. ASSUME NEW z \in Zkey,
             c \in [fn : {"prove_file", "prove_buffer"}, zkey : {z}, witness : Witness,
                    given : Given(t, z), prover : {None}]
      PROVE  CallTypes(c) /\ c.fn \in {"prove_file", "prove_buffer"}
  BY <1>2, GivenTypes DEF ApiInv
<1>3. ASSUME NEW h \in Handle, provers[h].exists, ~InUse(h),
             c \in [fn : {"prove_object"}, zkey : {provers[h].zkey}, witness : Witness,
                    given : Given(t, provers[h].zkey), prover : {h}]
      PROVE  CallTypes(c) /\ c.prover = h
  BY <1>0, <1>3, GivenTypes DEF ApiInv
<1>4. ASSUME NEW h \in Handle, provers[h].exists, ~InUse(h),
             c = [fn |-> "destroy", zkey |-> provers[h].zkey, witness |-> NoObject,
                  given |-> NoBytes, prover |-> h]
      PROVE  CallTypes(c) /\ c.prover = h
  BY <1>0, <1>4, NoBytesType
<1> QED BY <1>1, <1>2, <1>3, <1>4 DEF Calls

-----------------------------------------------------------------------------
(* A call whose key was given in a buffer has no loader, and leaves none. *)
LEMMA AfterFrame ==
  ASSUME ApiInv, NEW t \in Thread, at[t] = "work", After(t),
         opener' = opener, live' = live, UNCHANGED history
  PROVE  /\ FrameTypes' /\ Frames' /\ Owned' /\ OwnMapping' /\ OthersFrames(t)
         /\ at'[t] # "idle" => Mapped(t) /\ call'[t] = call[t]
<1> USE DEF ApiInv, ApiTypeOK, history
<1>1. CASE Mapped(t)
  <2>1. /\ at' = [at EXCEPT ![t] = "unload"] /\ call' = call /\ fd' = fd /\ addr' = addr
    BY <1>1 DEF After
  <2>2. at'[t] = "unload" /\ OthersFrames(t) /\ FrameTypes'
    BY <2>1 DEF FrameTypes, OthersFrames
  <2>3. \A u \in Thread : Mapped(u)' = Mapped(u)
    BY <2>1 DEF Mapped
  <2>4. Frames'
    BY <1>1, <2>1, <2>2, <2>3 DEF Frames, OthersFrames
  <2>5. Owned'
    BY <1>1, <2>1, <2>2, <2>3 DEF Owned, OthersFrames
  <2>6. OwnMapping'
    BY <1>1, <2>1, <2>2, <2>3 DEF OwnMapping, OthersFrames
  <2> QED BY <1>1, <2>1, <2>2, <2>4, <2>5, <2>6
<1>2. CASE ~Mapped(t)
  <2>1. Return(t)
    BY <1>2 DEF After
  <2>2. /\ at'[t] = "idle" /\ call'[t] = NoObject /\ fd'[t] = None /\ addr'[t] = None
        /\ OthersFrames(t) /\ FrameTypes'
    BY <2>1, ReturnFrame
  <2>3. \A u \in Thread \ {t} : Mapped(u)' = Mapped(u)
    BY <2>2 DEF Mapped, OthersFrames
  <2>4. Frames'
    BY <2>2, <2>3 DEF Frames, OthersFrames
  <2>5. Owned'
    BY <1>2, <2>2, <2>3, ConstantsAssumption DEF Owned, OthersFrames
  <2>6. OwnMapping'
    BY <1>2, <2>2, <2>3 DEF OwnMapping, OthersFrames
  <2> QED BY <2>2, <2>4, <2>5, <2>6
<1> QED BY <1>1, <1>2

(* A call that reads its own key reads what is mapped. *)
LEMMA OwnRead ==
  ASSUME ApiInv, NEW t \in Thread, at[t] = "work", NEW kind, Reads(t, addr[t], kind),
         wild' = wild
  PROVE  KeyStaysMapped'
<1>1. wild \/ addr[t] = None \/ addr[t] \in live
  BY DEF ApiInv, OwnMapping
<1> QED BY <1>1 DEF Reads, KeyStaysMapped, ApiInv

-----------------------------------------------------------------------------
(* One lemma for each action. *)
LEMMA BeginCallInv == ASSUME ApiInv, NEW t \in Thread, BeginCall(t) PROVE ApiInv'
<1> USE DEF ApiInv, ApiTypeOK
<1>1. PICK c \in Calls(t) :
        /\ call' = [call EXCEPT ![t] = c]
        /\ at' = [at EXCEPT ![t] = IF c.fn \in FileCalls THEN "open" ELSE "work"]
  BY DEF BeginCall
<1>2. /\ at[t] = "idle"
      /\ UNCHANGED <<opener, live, provers, fd, addr, result, loadFailed, wild, stolen, strays>>
  BY DEF BeginCall, memory
<1>3. CallTypes(c) /\ (c.fn \in {"prove_object", "destroy"} =>
        provers[c.prover].exists /\ ~InUse(c.prover))
  BY CallsTypes
<1>4. /\ call'[t] = c /\ at'[t] = (IF c.fn \in FileCalls THEN "open" ELSE "work")
      /\ OthersFrames(t)
  BY <1>1, <1>2 DEF FrameTypes, OthersFrames
<1>5. FrameTypes'
  BY <1>1, <1>2, <1>3, <1>4 DEF FrameTypes, OthersFrames
<1>6. (\A u \in Thread \ {t} : Mapped(u)' = Mapped(u)) /\ (Mapped(t)' <=> c.fn \in FileCalls)
  BY <1>4 DEF OthersFrames, Mapped
<1>7. addr[t] = None
  BY <1>2 DEF Frames
<1>8. Frames'
  BY <1>2, <1>4, <1>6, <1>7 DEF Frames, OthersFrames
<1>9. Owned'
  BY <1>2, <1>4, <1>6 DEF Owned, OthersFrames
<1>10. OwnMapping'
  BY <1>2, <1>4, <1>6, <1>7 DEF OwnMapping, OthersFrames
<1>11. Exclusive'
  <2>1. \A u \in Thread \ {t} :
          at[u] # "idle" /\ c.fn \in {"prove_object", "destroy"} => call[u].prover # c.prover
    BY <1>3 DEF InUse, FrameTypes, CallTypes
  <2> QED BY <1>2, <1>3, <1>4, <2>1 DEF Exclusive, OthersFrames
<1>12. Objects' /\ KeyStaysMapped' /\ ResultsOK'
  BY <1>2 DEF Objects, KeyStaysMapped, ResultsOK
<1> QED BY <1>2, <1>5, <1>8, <1>9, <1>10, <1>11, <1>12

LEMMA FreeIsFree ==
  ASSUME Free # {}
  PROVE  Lowest(Free) \in Descriptor /\ opener[Lowest(Free)] = None
<1>1. Free \in SUBSET Nat
  BY ConstantsAssumption DEF Free
<1>2. Lowest(Free) \in Free
  BY <1>1, LowestIn
<1> QED BY <1>2 DEF Free

LEMMA OpenInv == ASSUME ApiInv, NEW t \in Thread, Open(t) PROVE ApiInv'
<1> USE DEF ApiInv, ApiTypeOK
<1>1. /\ at[t] = "open" /\ Mapped(t) /\ addr[t] = None
      /\ UNCHANGED <<live, provers, strays, calls, loadFailed, wild, stolen>>
  BY DEF Open, Frames, memory, history
<1>2. CASE Code(t, "ERROR") /\ Return(t) /\ opener' = opener
  <2>1. /\ at'[t] = "idle" /\ call'[t] = NoObject /\ fd'[t] = None /\ addr'[t] = None
        /\ OthersFrames(t) /\ FrameTypes'
    BY <1>2, ReturnFrame
  <2>2. ResultsOK'
    BY <1>1, <1>2, CodeType
  <2>3. \A u \in Thread \ {t} : Mapped(u)' = Mapped(u)
    BY <2>1 DEF OthersFrames, Mapped
  <2>4. Frames'
    BY <2>1, <2>3 DEF Frames, OthersFrames
  <2>5. Owned'
    BY <1>1, <1>2, <2>1, <2>3 DEF Owned, OthersFrames
  <2>6. OwnMapping'
    BY <1>1, <2>1, <2>3 DEF OwnMapping, OthersFrames
  <2>7. Exclusive'
    BY <1>1, <2>1 DEF Exclusive, OthersFrames
  <2>8. Objects' /\ KeyStaysMapped'
    BY <1>1 DEF Objects, KeyStaysMapped
  <2> QED BY <1>1, <1>2, <2>1, <2>2, <2>4, <2>5, <2>6, <2>7, <2>8
<1>3. CASE /\ Free # {}
           /\ opener' = [opener EXCEPT ![Lowest(Free)] = t]
           /\ fd' = [fd EXCEPT ![t] = Lowest(Free)]
           /\ at' = [at EXCEPT ![t] = "map"]
           /\ UNCHANGED <<call, addr, result>>
  <2> DEFINE d == Lowest(Free)
  <2>1. d \in Descriptor /\ opener[d] = None
    BY <1>3, FreeIsFree
  <2> HIDE DEF d
  <2>2. /\ opener' = [opener EXCEPT ![d] = t] /\ fd' = [fd EXCEPT ![t] = d]
        /\ at' = [at EXCEPT ![t] = "map"] /\ call' = call /\ addr' = addr /\ result' = result
    BY <1>3 DEF d
  <2>3. at'[t] = "map" /\ fd'[t] = d /\ OthersFrames(t) /\ FrameTypes'
    BY <1>1, <2>1, <2>2 DEF FrameTypes, OthersFrames
  <2>4. \A u \in Thread : Mapped(u)' = Mapped(u)
    BY <2>2 DEF Mapped
  <2>5. Frames'
    BY <1>1, <2>1, <2>2, <2>3, <2>4 DEF Frames, OthersFrames
  <2>6. opener' \in [Descriptor -> Thread \cup {Other, None}]
    BY <2>2
  <2>7. opener'[d] = t /\ \A e \in Descriptor \ {d} : opener'[e] = opener[e]
    BY <2>1, <2>2
  <2>8. Owned'
    <3> SUFFICES ASSUME ~loadFailed' PROVE
          /\ ~stolen'
          /\ \A u \in Thread : at'[u] \in {"map", "work", "unload"} /\ Mapped(u)' => opener'[fd'[u]] = u
          /\ \A e \in Descriptor, u \in Thread : opener'[e] = u =>
               at'[u] \in {"map", "work", "unload"} /\ Mapped(u)' /\ fd'[u] = e
      BY DEF Owned
    <3>1. ~stolen'
      BY <1>1 DEF Owned
    <3>2. ASSUME NEW u \in Thread, at'[u] \in {"map", "work", "unload"}, Mapped(u)'
          PROVE  opener'[fd'[u]] = u
      <4>1. CASE u = t
        BY <2>1, <2>3, <2>7, <4>1
      <4>2. CASE u # t
        <5>1. /\ opener[fd[u]] = u /\ fd[u] \in Descriptor /\ fd'[u] = fd[u]
          BY <1>1, <2>3, <2>4, <3>2, <4>2 DEF Owned, OthersFrames, Frames
        <5> QED BY <5>1, <2>1, <2>7, ConstantsAssumption
      <4> QED BY <4>1, <4>2
    <3>3. ASSUME NEW e \in Descriptor, NEW u \in Thread, opener'[e] = u
          PROVE  at'[u] \in {"map", "work", "unload"} /\ Mapped(u)' /\ fd'[u] = e
      <4>1. CASE e = d
        BY <1>1, <2>3, <2>4, <2>7, <3>3, <4>1
      <4>2. CASE e # d
        <5>1. at[u] \in {"map", "work", "unload"} /\ Mapped(u) /\ fd[u] = e
          BY <1>1, <2>7, <3>3, <4>2 DEF Owned
        <5>2. u # t
          BY <1>1, <5>1
        <5> QED BY <2>3, <2>4, <5>1, <5>2 DEF OthersFrames
      <4> QED BY <4>1, <4>2
    <3> QED BY <3>1, <3>2, <3>3
  <2>9. OwnMapping'
    BY <1>1, <2>2, <2>3, <2>4 DEF OwnMapping, OthersFrames
  <2>10. Exclusive'
    BY <1>1, <2>2, <2>3 DEF Exclusive, OthersFrames
  <2>11. Objects' /\ KeyStaysMapped' /\ ResultsOK'
    BY <1>1, <2>2 DEF Objects, KeyStaysMapped, ResultsOK
  <2> QED BY <1>1, <2>3, <2>5, <2>6, <2>8, <2>9, <2>10, <2>11
<1> QED BY <1>2, <1>3 DEF Open

(* A call closes the descriptor it has opened, and no other has that number. *)
LEMMA CloseOwn ==
  ASSUME ApiInv, NEW t \in Thread, at[t] \in {"map", "unload"}, Close(t, fd[t]),
         OthersFrames(t), at'[t] = "idle", loadFailed' = loadFailed
  PROVE  /\ opener' \in [Descriptor -> Thread \cup {Other, None}] /\ stolen' \in BOOLEAN
         /\ Owned'
<1> USE DEF ApiInv, ApiTypeOK
<1>1. Mapped(t) /\ fd[t] \in Descriptor
  BY DEF Frames
<1>2. /\ opener'[fd[t]] = None /\ \A e \in Descriptor \ {fd[t]} : opener'[e] = opener[e]
      /\ opener' \in [Descriptor -> Thread \cup {Other, None}] /\ stolen' \in BOOLEAN
  BY <1>1 DEF Close
<1>3. \A u \in Thread \ {t} : Mapped(u)' = Mapped(u)
  BY DEF OthersFrames, Mapped
<1>4. Owned'
  <2> SUFFICES ASSUME ~loadFailed' PROVE
        /\ ~stolen'
        /\ \A u \in Thread : at'[u] \in {"map", "work", "unload"} /\ Mapped(u)' => opener'[fd'[u]] = u
        /\ \A e \in Descriptor, u \in Thread : opener'[e] = u =>
             at'[u] \in {"map", "work", "unload"} /\ Mapped(u)' /\ fd'[u] = e
    BY DEF Owned
  <2>1. opener[fd[t]] = t /\ ~stolen'
    BY <1>1 DEF Owned, Close
  <2>2. ASSUME NEW u \in Thread, at'[u] \in {"map", "work", "unload"}, Mapped(u)'
        PROVE  opener'[fd'[u]] = u
    <3>1. u # t /\ opener[fd[u]] = u /\ fd[u] \in Descriptor /\ fd'[u] = fd[u]
      BY <1>3, <2>2 DEF Owned, OthersFrames, Frames
    <3> QED BY <1>2, <2>1, <3>1
  <2>3. ASSUME NEW e \in Descriptor, NEW u \in Thread, opener'[e] = u
        PROVE  at'[u] \in {"map", "work", "unload"} /\ Mapped(u)' /\ fd'[u] = e
    <3>1. e # fd[t] /\ opener[e] = u
      BY <1>2, <2>3, ConstantsAssumption
    <3>2. at[u] \in {"map", "work", "unload"} /\ Mapped(u) /\ fd[u] = e
      BY <3>1 DEF Owned
    <3>3. u # t
      BY <3>1, <3>2
    <3> QED BY <1>3, <3>2, <3>3 DEF OthersFrames
  <2> QED BY <2>1, <2>2, <2>3
<1> QED BY <1>2, <1>4

LEMMA LoadFailsInv == ASSUME ApiInv, NEW t \in Thread, LoadFails(t) PROVE ApiInv'
<1> USE DEF ApiInv, ApiTypeOK
<1>1. /\ at[t] = "map" /\ Mapped(t) /\ addr[t] = None /\ fd[t] \in Descriptor
      /\ UNCHANGED <<live, provers, strays, calls>>
  BY DEF LoadFails, Frames, memory
<1>2. Close(t, fd[t]) /\ Code(t, "ERROR")
  BY DEF LoadFails
<1>3. ResultsOK'
  BY <1>1, <1>2, CodeType
<1>4. /\ opener' \in [Descriptor -> Thread \cup {Other, None}] /\ stolen' \in BOOLEAN
  BY <1>1, <1>2 DEF Close
<1>5. CASE Return(t) /\ UNCHANGED <<loadFailed, wild>>
  <2>1. /\ at'[t] = "idle" /\ call'[t] = NoObject /\ fd'[t] = None /\ addr'[t] = None
        /\ OthersFrames(t) /\ FrameTypes'
    BY <1>5, ReturnFrame
  <2>2. \A u \in Thread \ {t} : Mapped(u)' = Mapped(u)
    BY <2>1 DEF OthersFrames, Mapped
  <2>3. Frames'
    BY <2>1, <2>2 DEF Frames, OthersFrames
  <2>4. Owned'
    BY <1>1, <1>2, <1>5, <2>1, CloseOwn
  <2>5. OwnMapping'
    BY <1>1, <1>5, <2>1, <2>2 DEF OwnMapping, OthersFrames
  <2>6. Exclusive'
    BY <1>1, <2>1 DEF Exclusive, OthersFrames
  <2>7. Objects' /\ KeyStaysMapped'
    BY <1>1, <1>5 DEF Objects, KeyStaysMapped
  <2> QED BY <1>1, <1>3, <1>4, <1>5, <2>1, <2>3, <2>4, <2>5, <2>6, <2>7
<1>6. ASSUME at' = [at EXCEPT ![t] = "unload"], loadFailed' = TRUE,
             NEW a \in {None} \cup live, addr' = [addr EXCEPT ![t] = a],
             wild' = (wild \/ addr'[t] # None), UNCHANGED <<call, fd>>
      PROVE  ApiInv'
  <2>0. wild' \in BOOLEAN
    BY <1>6
  <2>1. at'[t] = "unload" /\ addr'[t] = a /\ OthersFrames(t) /\ FrameTypes'
    BY <1>1, <1>6 DEF FrameTypes, OthersFrames
  <2>2. \A u \in Thread : Mapped(u)' = Mapped(u)
    BY <1>6 DEF Mapped
  <2>3. Frames'
    BY <1>1, <1>6, <2>1, <2>2 DEF Frames, OthersFrames
  <2>4. Owned'
    <3>1. ~~loadFailed'
      BY <1>6
    <3> QED BY ONLY <3>1 DEF Owned
  <2>5. OwnMapping'
    <3>1. CASE wild'
      BY <3>1 DEF OwnMapping
    <3>2. CASE ~wild'
      <4>1. ~wild /\ addr'[t] = None
        BY <1>6, <3>2
      <4>2. \A u \in Thread : addr'[u] = addr[u]
        BY <1>1, <2>1, <4>1 DEF OthersFrames
      <4> QED BY <1>1, <2>1, <2>2, <4>1, <4>2 DEF OwnMapping, OthersFrames
    <3> QED BY <3>1, <3>2
  <2>6. Exclusive'
    BY <1>1, <1>6, <2>1 DEF Exclusive, OthersFrames
  <2>7. Objects' /\ KeyStaysMapped'
    BY <1>1, <1>6 DEF Objects, KeyStaysMapped
  <2> QED BY <1>1, <1>3, <1>4, <1>6, <2>0, <2>1, <2>3, <2>4, <2>5, <2>6, <2>7
<1> QED BY <1>5, <1>6 DEF LoadFails

LEMMA MapInv == ASSUME ApiInv, NEW t \in Thread, Map(t) PROVE ApiInv'
<1> USE DEF ApiInv, ApiTypeOK
<1> DEFINE r == Lowest(Region \ live)
<1>1. /\ at[t] = "map" /\ Mapped(t) /\ fd[t] \in Descriptor
      /\ UNCHANGED <<opener, provers, call, fd, result, strays, calls, loadFailed, wild, stolen>>
  BY DEF Map, Frames, history
<1>2. r \in Region \ live
  BY LowestIn, ConstantsAssumption DEF Map
<1>3. /\ live' = live \cup {r} /\ addr' = [addr EXCEPT ![t] = r]
      /\ at' = [at EXCEPT ![t] = "work"]
  BY DEF Map
<1> HIDE DEF r
<1>4. r # None
  BY <1>2, ConstantsAssumption DEF None
<1>5. at'[t] = "work" /\ addr'[t] = r /\ OthersFrames(t) /\ FrameTypes'
  BY <1>1, <1>2, <1>3 DEF FrameTypes, OthersFrames
<1>6. \A u \in Thread : Mapped(u)' = Mapped(u)
  BY <1>1 DEF Mapped
<1>7. Frames'
  BY <1>1, <1>5, <1>6 DEF Frames, OthersFrames
<1>8. Owned'
  BY <1>1, <1>5, <1>6 DEF Owned, OthersFrames
<1>9. OwnMapping'
  <2> SUFFICES ASSUME ~wild', NEW u \in Thread
               PROVE  /\ at'[u] = "work" /\ Mapped(u)' => addr'[u] # None
                      /\ addr'[u] # None =>
                           addr'[u] \in live' /\ \A v \in Thread \ {u} : addr'[v] # addr'[u]
    BY DEF OwnMapping
  <2>1. \A v \in Thread \ {t} : addr'[v] = addr[v] /\ addr[v] # r
    BY <1>1, <1>2, <1>4, <1>5 DEF OwnMapping, OthersFrames
  <2>2. CASE u = t
    BY <1>3, <1>4, <1>5, <2>1, <2>2
  <2>3. CASE u # t
    BY <1>1, <1>3, <1>5, <1>6, <2>1, <2>3 DEF OwnMapping, OthersFrames
  <2> QED BY <2>2, <2>3
<1>10. Exclusive'
  BY <1>1, <1>5 DEF Exclusive, OthersFrames
<1>11. Objects' /\ KeyStaysMapped' /\ ResultsOK' /\ live' \subseteq Region
  BY <1>1, <1>2, <1>3 DEF Objects, KeyStaysMapped, ResultsOK
<1> QED BY <1>1, <1>5, <1>7, <1>8, <1>9, <1>10, <1>11

LEMMA UnloadInv == ASSUME ApiInv, NEW t \in Thread, Unload(t) PROVE ApiInv'
<1> USE DEF ApiInv, ApiTypeOK
<1>1. /\ at[t] = "unload" /\ Mapped(t) /\ fd[t] \in Descriptor
      /\ live' = live \ {addr[t]} /\ Close(t, fd[t]) /\ Return(t)
      /\ UNCHANGED <<provers, result, strays, loadFailed, wild>>
  BY DEF Unload, Frames
<1>2. /\ at'[t] = "idle" /\ call'[t] = NoObject /\ fd'[t] = None /\ addr'[t] = None
      /\ OthersFrames(t) /\ FrameTypes'
  BY <1>1, ReturnFrame
<1>3. \A u \in Thread \ {t} : Mapped(u)' = Mapped(u)
  BY <1>2 DEF OthersFrames, Mapped
<1>4. Frames'
  BY <1>2, <1>3 DEF Frames, OthersFrames
<1>5. Owned' /\ opener' \in [Descriptor -> Thread \cup {Other, None}] /\ stolen' \in BOOLEAN
  BY <1>1, <1>2, CloseOwn
<1>6. OwnMapping'
  BY <1>1, <1>2, <1>3 DEF OwnMapping, OthersFrames
<1>7. Exclusive'
  BY <1>1, <1>2 DEF Exclusive, OthersFrames
<1>8. Objects' /\ KeyStaysMapped' /\ ResultsOK' /\ live' \subseteq Region
  BY <1>1 DEF Objects, KeyStaysMapped, ResultsOK
<1> QED BY <1>1, <1>2, <1>4, <1>5, <1>6, <1>7, <1>8

(* A call at work keeps the invariant if what it does to the objects, the *)
(* memory and its result does.                                            *)
LEMMA WorkInv ==
  ASSUME ApiInv, NEW t \in Thread, at[t] = "work", After(t),
         opener' = opener, live' = live, UNCHANGED history,
         provers' \in [Handle -> {NoObject} \cup
           [exists : {TRUE}, zkey : Zkey, key : Region \cup {None}, file : BOOLEAN]],
         \A u \in Thread \ {t} :
           at[u] # "idle" /\ call[u].fn \in {"prove_object", "destroy"}
             => provers'[call[u].prover].exists,
         Objects', KeyStaysMapped', ResultsOK'
  PROVE  ApiInv'
<1> USE DEF ApiInv, ApiTypeOK
<1>1. /\ FrameTypes' /\ Frames' /\ Owned' /\ OwnMapping' /\ OthersFrames(t)
      /\ at'[t] # "idle" => Mapped(t) /\ call'[t] = call[t]
  BY AfterFrame
<1>2. at'[t] # "idle" => call'[t].fn \notin {"prove_object", "destroy"}
  BY <1>1 DEF Mapped, FileCalls
<1>3. Exclusive'
  BY <1>1, <1>2 DEF Exclusive, OthersFrames
<1> QED BY <1>1, <1>3 DEF history

LEMMA OthersInUse ==
  ASSUME ApiInv, NEW t \in Thread
  PROVE  \A u \in Thread \ {t} :
           at[u] # "idle" /\ call[u].fn \in {"prove_object", "destroy"}
             => provers[call[u].prover].exists
BY DEF ApiInv, Exclusive

LEMMA PublicSizeInv == ASSUME ApiInv, NEW t \in Thread, PublicSize(t) PROVE ApiInv'
<1> DEFINE z == call[t].zkey
           sizes == [proof |-> ProofBufferMinSize, public |-> PublicBufferMinSize(z.nPublic)]
           r == [NoResult EXCEPT !.sizes = sizes]
<1>1. /\ at[t] = "work" /\ After(t) /\ Reads(t, addr[t], "key")
      /\ UNCHANGED <<opener, live, provers>> /\ UNCHANGED history
  BY DEF PublicSize
<1>2. z \in Zkey
  BY <1>1 DEF ApiInv, ApiTypeOK, FrameTypes, CallTypes
<1>3. ResultsOK'
  <2>1. CASE Code(t, "ERROR")
    BY <1>1, <2>1, CodeType DEF ApiInv
  <2>2. CASE result' = [result EXCEPT ![t] = r]
    <3>1. sizes \in Size
      BY <1>2, ZkeyType DEF Size, ProofBufferMinSize, PublicBufferMinSize
    <3>2. r.given = NoBytes /\ r.sizes = sizes /\ r.written = NoBytes /\ r.code = "OK"
      BY DEF NoResult
    <3>3. ResultTypes(r)
      <4> HIDE DEF r, sizes
      <4> QED BY <3>1, <3>2, NoBytesType DEF ResultTypes, NoBytes
    <3> HIDE DEF r
    <3> QED BY <2>2, <3>3 DEF ResultsOK, ApiInv, ApiTypeOK
  <2> QED BY <2>1, <2>2 DEF PublicSize
<1>4. KeyStaysMapped'
  BY <1>1, OwnRead DEF history
<1>5. Objects' /\ provers' \in [Handle -> {NoObject} \cup
           [exists : {TRUE}, zkey : Zkey, key : Region \cup {None}, file : BOOLEAN]]
  BY <1>1 DEF ApiInv, ApiTypeOK, Objects
<1> QED BY <1>1, <1>3, <1>4, <1>5, WorkInv, OthersInUse

LEMMA CreateInv == ASSUME ApiInv, NEW t \in Thread, Create(t) PROVE ApiInv'
<1> DEFINE Object == {NoObject} \cup
             [exists : {TRUE}, zkey : Zkey, key : Region \cup {None}, file : BOOLEAN]
<1>1. /\ at[t] = "work" /\ After(t) /\ Reads(t, addr[t], "key")
      /\ UNCHANGED <<opener, live>> /\ UNCHANGED history
  BY DEF Create
<1>2. \E c \in {"ERROR", "OK"} : Code(t, c)
  BY DEF Create
<1>3. ResultsOK'
  BY <1>1, <1>2, CodeType DEF ApiInv
<1>4. KeyStaysMapped'
  BY <1>1, OwnRead DEF history
<1>5. CASE provers' = provers
  BY <1>1, <1>3, <1>4, <1>5, WorkInv, OthersInUse DEF ApiInv, ApiTypeOK, Objects
<1>6. ASSUME NEW h \in Handle, ~provers[h].exists, provers' = [provers EXCEPT ![h] = Made(t)]
      PROVE  ApiInv'
  <2>1. call[t].zkey \in Zkey /\ addr[t] \in Region \cup {None} /\ Mapped(t) \in BOOLEAN
    BY <1>1 DEF ApiInv, ApiTypeOK, FrameTypes, CallTypes, Mapped
  <2>2. /\ Made(t) \in Object
        /\ ~Made(t).file => Made(t).key = None
    BY <2>1 DEF Made
  <2>3. /\ provers' \in [Handle -> Object]
        /\ provers'[h] = Made(t) /\ \A g \in Handle \ {h} : provers'[g] = provers[g]
    <3> HIDE DEF Object
    <3>1. provers \in [Handle -> Object]
      BY DEF Object, ApiInv, ApiTypeOK
    <3> QED BY <1>6, <2>2, <3>1
  <2>4. Objects'
    BY <2>2, <2>3 DEF Objects, ApiInv
  <2>5. ASSUME NEW u \in Thread \ {t}, at[u] # "idle", call[u].fn \in {"prove_object", "destroy"}
        PROVE  provers'[call[u].prover].exists
    <3>1. provers[call[u].prover].exists /\ call[u].prover \in Handle
      BY <2>5 DEF ApiInv, ApiTypeOK, FrameTypes, CallTypes, Exclusive
    <3> QED BY <1>6, <2>3, <3>1
  <2> QED BY <1>1, <1>3, <1>4, <2>3, <2>4, <2>5, WorkInv
<1> QED BY <1>5, <1>6 DEF Create

LEMMA DestroyInv == ASSUME ApiInv, NEW t \in Thread, Destroy(t) PROVE ApiInv'
<1> DEFINE h == call[t].prover
<1>1. /\ at[t] = "work" /\ call[t].fn = "destroy" /\ After(t) /\ Code(t, "OK")
      /\ provers' = [provers EXCEPT ![h] = NoObject]
      /\ UNCHANGED <<opener, live, strays>> /\ UNCHANGED history
  BY DEF Destroy
<1>2. ResultsOK'
  BY <1>1, CodeType DEF ApiInv
<1>3. KeyStaysMapped'
  BY <1>1 DEF KeyStaysMapped, ApiInv, history
<1>4. h \in Handle
  BY <1>1 DEF ApiInv, ApiTypeOK, FrameTypes, CallTypes
<1>5. /\ provers' \in [Handle -> {NoObject} \cup
           [exists : {TRUE}, zkey : Zkey, key : Region \cup {None}, file : BOOLEAN]]
      /\ provers'[h] = NoObject /\ \A g \in Handle \ {h} : provers'[g] = provers[g]
  BY <1>1, <1>4 DEF ApiInv, ApiTypeOK
<1>6. Objects'
  BY <1>5 DEF Objects, ApiInv, NoObject
<1>7. ASSUME NEW u \in Thread \ {t}, at[u] # "idle", call[u].fn \in {"prove_object", "destroy"}
      PROVE  provers'[call[u].prover].exists
  <2>1. /\ provers[call[u].prover].exists /\ call[u].prover \in Handle
        /\ call[u].prover # h
    BY <1>1, <1>7 DEF ApiInv, ApiTypeOK, FrameTypes, CallTypes, Exclusive
  <2> QED BY <1>5, <2>1
<1> QED BY <1>1, <1>2, <1>3, <1>5, <1>6, <1>7, WorkInv

-----------------------------------------------------------------------------
(* A proof of decimals that have at most 77 digits: it is never longer than *)
(* the size the interface names.                                            *)
LEMMA ProofLengths ==
  \A d \in Digits : ProofLength(d) \in Nat /\ ProofLength(d) + 1 <= ProofBufferMinSize
  BY ConstantsAssumption DEF ProofLength, ProofBufferMinSize

LEMMA PublicLengths ==
  ASSUME NEW n \in Nat, NEW d \in 1 .. 77
  PROVE  /\ PublicLength(n, d) \in Nat
         /\ n > 0 => PublicLength(n, d) + 1 <= PublicBufferMinSize(n)
<1>1. CASE n = 0
  BY <1>1 DEF PublicLength
<1>2. CASE n > 0
  <2>1. n * (d + 3) \in Nat /\ n * (d + 3) <= n * 80
    OBVIOUS
  <2>2. PublicLength(n, d) = n * (d + 3) + 1
    BY <1>2 DEF PublicLength
  <2> QED BY <1>2, <2>1, <2>2 DEF PublicBufferMinSize
<1> QED BY <1>1, <1>2

(* What a proof gives back, with the buffers g and the result before it. *)
Answer(before, z, w, g, d) ==
  LET length == [proof |-> ProofLength(d), public |-> PublicLength(z.nPublic, w.digits)]
      required == [proof |-> length.proof + 1, public |-> length.public + 1] IN
  [zkey |-> z, witness |-> w, given |-> g,
   code |-> IF Fits(g, required) THEN "OK" ELSE "SHORT_BUFFER",
   sizes |-> IF Fits(g, required) THEN length ELSE required,
   written |-> IF Fits(g, required) THEN required ELSE NoBytes,
   retry |-> Retries(before, z, w, g)]

LEMMA AnswerType ==
  ASSUME NEW before, ResultTypes(before), NEW z \in Zkey, NEW w \in Witness, NEW g \in Size,
         NEW d \in Digits
  PROVE  ResultTypes(Answer(before, z, w, g, d))
<1> DEFINE length == [proof |-> ProofLength(d), public |-> PublicLength(z.nPublic, w.digits)]
           required == [proof |-> length.proof + 1, public |-> length.public + 1]
           r == Answer(before, z, w, g, d)
<1> SUFFICES ResultTypes(r)
  OBVIOUS
<1>1. length \in Size /\ required \in Size
  <2>1. ProofLength(d) \in Nat
    BY ProofLengths
  <2>2. PublicLength(z.nPublic, w.digits) \in Nat
    <3>1. z.nPublic \in Nat /\ w.digits \in 1 .. 77
      BY ConstantsAssumption
    <3> QED BY <3>1, PublicLengths
  <2> QED BY <2>1, <2>2 DEF Size
<1>2. /\ required.public = PublicLength(z.nPublic, w.digits) + 1
      /\ required.proof = ProofLength(d) + 1
  OBVIOUS
<1>3. /\ r.zkey = z /\ r.witness = w /\ r.given = g
      /\ r.code = IF Fits(g, required) THEN "OK" ELSE "SHORT_BUFFER"
      /\ r.sizes = IF Fits(g, required) THEN length ELSE required
      /\ r.written = IF Fits(g, required) THEN required ELSE NoBytes
      /\ r.retry = Retries(before, z, w, g)
  BY DEF Answer
<1> HIDE DEF length, required, r
<1>4. CASE Fits(g, required)
  BY <1>1, <1>3, <1>4 DEF ResultTypes, Fits, Size
<1>5. CASE ~Fits(g, required)
  <2>1. /\ r.zkey = z /\ r.witness = w /\ r.given = g /\ r.sizes = required
        /\ r.written = NoBytes
    BY <1>3, <1>5
  <2>2. r.written.proof <= r.given.proof /\ r.written.public <= r.given.public
    BY <2>1 DEF NoBytes, Size
  <2>3. r.retry => r.given.public >= r.sizes.public
    <3>1. CASE Retries(before, z, w, g)
      <4>1. g.public = required.public /\ g.public \in Nat
        BY <1>2, <3>1 DEF Retries, ResultTypes, Size
      <4> QED BY <2>1, <4>1
    <3>2. CASE ~Retries(before, z, w, g)
      BY <1>3, <3>2
    <3> QED BY <3>1, <3>2
  <2>4. ~Fits(r.given, r.sizes) /\ r.sizes.public = PublicLength(r.zkey.nPublic, r.witness.digits) + 1
    BY <1>2, <1>5, <2>1
  <2>5. \E e \in Digits : r.sizes.proof = ProofLength(e) + 1
    BY <1>2, <2>1
  <2> QED BY <1>1, <2>1, <2>2, <2>3, <2>4, <2>5, NoBytesType DEF ResultTypes
<1> QED BY <1>4, <1>5

LEMMA ProveInv == ASSUME ApiInv, NEW t \in Thread, Prove(t) PROVE ApiInv'
<1> DEFINE z == call[t].zkey
           w == call[t].witness
           g == call[t].given
           p == ProverOf(t)
<1>1. /\ at[t] = "work" /\ call[t].fn \in {"prove_file", "prove_buffer", "prove_object"} /\ After(t)
      /\ Reads(t, p.key, IF p.file /\ ~Mapped(t) THEN "object of a file" ELSE "key")
      /\ UNCHANGED <<opener, live, provers>> /\ UNCHANGED history
  BY DEF Prove
<1>2. z \in Zkey /\ w \in Witness /\ g \in Size
  BY <1>1 DEF ApiInv, ApiTypeOK, FrameTypes, CallTypes
<1>3. ResultsOK'
  <2>1. CASE \E c \in {"ERROR", "INVALID_WITNESS_LENGTH"} : Code(t, c)
    BY <1>1, <2>1, CodeType DEF ApiInv
  <2>2. CASE \E d \in Digits : result' = [result EXCEPT ![t] = Answer(result[t], z, w, g, d)]
    <3>1. PICK d \in Digits : result' = [result EXCEPT ![t] = Answer(result[t], z, w, g, d)]
      BY <2>2
    <3>2. ResultTypes(Answer(result[t], z, w, g, d))
      BY <1>2, AnswerType DEF ApiInv, ApiTypeOK, ResultsOK
    <3> QED BY <3>1, <3>2 DEF ApiInv, ApiTypeOK, ResultsOK
  <2>3. \A c \in Refusals(z, w) : c \in {"ERROR", "INVALID_WITNESS_LENGTH"}
    BY DEF Refusals
  <2>4. \/ Code(t, "ERROR")
        \/ \E refusal \in Refusals(z, w) : Code(t, refusal)
        \/ \E d \in Digits : result' = [result EXCEPT ![t] = Answer(result[t], z, w, g, d)]
    BY DEF Prove, Answer
  <2> QED BY <2>1, <2>2, <2>3, <2>4
<1>4. KeyStaysMapped'
  <2>1. CASE call[t].fn = "prove_object"
    <3>1. /\ ~Mapped(t) /\ p = provers[call[t].prover] /\ call[t].prover \in Handle /\ p.exists
      BY <1>1, <2>1
      DEF Mapped, FileCalls, ProverOf, ApiInv, ApiTypeOK, FrameTypes, CallTypes, Exclusive
    <3>2. CASE p.file
      BY <1>1, <3>1, <3>2 DEF Reads, KeyStaysMapped, ApiInv, history
    <3>3. CASE ~p.file
      <4>1. p.key = None
        BY <3>1, <3>3 DEF ApiInv, Objects
      <4> QED BY <1>1, <4>1 DEF Reads, KeyStaysMapped, ApiInv, history
    <3> QED BY <3>2, <3>3
  <2>2. CASE call[t].fn # "prove_object"
    <3>1. p.key = (IF Mapped(t) THEN addr[t] ELSE None) /\ p.file = Mapped(t)
      BY <2>2 DEF ProverOf, Made
    <3>2. CASE Mapped(t)
      BY <1>1, <3>1, <3>2, OwnRead DEF history
    <3>3. CASE ~Mapped(t)
      BY <1>1, <3>1, <3>3 DEF Reads, KeyStaysMapped, ApiInv, history
    <3> QED BY <3>2, <3>3
  <2> QED BY <2>1, <2>2
<1>5. Objects' /\ provers' \in [Handle -> {NoObject} \cup
           [exists : {TRUE}, zkey : Zkey, key : Region \cup {None}, file : BOOLEAN]]
  BY <1>1 DEF ApiInv, ApiTypeOK, Objects
<1> QED BY <1>1, <1>3, <1>4, <1>5, WorkInv, OthersInUse

-----------------------------------------------------------------------------
LEMMA OtherOpensInv == ASSUME ApiInv, OtherOpens PROVE ApiInv'
<1> USE DEF ApiInv, ApiTypeOK
<1>1. /\ opener' = [opener EXCEPT ![Lowest(Free)] = Other]
      /\ UNCHANGED <<live, provers, at, call, fd, addr, result, loadFailed, wild, stolen, strays>>
  BY DEF OtherOpens, memory, history
<1>2. Lowest(Free) \in Descriptor /\ opener[Lowest(Free)] = None
  BY FreeIsFree DEF OtherOpens
<1>3. opener' \in [Descriptor -> Thread \cup {Other, None}]
  BY <1>1
<1>4. \A d \in Descriptor, t \in Thread : opener'[d] = t <=> opener[d] = t
  BY <1>1, <1>2, ConstantsAssumption
<1>5. Owned'
  BY <1>1, <1>4 DEF Owned, Mapped, Frames
<1>6. FrameTypes' /\ Frames' /\ OwnMapping' /\ Exclusive'
  BY <1>1 DEF FrameTypes, Frames, OwnMapping, Exclusive, Mapped
<1>7. Objects' /\ KeyStaysMapped' /\ ResultsOK'
  BY <1>1 DEF Objects, KeyStaysMapped, ResultsOK
<1> QED BY <1>1, <1>3, <1>5, <1>6, <1>7

LEMMA OtherClosesInv == ASSUME ApiInv, OtherCloses PROVE ApiInv'
<1> USE DEF ApiInv, ApiTypeOK
<1>1. PICK e \in Descriptor : opener[e] = Other /\ opener' = [opener EXCEPT ![e] = None]
  BY DEF OtherCloses
<1>2. UNCHANGED <<live, provers, at, call, fd, addr, result, loadFailed, wild, stolen, strays>>
  BY DEF OtherCloses, memory, history
<1>3. opener' \in [Descriptor -> Thread \cup {Other, None}]
  BY <1>1
<1>4. \A d \in Descriptor, t \in Thread : opener'[d] = t <=> opener[d] = t
  BY <1>1, ConstantsAssumption
<1>5. Owned'
  BY <1>2, <1>4 DEF Owned, Mapped, Frames
<1>6. FrameTypes' /\ Frames' /\ OwnMapping' /\ Exclusive'
  BY <1>2 DEF FrameTypes, Frames, OwnMapping, Exclusive, Mapped
<1>7. Objects' /\ KeyStaysMapped' /\ ResultsOK'
  BY <1>2 DEF Objects, KeyStaysMapped, ResultsOK
<1> QED BY <1>2, <1>3, <1>5, <1>6, <1>7

LEMMA ApiNextInv == ApiInv /\ [ApiNext]_apiVars => ApiInv'
<1> SUFFICES ASSUME ApiInv, [ApiNext]_apiVars PROVE ApiInv'
  OBVIOUS
<1>1. ASSUME NEW t \in Thread, Step(t) PROVE ApiInv'
  BY <1>1, BeginCallInv, OpenInv, LoadFailsInv, MapInv, UnloadInv, PublicSizeInv, CreateInv,
     ProveInv, DestroyInv DEF Step
<1>2. CASE OtherOpens \/ OtherCloses
  BY <1>2, OtherOpensInv, OtherClosesInv
<1>3. CASE UNCHANGED apiVars
  BY <1>3 DEF apiVars, ApiInv, ApiTypeOK, FrameTypes, ResultsOK, Frames, Owned, OwnMapping,
              Exclusive, Objects, KeyStaysMapped, Mapped
<1> QED BY <1>1, <1>2, <1>3 DEF ApiNext

LEMMA ApiInductive == ApiSpec => []ApiInv
<1>1. ApiInv /\ [ApiNext]_apiVars => ApiInv'
  BY ApiNextInv
<1> QED BY ApiInitInv, <1>1, PTL DEF ApiSpec

-----------------------------------------------------------------------------
THEOREM ApiTypes == ApiSpec => []ApiTypeOK
<1>1. ApiInv => ApiTypeOK
  BY DEF ApiInv
<1> QED BY <1>1, ApiInductive, PTL

THEOREM DescriptorsCorrect == ApiSpec => []DescriptorsOwned
<1>1. ApiInv => DescriptorsOwned
  BY DEF ApiInv, Owned, DescriptorsOwned
<1> QED BY <1>1, ApiInductive, PTL

THEOREM KeyCorrect == ApiSpec => []KeyStaysMapped
<1>1. ApiInv => KeyStaysMapped
  BY DEF ApiInv
<1> QED BY <1>1, ApiInductive, PTL

THEOREM SizesCorrect == ApiSpec => []SizesSuffice
<1>1. ASSUME ApiInv PROVE SizesSuffice
  <2> SUFFICES ASSUME NEW t \in Thread
               PROVE  LET r == result[t] IN
                 /\ r.written.proof <= r.given.proof /\ r.written.public <= r.given.public
                 /\ r.code = "SHORT_BUFFER" =>
                      /\ r.zkey.nPublic > 0 =>
                           ~Fits(r.given, [proof |-> ProofBufferMinSize,
                                           public |-> PublicBufferMinSize(r.zkey.nPublic)])
                      /\ r.retry => r.given.public >= r.sizes.public /\ r.given.proof < r.sizes.proof
    BY DEF SizesSuffice
  <2> DEFINE r == result[t]
  <2>1. ResultTypes(r)
    BY <1>1 DEF ApiInv, ApiTypeOK, ResultsOK
  <2> HIDE DEF r
  <2>2. ASSUME r.code = "SHORT_BUFFER", r.zkey.nPublic > 0
        PROVE  ~Fits(r.given, [proof |-> ProofBufferMinSize,
                               public |-> PublicBufferMinSize(r.zkey.nPublic)])
    <3>1. r.zkey.nPublic \in Nat /\ r.witness.digits \in 1 .. 77
      BY <2>1, <2>2, ConstantsAssumption DEF ResultTypes
    <3>2. r.sizes.public <= PublicBufferMinSize(r.zkey.nPublic)
      BY <2>1, <2>2, <3>1, PublicLengths DEF ResultTypes
    <3>3. r.sizes.proof <= ProofBufferMinSize
      BY <2>1, <2>2, ProofLengths DEF ResultTypes
    <3>4. PublicBufferMinSize(r.zkey.nPublic) \in Nat /\ ProofBufferMinSize \in Nat
      BY <3>1 DEF PublicBufferMinSize, ProofBufferMinSize
    <3> QED BY <2>1, <2>2, <3>2, <3>3, <3>4 DEF ResultTypes, Fits, Size
  <2>3. ASSUME r.code = "SHORT_BUFFER", r.retry
        PROVE  r.given.public >= r.sizes.public /\ r.given.proof < r.sizes.proof
    BY <2>1, <2>3 DEF ResultTypes, Fits, Size
  <2>4. r.written.proof <= r.given.proof /\ r.written.public <= r.given.public
    BY <2>1 DEF ResultTypes
  <2> QED BY <2>2, <2>3, <2>4 DEF r
<1> QED BY <1>1, ApiInductive, PTL
=============================================================================
