--------------------------- MODULE ManifestProofs ---------------------------
(***************************************************************************)
(* Proofs about Manifest, for every value of its constants that satisfies *)
(* the assumptions of that module.                                         *)
(***************************************************************************)
EXTENDS Manifest, SequenceTheorems, TLAPS

(***************************************************************************)
(* The conversions of the model return strings of the alphabet.           *)
(***************************************************************************)
LEMMA LowerType ==
  ASSUME NEW s \in Seq(Chars)
  PROVE  Lower(s) \in Seq(Chars)
BY CharsAssumption DEF Lower, LowerChar

LEMMA HexType ==
  ASSUME NEW b \in Seq(0..255)
  PROVE  Hex(b) \in Seq(Chars)
<1>1. \A i \in 1..(2 * Len(b)) : (i + 1) \div 2 \in 1..Len(b)
  OBVIOUS
<1>2. \A x \in 0..255 : (x \div 16) + 1 \in 1..16 /\ (x % 16) + 1 \in 1..16
  OBVIOUS
<1>3. HexDigit \in [1..16 -> Chars]
  BY CharsAssumption DEF HexDigit
<1>4. \A i \in 1..(2 * Len(b)) : b[(i + 1) \div 2] \in 0..255
  BY <1>1, ElementOfSeq
<1>5. Hex(b) \in [1..(2 * Len(b)) -> Chars]
  BY <1>2, <1>3, <1>4 DEF Hex
<1>6. 2 * Len(b) \in Nat
  BY LenProperties
<1>. QED
  BY <1>5, <1>6

(***************************************************************************)
(* parse_cbor_header returns None, raises, or a header dict of the right   *)
(* shape.                                                                  *)
(***************************************************************************)
LEMMA ParseType ==
  ASSUME NEW c \in FileType, NEW sz \in Nat
  PROVE  parse_cbor_header(c, sz) \in HeaderType
<1>1. CASE c.hdr[2].t = "bytes"
  <2>1. c.hdr[2].v \in Seq(0..255)
    BY <1>1 DEF FileType, HeaderKeys, PyVal, None, PyInts, PyStrs
  <2>2. PyStr(Hex(c.hdr[2].v)) \in PyStrs
    BY <2>1, HexType DEF PyStr, PyStrs
  <2>3. GovernancePresent(c.hdr).val \in BOOLEAN
    BY DEF GovernancePresent, CountPositive
  <2>4. c.hdr[0] \in PyVal /\ c.hdr[1] \in PyVal /\ c.version \in PyVal
    BY DEF FileType, HeaderKeys
  <2>. QED
    BY <2>2, <2>3, <2>4 DEF parse_cbor_header, HeaderType
<1>2. CASE c.hdr[2].t # "bytes"
  BY <1>2 DEF parse_cbor_header, HeaderType
<1>. QED
  BY <1>1, <1>2

(***************************************************************************)
(* The fields generate_manifest selects have the types of the manifest.    *)
(***************************************************************************)
LEMMA SelectType ==
  ASSUME NEW h \in HeaderType, h # Crash,
         NEW a \in [name: Names, era: EraOpts, hash: HashOpts,
                    height: HeightOpts, chunk: ChunkSizes]
  PROVE  SelectFields(h, a) \in FieldsType
<1>1. CASE h.kind = "none"
  <2> DEFINE fn == derive_from_filename(a.name)
  <2>1. fn[1] \in {None} \cup PyInts /\ fn[2] \in {None} \cup PyStrs
    <3>1. a.name \in NameType
      BY NamesAssumption
    <3>2. PyStr(Lower(a.name.hash)) \in PyStrs
      BY <3>1, LowerType DEF NameType, PyStr, PyStrs
    <3>. QED
      BY <3>1, <3>2 DEF derive_from_filename, NameType
  <2>2. a.era \in {None} \cup PyStrs /\ a.hash \in {None} \cup PyStrs
        /\ a.height \in {None} \cup PyInts
    BY FlagsAssumption
  <2>3. PyStr(Conway) \in PyStrs /\ PyStr(Unknown) \in PyStrs /\ PyInt(1) \in PyInts
    BY CharsAssumption DEF PyStr, PyStrs, PyInt, PyInts, Conway, Unknown
  <2>4. PyOr(a.era, PyStr(Conway)) \in PyVal
    BY <2>2, <2>3 DEF PyOr, PyVal
  <2>5. PyOr(a.height, PyOr(fn[1], PyInt(1))) \in PyVal
    BY <2>1, <2>2, <2>3 DEF PyOr, PyVal
  <2>6. PyOr(a.hash, PyOr(fn[2], PyStr(Unknown))) \in PyStrs
    BY <2>1, <2>2, <2>3 DEF PyOr, Truthy, None
  <2>7. PyStr(Lower(PyOr(a.hash, PyOr(fn[2], PyStr(Unknown))).v)) \in PyVal
    BY <2>6, LowerType DEF PyStrs, PyStr, PyVal
  <2>. QED
    BY <1>1, <2>4, <2>5, <2>7 DEF SelectFields, FieldsType
<1>2. CASE h.kind = "ok"
  BY <1>2 DEF SelectFields, FieldsType, HeaderType, PyVal, NoHeader, Crash
<1>. QED
  BY <1>1, <1>2 DEF HeaderType, NoHeader, Crash

(***************************************************************************)
(* A file that does not load, and a partial write, are of the file type.  *)
(***************************************************************************)
LEMMA UnparsableType ==
  ASSUME NEW b \in Seq(Nat)
  PROVE  Unparsable(b) \in FileType
<1>1. [k \in HeaderKeys |-> None] \in [HeaderKeys -> PyVal]
  BY DEF PyVal
<1>. QED
  BY <1>1 DEF Unparsable, FileType, PyVal

LEMMA TruncatedType ==
  ASSUME NEW c \in FileType, NEW n \in 0..Len(c.bytes)
  PROVE  /\ Truncated(c, n) \in FileType
         /\ Len(Truncated(c, n).bytes) = n
<1>1. c.bytes \in Seq(Nat)
  BY DEF FileType
<1>2. \A i \in 1..n : c.bytes[i] \in Nat
  BY <1>1, ElementOfSeq
<1>3. SubSeq(c.bytes, 1, n) \in Seq(Nat) /\ Len(SubSeq(c.bytes, 1, n)) = n
  BY <1>2, SubSeqProperties
<1>. QED
  BY <1>3, UnparsableType DEF Truncated, Unparsable

-----------------------------------------------------------------------------
(***************************************************************************)
(* Type correctness.  TypeOK alone is not inductive: a step of the writer  *)
(* types the file it leaves only if the writer has not yet written all of  *)
(* its target, which WriterProgress records.                               *)
(***************************************************************************)
WriterProgress == wpc = "writing" => Len(disk.bytes) < Len(wtarget.bytes)
TypeInv == TypeOK /\ WriterProgress

LEMMA InitTypeInv == Init => TypeInv
<1> SUFFICES ASSUME Init PROVE TypeInv
  OBVIOUS
<1>1. disk \in FileType /\ Absent \in FileType
  <2>1. disk \in FileType
    BY ContentsAssumption DEF Init
  <2>2. Unparsable(<<>>) \in FileType
    BY EmptySeq, UnparsableType
  <2>. QED
    BY <2>1, <2>2 DEF Absent, FileType
<1>2. NoFields \in FieldsType
  BY DEF NoFields, FieldsType, PyVal
<1>. QED
  BY <1>1, <1>2 DEF Init, TypeInv, TypeOK, WriterProgress, HeaderType

\* The chunk compute_sha256 reads is a sequence of bytes of the file.
LEMMA ChunkType ==
  ASSUME TypeOK
  PROVE  /\ NextChunk \in Seq(Nat)
         /\ pos + Len(NextChunk) \in Nat
<1> DEFINE last == IF pos + args.chunk > Len(disk.bytes) THEN Len(disk.bytes)
                    ELSE pos + args.chunk
<1>1. disk.bytes \in Seq(Nat) /\ pos \in Nat /\ args.chunk \in Nat
  BY ChunkAssumption DEF TypeOK, FileType
<1>2. \A i \in (pos + 1)..last : disk.bytes[i] \in Nat
  BY <1>1, ElementOfSeq
<1>3. NextChunk = SubSeq(disk.bytes, pos + 1, last)
  BY DEF NextChunk
<1>4. NextChunk \in Seq(Nat)
  BY <1>1, <1>2, <1>3, SubSeqProperties
<1>. QED
  BY <1>1, <1>4, LenProperties

LEMMA NextTypeInv == TypeInv /\ [Next]_vars => TypeInv'
<1> SUFFICES ASSUME TypeInv, [Next]_vars PROVE TypeInv'
  OBVIOUS
<1> USE DEF TypeInv, TypeOK, WriterProgress
<1>1. CASE Stat
  BY <1>1, LenProperties DEF Stat, FileType
<1>2. CASE Parse
  <2>1. header' \in HeaderType
    BY <1>2, ParseType DEF Parse
  <2>2. header' # Crash => fields' \in FieldsType
    BY <1>2, <2>1, SelectType DEF Parse, Crash
  <2>. QED
    BY <1>2, <2>1, <2>2 DEF Parse, Crash
<1>3. CASE Read
  <2>1. CASE NextChunk # <<>>
    <3>0. NextChunk \in Seq(Nat) /\ pos + Len(NextChunk) \in Nat
      BY ChunkType
    <3>a. hasher' = hasher \o NextChunk /\ pos' = pos + Len(NextChunk)
      BY <1>3, <2>1 DEF Read
    <3>1. hasher' \in Seq(Nat) /\ pos' \in Nat
      BY <3>0, <3>a, ConcatProperties
    <3>. QED
      BY <1>3, <2>1, <3>1 DEF Read
  <2>2. CASE NextChunk = <<>>
    <3>1. manifest' \in ManifestType
      BY <1>3, <2>2 DEF Read, ManifestType, FieldsType
    <3>. QED
      BY <1>3, <2>2, <3>1 DEF Read
  <2>. QED
    BY <2>1, <2>2
<1>4. CASE WriterOpen
  <2>1. PICK c \in Contents : c.exists /\ c.bytes # <<>> /\ wtarget' = c
                              /\ disk' = Truncated(c, 0)
    BY <1>4 DEF WriterOpen
  <2>2. c \in FileType /\ Len(c.bytes) \in Nat \ {0}
    BY <2>1, ContentsAssumption, EmptySeq DEF FileType
  <2>3. disk' \in FileType /\ Len(disk'.bytes) = 0
    BY <2>1, <2>2, TruncatedType
  <2>. QED
    BY <1>4, <2>1, <2>2, <2>3 DEF WriterOpen, procVars
<1>5. CASE WriterDump
  <2> DEFINE n == Len(disk.bytes) + 1
  <2>1. n \in 0..Len(wtarget.bytes)
    BY <1>5, LenProperties DEF WriterDump, FileType
  <2>2. Truncated(wtarget, n) \in FileType /\ Len(Truncated(wtarget, n).bytes) = n
    BY <2>1, TruncatedType
  <2>3. CASE n = Len(wtarget.bytes)
    BY <1>5, <2>3 DEF WriterDump, procVars
  <2>4. CASE n # Len(wtarget.bytes)
    BY <1>5, <2>1, <2>2, <2>4 DEF WriterDump, procVars
  <2>. QED
    BY <2>3, <2>4
<1>6. CASE Finished
  BY <1>6 DEF Finished, vars
<1>7. CASE UNCHANGED vars
  BY <1>7 DEF vars
<1>. QED
  BY <1>1, <1>2, <1>3, <1>4, <1>5, <1>6, <1>7 DEF Next, Procedure

(***************************************************************************)
(* Every reachable state is well typed.                                    *)
(***************************************************************************)
THEOREM TypeCorrect == Spec => []TypeOK
<1>1. Spec => []TypeInv
  BY InitTypeInv, NextTypeInv, PTL DEF Spec
<1>. QED
  BY <1>1, PTL DEF TypeInv
-----------------------------------------------------------------------------
(***************************************************************************)
(* The digest.  With no writer on the file, the read loop of               *)
(* compute_sha256 keeps the hasher equal to the prefix of the file it has  *)
(* read, so the digest it ends with is that of the whole file.             *)
(***************************************************************************)
ChunkEnd == IF pos + args.chunk > Len(disk.bytes) THEN Len(disk.bytes)
            ELSE pos + args.chunk

DigestInv ==
  ~WriterActive =>
    /\ wpc = "idle"
    /\ pc \in {"stat", "parse"} => hasher = <<>> /\ pos = 0
    /\ pc \in {"parse", "read", "done"} => size = Len(disk.bytes)
    /\ pc = "read" => /\ pos <= Len(disk.bytes)
                      /\ hasher = SubSeq(disk.bytes, 1, pos)
    /\ pc = "done" => /\ manifest.sha256 = disk.bytes
                      /\ manifest.size_bytes = size

DInv == TypeInv /\ DigestInv

\* One iteration of the read loop reads the bytes pos+1..ChunkEnd of the
\* file, and reads nothing exactly when it is at the end of the file.
LEMMA ChunkStep ==
  ASSUME TypeOK, pos \in 0..Len(disk.bytes)
  PROVE  /\ ChunkEnd \in pos..Len(disk.bytes)
         /\ NextChunk = SubSeq(disk.bytes, pos + 1, ChunkEnd)
         /\ Len(NextChunk) = ChunkEnd - pos
         /\ NextChunk = <<>> <=> pos = Len(disk.bytes)
<1>1. /\ disk.bytes \in Seq(Nat) /\ Len(disk.bytes) \in Nat
      /\ args.chunk \in Nat \ {0}
  BY ChunkAssumption, LenProperties DEF TypeOK, FileType
<1>2. ChunkEnd \in pos..Len(disk.bytes)
  BY <1>1 DEF ChunkEnd
<1>3. NextChunk = SubSeq(disk.bytes, pos + 1, ChunkEnd)
  BY DEF NextChunk, ChunkEnd
<1>4. \A i \in (pos + 1)..ChunkEnd : disk.bytes[i] \in Nat
  BY <1>1, <1>2, ElementOfSeq
<1>5. NextChunk \in Seq(Nat) /\ Len(NextChunk) = ChunkEnd - pos
  BY <1>2, <1>3, <1>4, SubSeqProperties
<1>6. ChunkEnd = pos <=> pos = Len(disk.bytes)
  BY <1>1 DEF ChunkEnd
<1>7. NextChunk = <<>> <=> Len(NextChunk) = 0
  BY <1>5, EmptySeq
<1>. QED
  BY <1>2, <1>3, <1>5, <1>6, <1>7

LEMMA InitDInv == Init => DInv
<1> SUFFICES ASSUME Init PROVE DInv
  OBVIOUS
<1>. QED
  BY InitTypeInv DEF DInv, DigestInv, Init

LEMMA NextDInv == DInv /\ [Next]_vars => DInv'
<1> SUFFICES ASSUME DInv, [Next]_vars, ~WriterActive' PROVE DigestInv'
  BY NextTypeInv DEF DInv, DigestInv
<1> USE DEF DInv, DigestInv
<1>1. ~WriterActive /\ wpc = "idle" /\ TypeOK
  BY DEF TypeInv
<1>2. CASE Stat
  BY <1>1, <1>2 DEF Stat
<1>3. CASE Parse
  BY <1>1, <1>3 DEF Parse
<1>4. CASE Read
  <2>1. pos \in 0..Len(disk.bytes) /\ disk.bytes \in Seq(Nat)
    BY <1>1, <1>4 DEF Read, TypeOK, FileType
  <2>2. CASE NextChunk # <<>>
    <3>1. pc = "read" /\ pc' = "read" /\ hasher = SubSeq(disk.bytes, 1, pos)
      BY <1>1, <1>4, <2>2 DEF Read
    <3>2. /\ ChunkEnd \in pos..Len(disk.bytes)
          /\ NextChunk = SubSeq(disk.bytes, pos + 1, ChunkEnd)
          /\ Len(NextChunk) = ChunkEnd - pos
      BY <1>1, <2>1, ChunkStep
    <3>3. hasher' = hasher \o NextChunk /\ pos' = pos + Len(NextChunk)
          /\ UNCHANGED <<disk, size, wpc>>
      BY <1>4, <2>2 DEF Read
    <3>4. SubSeq(disk.bytes, 1, pos) \o SubSeq(disk.bytes, pos + 1, ChunkEnd)
          = SubSeq(disk.bytes, 1, ChunkEnd)
      <4>1. /\ 1 \in 1..Len(disk.bytes) + 1 /\ pos \in 1 - 1..Len(disk.bytes)
            /\ ChunkEnd \in pos..Len(disk.bytes)
        BY <2>1, <3>2, LenProperties
      <4>. QED
        BY <2>1, <4>1, ConcatAdjacentSubSeq
    <3>5. /\ pos' = ChunkEnd /\ pos' <= Len(disk'.bytes)
          /\ hasher' = SubSeq(disk'.bytes, 1, pos')
      <4>1. pos' = ChunkEnd
        BY <2>1, <3>2, <3>3, LenProperties
      <4>2. disk' = disk
        BY <3>3
      <4>3. hasher' = SubSeq(disk.bytes, 1, ChunkEnd)
        BY <3>1, <3>2, <3>3, <3>4, Zenon
      <4>. QED
        BY <3>2, <4>1, <4>2, <4>3
    <3>. QED
      BY <1>1, <3>1, <3>3, <3>5
  <2>3. CASE NextChunk = <<>>
    <3>1. hasher = disk.bytes
      BY <1>1, <1>4, <2>1, <2>3, ChunkStep, SubSeqFull DEF Read
    <3>. QED
      BY <1>1, <1>4, <2>3, <3>1 DEF Read
  <2>. QED
    BY <2>2, <2>3
<1>5. CASE WriterOpen
  BY <1>1, <1>5 DEF WriterOpen
<1>6. CASE WriterDump
  BY <1>1, <1>6 DEF WriterDump
<1>7. CASE Finished \/ UNCHANGED vars
  BY <1>1, <1>7 DEF Finished, vars
<1>. QED
  BY <1>2, <1>3, <1>4, <1>5, <1>6, <1>7 DEF Next, Procedure

(***************************************************************************)
(* When no fixture writer runs on the snapshot, every manifest             *)
(* generate_manifest prints carries the sha256 of the whole file and its   *)
(* size, whatever the chunk size of compute_sha256 (lines 32-41, 121).     *)
(***************************************************************************)
THEOREM DigestCorrect ==
  ASSUME ~WriterActive
  PROVE  Spec => []DigestMatchesFile
<1>1. Spec => []DInv
  BY InitDInv, NextDInv, PTL DEF Spec
<1>2. DInv => DigestMatchesFile
  BY DEF DInv, DigestInv, DigestMatchesFile
<1>. QED
  BY <1>1, <1>2, PTL
-----------------------------------------------------------------------------
(***************************************************************************)
(* The header.  parse_cbor_header returns a dict exactly on the files the *)
(* spec calls readable, and the fields generate_manifest selects from it  *)
(* are the header's; on every other file the fallback path leaves         *)
(* governance_section_present FALSE.                                       *)
(***************************************************************************)

\* `(x or 0) > 0` is TRUE exactly on a positive int.
LEMMA CountPositiveVal ==
  ASSUME NEW x \in PyVal
  PROVE  CountPositive(x).val <=> x.t = "int" /\ x.v > 0
<1>1. CASE x = None
  <2>1. x.t = "none" /\ ~Truthy(x)
    BY <1>1, Zenon DEF Truthy, None
  <2>. QED
    BY <2>1 DEF CountPositive
<1>2. CASE x \in PyInts
  <2>1. x.t = "int" /\ x.v \in Int
    BY <1>2 DEF PyInts
  <2>2. Truthy(x) <=> x.v # 0
    BY <2>1, Zenon DEF Truthy
  <2>3. CountPositive(x).val <=> Truthy(x) /\ x.t = "int" /\ x.v > 0
    BY Zenon DEF CountPositive
  <2>4. x.v > 0 => x.v # 0
    BY <2>1
  <2>. QED
    BY <2>1, <2>2, <2>3, <2>4, Zenon
<1>3. CASE x \in PyStrs \/ x \in [t: {"bytes"}, v: Seq(0..255)]
  <2>1. x.t # "int"
    BY <1>3 DEF PyStrs
  <2>. QED
    BY <2>1 DEF CountPositive
<1>. QED
  BY <1>1, <1>2, <1>3 DEF PyVal

\* Line 83 on a header that does not raise: the flag is set exactly when
\* one of the two counts is a positive int.
LEMMA GovernanceFlag ==
  ASSUME NEW h \in [HeaderKeys -> PyVal], ~GovernancePresent(h).crash
  PROVE  GovernancePresent(h).val <=> \E k \in {4, 5} : h[k].t = "int" /\ h[k].v > 0
<1>1. h[4] \in PyVal /\ h[5] \in PyVal
  BY DEF HeaderKeys
<1>2. /\ CountPositive(h[4]).val <=> h[4].t = "int" /\ h[4].v > 0
      /\ CountPositive(h[5]).val <=> h[5].t = "int" /\ h[5].v > 0
  BY <1>1, CountPositiveVal
<1>3. CASE CountPositive(h[4]).val \/ CountPositive(h[4]).crash
  BY <1>2, <1>3 DEF GovernancePresent
<1>4. CASE ~(CountPositive(h[4]).val \/ CountPositive(h[4]).crash)
  BY <1>2, <1>4 DEF GovernancePresent
<1>. QED
  BY <1>3, <1>4

LEMMA HeaderFields ==
  ASSUME NEW c \in FileType,
         NEW a \in [name: Names, era: EraOpts, hash: HashOpts,
                    height: HeightOpts, chunk: ChunkSizes],
         parse_cbor_header(c, Len(c.bytes)) # Crash
  PROVE  LET f == SelectFields(parse_cbor_header(c, Len(c.bytes)), a)
         IN  IF HeaderReadable(c)
             THEN /\ f.era = c.hdr[0]
                  /\ f.block_height = c.hdr[1]
                  /\ f.block_hash = PyStr(Hex(c.hdr[2].v))
                  /\ f.governance_section_present = GovernanceDeclared(c)
             ELSE ~f.governance_section_present
<1> DEFINE h == parse_cbor_header(c, Len(c.bytes))
           ok == [kind |-> "ok", version |-> c.version, era |-> c.hdr[0],
                  block_height |-> c.hdr[1], block_hash |-> PyStr(Hex(c.hdr[2].v)),
                  governance_section_present |-> GovernancePresent(c.hdr).val]
<1> DEFINE g1 == Len(c.bytes) > Ceiling \/ ~c.exists \/ ~c.loads
           g2 == ~c.isList \/ c.len < 2 \/ ~c.isMap
           g3 == ~Truthy(c.hdr[0]) \/ c.hdr[1].t = "none" \/ ~Truthy(c.hdr[2])
<1>0. HeaderReadable(c) <=> ~g1 /\ ~g2 /\ ~g3
  BY CeilingAssumption, LenProperties DEF HeaderReadable, FileType
<1>1. CASE HeaderReadable(c)
  <2>0. ~g1 /\ ~g2 /\ ~g3
    BY <1>0, <1>1
  <2>1. h = IF c.hdr[2].t # "bytes" \/ GovernancePresent(c.hdr).crash
            THEN Crash ELSE ok
    BY <2>0, Zenon DEF parse_cbor_header
  <2>2. ok # Crash
    BY DEF Crash
  <2>3. h = ok
    BY <2>1, <2>2
  <2>4. c.hdr[2].t = "bytes" /\ ~GovernancePresent(c.hdr).crash
    BY <2>1, <2>3
  <2>5. GovernancePresent(c.hdr).val <=> GovernanceDeclared(c)
    BY <2>4, GovernanceFlag DEF FileType, GovernanceDeclared
  <2>6. GovernancePresent(c.hdr).val \in BOOLEAN
    BY DEF GovernancePresent, CountPositive
  <2>7. SelectFields(h, a) = [era |-> c.hdr[0], block_height |-> c.hdr[1],
                              block_hash |-> PyStr(Hex(c.hdr[2].v)),
                              governance_section_present |-> GovernancePresent(c.hdr).val]
    BY <2>3 DEF SelectFields
  <2>8. GovernanceDeclared(c) \in BOOLEAN
    BY DEF GovernanceDeclared
  <2>. QED
    BY <1>1, <2>5, <2>6, <2>7, <2>8
<1>2. CASE ~HeaderReadable(c)
  <2>0. g1 \/ g2 \/ g3
    BY <1>0, <1>2
  <2>1. h = NoHeader \/ h = Crash
    BY <2>0, Zenon DEF parse_cbor_header
  <2>2. h = NoHeader
    BY <2>1
  <2>3. ~SelectFields(h, a).governance_section_present
    BY <2>2 DEF SelectFields, NoHeader
  <2>. QED
    BY <1>2, <2>3
<1>. QED
  BY <1>1, <1>2

(***************************************************************************)
(* With no writer, the file never changes, so the header parse_cbor_header *)
(* returned is still the parse of the file on disk when the manifest is   *)
(* printed, and the manifest carries the fields selected from it.         *)
(***************************************************************************)
HeaderInv ==
  ~WriterActive =>
    /\ pc \in {"read", "done"} =>
         /\ header = parse_cbor_header(disk, size)
         /\ header # Crash
         /\ fields = SelectFields(header, args)
    /\ pc = "done" =>
         /\ manifest.era = fields.era
         /\ manifest.block_height = fields.block_height
         /\ manifest.block_hash = fields.block_hash
         /\ manifest.governance_section_present = fields.governance_section_present

HInv == DInv /\ HeaderInv

LEMMA InitHInv == Init => HInv
<1> SUFFICES ASSUME Init PROVE HInv
  OBVIOUS
<1>. QED
  BY InitDInv DEF HInv, HeaderInv, Init

LEMMA NextHInv == HInv /\ [Next]_vars => HInv'
<1> SUFFICES ASSUME HInv, [Next]_vars, ~WriterActive' PROVE HeaderInv'
  BY NextDInv DEF HInv, HeaderInv
<1> USE DEF HInv, HeaderInv
<1>1. ~WriterActive /\ wpc = "idle" /\ TypeOK
  BY DEF DInv, DigestInv, TypeInv
<1>2. CASE Stat
  BY <1>2 DEF Stat
<1>3. CASE Parse
  <2> DEFINE h == parse_cbor_header(disk, size)
  <2>1. h \in HeaderType
    BY <1>1, ParseType DEF TypeOK
  <2>2. h.kind = "crash" <=> h = Crash
    BY <2>1 DEF HeaderType, NoHeader, Crash
  <2>. QED
    BY <1>3, <2>2 DEF Parse
<1>4. CASE Read
  <2>1. CASE NextChunk # <<>>
    BY <1>4, <2>1 DEF Read
  <2>2. CASE NextChunk = <<>>
    BY <1>4, <2>2 DEF Read
  <2>. QED
    BY <2>1, <2>2
<1>5. CASE WriterOpen \/ WriterDump
  BY <1>1, <1>5 DEF WriterOpen, WriterDump
<1>6. CASE Finished \/ UNCHANGED vars
  BY <1>6 DEF Finished, vars
<1>. QED
  BY <1>2, <1>3, <1>4, <1>5, <1>6 DEF Next, Procedure

(***************************************************************************)
(* When no fixture writer runs on the snapshot, every manifest             *)
(* generate_manifest prints takes its era, height and hash from the file's *)
(* header whenever the header is readable, whatever the file name and the *)
(* flags (generate_manifest lines 123-137), and governance_section_present *)
(* is set exactly when the header declares governance actions or          *)
(* parameter sets (parse_cbor_header line 83).                             *)
(***************************************************************************)
THEOREM HeaderCorrect ==
  ASSUME ~WriterActive
  PROVE  Spec => []ManifestFromHeader
<1>1. Spec => []HInv
  BY InitHInv, NextHInv, PTL DEF Spec
<1>2. HInv => ManifestFromHeader
  <2> SUFFICES ASSUME HInv, pc = "done"
               PROVE  ManifestFromHeader
    BY DEF ManifestFromHeader
  <2>1. disk \in FileType /\ size = Len(disk.bytes)
        /\ args \in [name: Names, era: EraOpts, hash: HashOpts,
                     height: HeightOpts, chunk: ChunkSizes]
    BY DEF HInv, DInv, TypeInv, TypeOK, DigestInv
  <2>2. header = parse_cbor_header(disk, Len(disk.bytes)) /\ header # Crash
        /\ fields = SelectFields(header, args)
    BY <2>1 DEF HInv, HeaderInv
  <2>3. LET f == SelectFields(parse_cbor_header(disk, Len(disk.bytes)), args)
        IN  IF HeaderReadable(disk)
            THEN /\ f.era = disk.hdr[0]
                 /\ f.block_height = disk.hdr[1]
                 /\ f.block_hash = PyStr(Hex(disk.hdr[2].v))
                 /\ f.governance_section_present = GovernanceDeclared(disk)
            ELSE ~f.governance_section_present
    BY <2>1, <2>2, HeaderFields
  <2>. QED
    BY <2>2, <2>3 DEF HInv, HeaderInv, ManifestFromHeader
<1>. QED
  BY <1>1, <1>2, PTL
====
