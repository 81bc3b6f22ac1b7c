------------------------------ MODULE Manifest ------------------------------
(***************************************************************************)
(* generate_manifest(snapshot_path, era_opt, block_hash_opt,               *)
(* block_height_opt) of scripts/generate_manifest.py, step by step at its  *)
(* I/O points: the stat of the file, the header parse (one cbor2.load of   *)
(* the whole file) followed by the choice between header and fallback      *)
(* metadata, the streaming SHA-256 loop (one action per f.read(chunk)),    *)
(* and the assembly of the manifest.                                       *)
(*                                                                         *)
(* The file on disk may be rewritten in place while the procedure runs by  *)
(* write_cbor_fixture of scripts/generate_cbor_fixtures.py: open(path,     *)
(* 'wb') truncates it, cbor2.dump then appends its bytes.                  *)
(*                                                                         *)
(* Python values are tagged records (None, PyInt, ...): the code is duck-typed    *)
(* and its behaviour depends on the type a CBOR value decodes to.  A       *)
(* Python str is a sequence of one-character strings, so that .lower(),    *)
(* .hex() and the hex-digit test are modelled by what they do.  SHA-256 is *)
(* modelled as collision-free: the hasher state is the byte sequence it    *)
(* has absorbed.  created_at, magic and the format version are constants  *)
(* of the output and are left out.                                         *)
(***************************************************************************)
EXTENDS Integers, Sequences, SequencesExt

CONSTANTS
  Ceiling,       \* the 64 MiB parse ceiling, in the model's byte units
  ChunkSizes,    \* chunk_size arguments of compute_sha256 (16 MiB by default)
  Chars,         \* the characters of the model's strings
  Contents,      \* the files the snapshot path may hold (see Absent)
  Names,         \* the file names (see derive_from_filename)
  EraOpts,       \* values of --era
  HashOpts,      \* values of --block-hash
  HeightOpts,    \* values of --block-height
  WriterActive   \* TRUE when the fixture writer rewrites the file meanwhile

ASSUME CeilingAssumption == Ceiling \in Nat
ASSUME ChunkAssumption == ChunkSizes \subseteq Nat \ {0}
ASSUME WriterAssumption == WriterActive \in BOOLEAN

(***************************************************************************)
(* Python values.                                                          *)
(***************************************************************************)
None == [t |-> "none"]
PyInt(n) == [t |-> "int", v |-> n]
PyStr(s) == [t |-> "str", v |-> s]
PyBytes(b) == [t |-> "bytes", v |-> b]

\* Python truthiness, as used by `not x` and `x or y`.
Truthy(x) ==
  CASE x.t = "int"   -> x.v # 0
    [] x.t = "str"   -> x.v # <<>>
    [] x.t = "bytes" -> x.v # <<>>
    [] OTHER         -> FALSE

\* `a or b`: a when a is truthy, else b.
PyOr(a, b) == IF Truthy(a) THEN a ELSE b

HexDigit == <<"0","1","2","3","4","5","6","7","8","9","a","b","c","d","e","f">>
UpperHex == <<"A","B","C","D","E","F">>
HexChars == Range(HexDigit) \cup Range(UpperHex)

\* str.lower() on the model's alphabet, whose upper-case letters are A-F, O,
\* R and Z.
LowerChar(c) ==
  CASE c = "A" -> "a" [] c = "B" -> "b" [] c = "C" -> "c" [] c = "D" -> "d"
    [] c = "E" -> "e" [] c = "F" -> "f" [] c = "O" -> "o" [] c = "R" -> "r"
    [] c = "Z" -> "z" [] OTHER -> c
Lower(s) == [i \in DOMAIN s |-> LowerChar(s[i])]

\* bytes.hex(): two lower-case hex digits per byte, high nibble first.
Hex(b) ==
  [i \in 1..(2 * Len(b)) |->
     LET byte == b[(i + 1) \div 2]
     IN  IF i % 2 = 1 THEN HexDigit[(byte \div 16) + 1] ELSE HexDigit[(byte % 16) + 1]]

Unknown == <<"u","n","k","n","o","w","n">>
Conway == <<"c","o","n","w","a","y">>
Cbor == <<"c","b","o","r">>

(***************************************************************************)
(* A file: its bytes, and what cbor2.load returns for them.  `loads` is    *)
(* FALSE when cbor2.load raises (not CBOR, or a truncated write).  A       *)
(* top-level value that loads is described by whether it is a list, its    *)
(* length, data[0], whether data[1] is a dict, and header.get(k) for the   *)
(* keys 0..5 (None when the key is absent).                                *)
(***************************************************************************)
HeaderKeys == 0..5
Unparsable(b) ==
  [exists |-> TRUE, bytes |-> b, loads |-> FALSE, isList |-> FALSE, len |-> 0,
   version |-> None, isMap |-> FALSE, hdr |-> [k \in HeaderKeys |-> None]]
Envelope(b, version, hdr) ==
  [exists |-> TRUE, bytes |-> b, loads |-> TRUE, isList |-> TRUE, len |-> 3,
   version |-> version, isMap |-> TRUE, hdr |-> hdr]
Absent == [Unparsable(<<>>) EXCEPT !.exists = FALSE]
\* The first n bytes of c, as a partial write leaves the file.
Truncated(c, n) == Unparsable(SubSeq(c.bytes, 1, n))

(***************************************************************************)
(* The types of the constants: a str is a sequence of characters, bytes a  *)
(* sequence of octets, --block-height is parsed with type=int.             *)
(***************************************************************************)
PyInts == [t: {"int"}, v: Int]
PyStrs == [t: {"str"}, v: Seq(Chars)]
PyVal == {None} \cup PyInts \cup PyStrs \cup [t: {"bytes"}, v: Seq(0..255)]
FileType ==
  [exists: BOOLEAN, bytes: Seq(Nat), loads: BOOLEAN, isList: BOOLEAN, len: Nat,
   version: PyVal, isMap: BOOLEAN, hdr: [HeaderKeys -> PyVal]]
NameType == [nparts: Nat, slot: {None} \cup PyInts, hash: Seq(Chars), ext: Seq(Chars)]

ASSUME CharsAssumption ==
  {"0","1","2","3","4","5","6","7","8","9","a","b","c","d","e","f",
   "A","B","C","D","E","F","O","R","Z","o","r","z","u","n","k","w","y"} \subseteq Chars
ASSUME ContentsAssumption == Contents \subseteq FileType
ASSUME NamesAssumption == Names \subseteq NameType
ASSUME FlagsAssumption ==
  /\ EraOpts \subseteq {None} \cup PyStrs
  /\ HashOpts \subseteq {None} \cup PyStrs
  /\ HeightOpts \subseteq {None} \cup PyInts

\* A file name <p0>.<p1>....<ext>: the number of dot-separated parts, what
\* int(parts[0]) returns (None: it raises), parts[1], and parts[-1].
\* derive_from_filename, lines 94-107.
derive_from_filename(n) ==
  IF /\ n.nparts >= 3
     /\ Lower(n.ext) = Cbor
     /\ n.slot.t = "int"
     /\ \A i \in DOMAIN n.hash : n.hash[i] \in HexChars
  THEN <<n.slot, PyStr(Lower(n.hash))>>
  ELSE <<None, None>>

\* `(x or 0) > 0`: its value, or a TypeError (crash) when x is truthy and
\* not an int.
CountPositive(x) ==
  [crash |-> Truthy(x) /\ x.t # "int",
   val   |-> Truthy(x) /\ x.t = "int" /\ x.v > 0]

\* Line 83, with the short circuit of the outer `or`.
GovernancePresent(h) ==
  LET g == CountPositive(h[4])
  IN  IF g.val \/ g.crash THEN g ELSE CountPositive(h[5])

NoHeader == [kind |-> "none"]
Crash == [kind |-> "crash"]

\* Mutant: the ceiling test of line 51 written `>=`.
parse_cbor_header_ceiling_ge(c, sz) ==
  IF sz >= Ceiling \/ ~c.exists \/ ~c.loads THEN NoHeader
  ELSE IF ~c.isList \/ c.len < 2 \/ ~c.isMap THEN NoHeader
  ELSE LET h == c.hdr
           gov == GovernancePresent(h)
       IN  IF ~Truthy(h[0]) \/ h[1].t = "none" \/ ~Truthy(h[2]) THEN NoHeader
           ELSE IF h[2].t # "bytes" \/ gov.crash THEN Crash
           ELSE [kind |-> "ok", version |-> c.version, era |-> h[0],
                 block_height |-> h[1], block_hash |-> PyStr(Hex(h[2].v)),
                 governance_section_present |-> gov.val]

\* parse_cbor_header(file_path, size_bytes), lines 44-91, on the file as it
\* is when cbor2.load reads it and the size stat() returned earlier.
\* Returns NoHeader (None), Crash (an exception escapes), or the header dict.
parse_cbor_header(c, sz) ==
  IF sz > Ceiling \/ ~c.exists \/ ~c.loads THEN NoHeader
  ELSE IF ~c.isList \/ c.len < 2 \/ ~c.isMap THEN NoHeader
  ELSE LET h == c.hdr
           gov == GovernancePresent(h)
       IN  IF ~Truthy(h[0]) \/ h[1].t = "none" \/ ~Truthy(h[2]) THEN NoHeader
           ELSE IF h[2].t # "bytes" \/ gov.crash THEN Crash
           ELSE [kind |-> "ok", version |-> c.version, era |-> h[0],
                 block_height |-> h[1], block_hash |-> PyStr(Hex(h[2].v)),
                 governance_section_present |-> gov.val]

\* The metadata chosen by generate_manifest, lines 127-137.
SelectFields(hdr, args) ==
  IF hdr.kind = "none"
  THEN LET fn == derive_from_filename(args.name)
       IN  [era |-> PyOr(args.era, PyStr(Conway)),
            block_height |-> PyOr(args.height, PyOr(fn[1], PyInt(1))),
            block_hash |-> PyStr(Lower(PyOr(args.hash, PyOr(fn[2], PyStr(Unknown))).v)),
            governance_section_present |-> FALSE]
  ELSE [era |-> hdr.era, block_height |-> hdr.block_height,
        block_hash |-> hdr.block_hash,
        governance_section_present |-> hdr.governance_section_present]

VARIABLES
  args,      \* the call's arguments: name, era, hash, height, chunk size
  disk,      \* the file at snapshot_path
  pc,        \* "stat", "parse", "read", "done", "error"
  size,      \* size_bytes, from stat()
  header,    \* the result of parse_cbor_header
  fields,    \* era, block_height, block_hash, governance_section_present
  hasher,    \* the bytes hasher.update has absorbed
  pos,       \* the file offset of the reader in compute_sha256
  manifest,  \* the returned dict, once built
  wpc,       \* the fixture writer: "idle", "writing", "done"
  wtarget    \* the file the writer is producing

vars == <<args, disk, pc, size, header, fields, hasher, pos, manifest, wpc, wtarget>>
procVars == <<pc, size, header, fields, hasher, pos, manifest>>

NoFields == [era |-> None, block_height |-> None, block_hash |-> None,
             governance_section_present |-> FALSE]

Init ==
  /\ args \in [name: Names, era: EraOpts, hash: HashOpts, height: HeightOpts,
              chunk: ChunkSizes]
  /\ disk \in Contents
  /\ pc = "stat"
  /\ size = 0
  /\ header = NoHeader
  /\ fields = NoFields
  /\ hasher = <<>>
  /\ pos = 0
  /\ manifest = None
  /\ wpc = "idle"
  /\ wtarget = Absent

\* Mutant: size_bytes taken one short.
Stat_off_by_one ==
  /\ pc = "stat"
  /\ IF disk.exists
     THEN pc' = "parse" /\ size' = Len(disk.bytes) - 1
     ELSE pc' = "error" /\ UNCHANGED size
  /\ UNCHANGED <<args, disk, header, fields, hasher, pos, manifest, wpc, wtarget>>

(***************************************************************************)
(* generate_manifest, lines 118-121: exists() then stat().  A missing file *)
(* raises FileNotFoundError, which main() reports before exiting 1.        *)
(***************************************************************************)
Stat ==
  /\ pc = "stat"
  /\ IF disk.exists
     THEN pc' = "parse" /\ size' = Len(disk.bytes)
     ELSE pc' = "error" /\ UNCHANGED size
  /\ UNCHANGED <<args, disk, header, fields, hasher, pos, manifest, wpc, wtarget>>

(***************************************************************************)
(* Lines 124-137: parse_cbor_header, which reads the whole file with one   *)
(* cbor2.load, then the header or fallback metadata; an exception from     *)
(* .hex() or from `> 0` on a non-int escapes to main().  Then line 140:    *)
(* compute_sha256 opens the file and starts reading at offset 0.           *)
(***************************************************************************)
Parse ==
  /\ pc = "parse"
  /\ LET h == parse_cbor_header(disk, size)
     IN  /\ header' = h
         /\ IF h.kind = "crash"
            THEN pc' = "error" /\ UNCHANGED fields
            ELSE pc' = "read" /\ fields' = SelectFields(h, args)
  /\ UNCHANGED <<args, disk, size, hasher, pos, manifest, wpc, wtarget>>

\* Mutant: a short chunk taken for the end of the file and dropped
\* (`if len(chunk) < chunk_size: break` before hasher.update).
NextChunk_drop_short ==
  LET last == IF pos + args.chunk > Len(disk.bytes) THEN Len(disk.bytes)
              ELSE pos + args.chunk
  IN  IF last - pos < args.chunk THEN <<>> ELSE SubSeq(disk.bytes, pos + 1, last)

\* f.read(chunk_size) at the reader's offset, on the file as it is now.
NextChunk ==
  LET last == IF pos + args.chunk > Len(disk.bytes) THEN Len(disk.bytes)
              ELSE pos + args.chunk
  IN  SubSeq(disk.bytes, pos + 1, last)

\* Mutant: the loop ends on `chunk is None`, which f.read never returns.
Read_none_check ==
  /\ pc = "read"
  /\ LET chunk == NextChunk
     IN  IF chunk # <<>>
         THEN /\ hasher' = hasher \o chunk
              /\ pos' = pos + Len(chunk)
              /\ UNCHANGED <<pc, manifest>>
         ELSE UNCHANGED <<pc, manifest, hasher, pos>>
  /\ UNCHANGED <<args, disk, size, header, fields, wpc, wtarget>>

(***************************************************************************)
(* compute_sha256, lines 35-41, one loop iteration per step: a non-empty   *)
(* chunk is folded into the hasher; an empty one ends the loop, and the    *)
(* digest is put in the manifest with the chosen fields (lines 143-155).   *)
(***************************************************************************)
Read ==
  /\ pc = "read"
  /\ LET chunk == NextChunk
     IN  IF chunk # <<>>
         THEN /\ hasher' = hasher \o chunk
              /\ pos' = pos + Len(chunk)
              /\ UNCHANGED <<pc, manifest>>
         ELSE /\ manifest' = [era |-> fields.era,
                                block_height |-> fields.block_height,
                                block_hash |-> fields.block_hash,
                                sha256 |-> hasher,
                                size_bytes |-> size,
                                governance_section_present |->
                                    fields.governance_section_present]
              /\ pc' = "done"
              /\ UNCHANGED <<hasher, pos>>
  /\ UNCHANGED <<args, disk, size, header, fields, wpc, wtarget>>

(***************************************************************************)
(* write_cbor_fixture(path, data) of generate_cbor_fixtures.py, lines      *)
(* 11-16, run on the snapshot path while generate_manifest reads it:       *)
(* open(path, 'wb') truncates the file in place, then cbor2.dump appends   *)
(* the encoding (one byte per step: the buffered writer may flush at any   *)
(* point).  A partly written file does not load as CBOR.                   *)
(***************************************************************************)
WriterOpen ==
  /\ WriterActive
  /\ wpc = "idle"
  /\ \E c \in Contents :
       /\ c.exists /\ c.bytes # <<>>
       /\ wtarget' = c
       /\ disk' = Truncated(c, 0)
  /\ wpc' = "writing"
  /\ UNCHANGED <<args, procVars>>

WriterDump ==
  /\ wpc = "writing"
  /\ LET n == Len(disk.bytes) + 1
     IN  IF n = Len(wtarget.bytes)
         THEN disk' = wtarget /\ wpc' = "done"
         ELSE disk' = Truncated(wtarget, n) /\ UNCHANGED wpc
  /\ UNCHANGED <<args, wtarget, procVars>>

\* main() has returned (printed the manifest or the error); the writer is
\* finished or never started.
Finished ==
  /\ pc \in {"done", "error"}
  /\ wpc # "writing"
  /\ UNCHANGED vars

Procedure == Stat \/ Parse \/ Read

Next == Procedure \/ WriterOpen \/ WriterDump \/ Finished

\* The call runs to completion: nothing in it waits on anything but the
\* reads of a local file.  The writer, once it has opened the file, finishes.
Spec == Init /\ [][Next]_vars /\ WF_vars(Procedure) /\ WF_vars(WriterDump)

-----------------------------------------------------------------------------
(***************************************************************************)
(* Properties.                                                             *)
(***************************************************************************)
HeaderType ==
  {NoHeader, Crash} \cup
  [kind: {"ok"}, version: PyVal, era: PyVal, block_height: PyVal,
   block_hash: PyStrs, governance_section_present: BOOLEAN]
FieldsType ==
  [era: PyVal, block_height: PyVal, block_hash: PyVal,
   governance_section_present: BOOLEAN]
ManifestType ==
  [era: PyVal, block_height: PyVal, block_hash: PyVal, sha256: Seq(Nat),
   size_bytes: Nat, governance_section_present: BOOLEAN]

\* Every variable holds a value of its type; a finished call holds a manifest.
TypeOK ==
  /\ args \in [name: Names, era: EraOpts, hash: HashOpts, height: HeightOpts,
               chunk: ChunkSizes]
  /\ disk \in FileType
  /\ wtarget \in FileType
  /\ pc \in {"stat", "parse", "read", "done", "error"}
  /\ wpc \in {"idle", "writing", "done"}
  /\ size \in Nat
  /\ pos \in Nat
  /\ hasher \in Seq(Nat)
  /\ header \in HeaderType
  /\ fields \in FieldsType
  /\ pc = "done" => manifest \in ManifestType

\* The file's header as the spec reads it (section 4.5, step 1): the file is
\* within the ceiling, decodes to a list of at least two elements whose
\* second is a map carrying an era, a block height and a block hash.
HeaderReadable(c) ==
  /\ c.exists /\ Len(c.bytes) <= Ceiling
  /\ c.loads /\ c.isList /\ c.len >= 2 /\ c.isMap
  /\ Truthy(c.hdr[0]) /\ c.hdr[1].t # "none" /\ Truthy(c.hdr[2])

\* The header declares governance actions or parameter sets.
GovernanceDeclared(c) == \E k \in {4, 5} : c.hdr[k].t = "int" /\ c.hdr[k].v > 0

(***************************************************************************)
(* The manifest's identity comes from the file's header whenever that      *)
(* header is readable, over any file name and command-line flags, and      *)
(* governance_section_present is TRUE only when the header declares        *)
(* governance actions or parameter sets (generate_manifest lines 123-137,  *)
(* parse_cbor_header's ceiling test and line 83).                          *)
(***************************************************************************)
ManifestFromHeader ==
  pc = "done" =>
    IF HeaderReadable(disk)
    THEN /\ manifest.era = disk.hdr[0]
         /\ manifest.block_height = disk.hdr[1]
         /\ manifest.block_hash = PyStr(Hex(disk.hdr[2].v))
         /\ manifest.governance_section_present = GovernanceDeclared(disk)
    ELSE ~manifest.governance_section_present

(***************************************************************************)
(* The manifest's sha256 is the digest of the whole file and size_bytes    *)
(* its length, whatever the chunk size compute_sha256 reads with (the      *)
(* read loop of lines 35-41 against the stat() of line 121).               *)
(***************************************************************************)
DigestMatchesFile ==
  pc = "done" =>
    /\ manifest.sha256 = disk.bytes
    /\ manifest.size_bytes = Len(disk.bytes)

(***************************************************************************)
(* Section 4.5, step 2 of the spec: on the fallback path the caller's      *)
(* overrides always win over the file name and the defaults, so a given   *)
(* --era, --block-hash or --block-height is what the manifest carries     *)
(* (the `or` chains of generate_manifest, lines 129-131).                 *)
(***************************************************************************)
OverridesWin ==
  pc = "done" /\ header = NoHeader =>
    /\ args.era # None => manifest.era = args.era
    /\ args.hash # None => manifest.block_hash = PyStr(Lower(args.hash.v))
    /\ args.height # None => manifest.block_height = args.height

(***************************************************************************)
(* Every call returns: it prints a manifest or an error (the read loop of  *)
(* compute_sha256 reaches the end of the file).                            *)
(***************************************************************************)
Terminates == <>(pc \in {"done", "error"})
=============================================================================
