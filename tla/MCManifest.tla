---------------------------- MODULE MCManifest ----------------------------
(***************************************************************************)
(* Small instance of Manifest.  The files are the fixtures that            *)
(* generate_cbor_fixtures.py writes, shortened to a few bytes, and the     *)
(* malformed files parse_cbor_header has a branch for.  The ceiling is     *)
(* three bytes, so one four-byte file takes the size fallback and a        *)
(* three-byte one sits on the boundary; chunk sizes 1 and 3 make the hash  *)
(* loop read several chunks, and one that straddles the end of a file.     *)
(***************************************************************************)
EXTENDS Manifest

\* The characters of the model's strings.
MCChars ==
  {"0","1","2","3","4","5","6","7","8","9","a","b","c","d","e","f",
   "A","B","C","D","E","F","O","R","Z","o","r","z","u","n","k","w","y",
   "g","j","s"}

\* b'\x11\x22\x33\x44' + b'\xAA' * 28, shortened to two bytes
FixtureHash == PyBytes(<<17, 170>>)

\* The header map of the fixtures: era, height, hash and the three counts.
FixtureHeader(era, utxos, govs, params) ==
  [k \in HeaderKeys |->
     CASE k = 0 -> PyStr(era)
       [] k = 1 -> PyInt(1000000)
       [] k = 2 -> FixtureHash
       [] k = 3 -> PyInt(utxos)
       [] k = 4 -> PyInt(govs)
       [] OTHER -> PyInt(params)]

SmallValid   == Envelope(<<0, 1, 1>>, PyInt(1), FixtureHeader(Conway, 2, 3, 1))
MissingEnd   == Envelope(<<1>>, PyInt(1), FixtureHeader(Conway, 1, 0, 0))
ParamsOnly   == Envelope(<<1, 1>>, PyInt(1), FixtureHeader(Conway, 0, 0, 1))
WrongEra     == Envelope(<<1, 0>>, PyInt(1), FixtureHeader(<<"b","y","r","o","n">>, 0, 0, 0))
Large        == Envelope(<<0, 0, 1, 1>>, PyInt(1), FixtureHeader(Conway, 2, 3, 1))
NotCbor      == Unparsable(<<0, 0>>)
EmptyFile    == Unparsable(<<>>)
HashAsText   == Envelope(<<0, 1>>, PyInt(1),
                  [FixtureHeader(Conway, 1, 0, 0) EXCEPT ![2] = PyStr(<<"a","a">>)])
Version2     == Envelope(<<0>>, PyInt(2), FixtureHeader(Conway, 1, 0, 0))
NoHeaderMap  == [Envelope(<<1, 0, 0>>, PyInt(1), FixtureHeader(Conway, 1, 0, 0))
                   EXCEPT !.isMap = FALSE]

MCContents == {SmallValid, MissingEnd, ParamsOnly, WrongEra, Large, NotCbor,
               HashAsText, Version2, NoHeaderMap, EmptyFile, Absent}

\* 1000000.Aa.cbor, snapshot-small.cbor, -5.ab.cbor, 7.zZ.CBOR, 0.ab.cbor, 7.ab.json
MCNames ==
  { [nparts |-> 3, slot |-> PyInt(1000000), hash |-> <<"A","a">>, ext |-> Cbor],
    [nparts |-> 2, slot |-> None, hash |-> <<>>, ext |-> Cbor],
    [nparts |-> 3, slot |-> PyInt(-5), hash |-> <<"a","b">>, ext |-> Cbor],
    [nparts |-> 3, slot |-> PyInt(7), hash |-> <<"z","Z">>, ext |-> <<"C","B","O","R">>],
    [nparts |-> 3, slot |-> PyInt(0), hash |-> <<"a","b">>, ext |-> Cbor],
    [nparts |-> 3, slot |-> PyInt(7), hash |-> <<"a","b">>, ext |-> <<"j","s","o","n">>] }

MCEraOpts == {None, PyStr(<<"b","a","b","b","a","g","e">>), PyStr(<<>>)}
MCHashOpts == {None, PyStr(<<"A","b">>), PyStr(<<"z">>), PyStr(<<>>)}
MCHeightOpts == {None, PyInt(0), PyInt(42)}

\* For the runs with the fixture writer: one file name and no flags, so that
\* the state space is spent on the interleavings of reader and writer.
MCWriterNames == {[nparts |-> 3, slot |-> PyInt(1000000), hash |-> <<"A","a">>, ext |-> Cbor]}
MCNoFlag == {None}
=============================================================================
