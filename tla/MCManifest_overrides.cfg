CONSTANTS
  Ceiling = 3
  ChunkSizes = {1, 3}
  Chars <- MCChars
  Contents <- MCContents
  Names <- MCNames
  EraOpts <- MCEraOpts
  HashOpts <- MCHashOpts
  HeightOpts <- MCHeightOpts
  WriterActive = FALSE
SPECIFICATION Spec
INVARIANT OverridesWin
