CONSTANTS
  Ceiling = 3
  ChunkSizes = {1, 3}
  Chars <- MCChars
  Contents <- MCContents
  Names <- MCWriterNames
  EraOpts <- MCNoFlag
  HashOpts <- MCNoFlag
  HeightOpts <- MCNoFlag
  WriterActive = TRUE
SPECIFICATION Spec
PROPERTIES Terminates
