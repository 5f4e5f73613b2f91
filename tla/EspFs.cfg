SPECIFICATION Spec
CONSTANTS
    Lines <- MCLines
    Urls <- MCUrls
    gzipExtensions <- MCExtensions
    Contents <- MCContents
    compressGzip <- MCCompressGzip
    HDR = 4
    Addresses = {4, 6}
    Handles = {h1, h2}
    Lens = {1, 4}
    NULL = NULL
    MaxFiles = 3
INVARIANTS
    TypeOK
PROPERTIES
    ImplementsStore
    OpenEnds
