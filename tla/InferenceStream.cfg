\* One stream from a remote client, beside an unstreamed generation, which need never
\* end, and the preload; up to two chunks and the output through a queue of two.
SPECIFICATION RemoteSpec
CONSTANTS
  Streams = {s1}
  Calls = {g1}
  Preloader = Preloader
  Nobody = Nobody
  MaxItems = 2
  Size = 2
INVARIANTS OneModel StreamedInFull ClosedMeansClean RemoteIsWhole
PROPERTIES EveryStreamCloses CancelReachesTheModel
