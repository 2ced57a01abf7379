\* Uploads, a watched file and a deletion meet; the server dies once.
CONSTANTS
  Contents = {whole, part}
  Partial = part
  Corpus = {whole}
  Uploads = {u}
  watcher = watcher
  Files = {f}
  NoContent = NoContent
  NoFile = NoFile
  MaxVersions = 3
  MaxUploads = 1
  MaxDeletes = 1
  MaxCrashes = 1
  MaxFails = 1
SPECIFICATION Spec
INVARIANTS
  FileKept
  VisibleToSomebody
PROPERTIES
  EveryDropReported
\* The folder is still, and nobody sends anything.
CHECK_DEADLOCK FALSE
