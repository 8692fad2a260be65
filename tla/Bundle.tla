------------------------------- MODULE Bundle -------------------------------
(***************************************************************************)
(* The way of a module from the compiler into the VM: the compiler hashes  *)
(* its path (ModuleHash), atomixc bundle writes modules into one file      *)
(* (bin/bundle.ts, format/bundle.ts) or the file is run as it is, the      *)
(* loader reads it (core/loader.c), main looks up the entry point          *)
(* (debug/main.c), and import statements (transform.ts) look up modules    *)
(* by their hash (core.c). Lookups are those of Lookup.                    *)
(*                                                                         *)
(* A path is the sequence of its names below the root, which is also the   *)
(* working directory; a name is one byte. A hash is a pair <<low half,     *)
(* high half>>. The file is a sequence of cells: a header, or one unit of  *)
(* a section.                                                              *)
(***************************************************************************)
EXTENDS Lookup, SequencesExt

CONSTANTS
  HALF,              \* number of values of a half of a hash
  Hash(_),           \* hashString of hash.ts
  PREFIX,            \* what atomixc puts before a path, "@program"
  Inputs,            \* modules and entry point of an atomixc bundle, or one plain module
  Sources            \* what import statements name

Pairs == (0..(HALF - 1)) \X (0..(HALF - 1))
Bytes == 1..(HALF * HALF - 1)   \* no path holds a zero byte

ASSUME BundleAssumption ==
  /\ HALF \in Nat \ {0}
  /\ Hashes = 0..(HALF * HALF - 1)
  /\ PREFIX \in Seq(Bytes)
  /\ \A input \in Inputs :
       /\ input.files \in Seq([path : Seq(Bytes) \ {<<>>}, size : Nat \ {0}])
       /\ Len(input.files) \in 1..(COUNT - 1)
       /\ input.entry \in {0, Len(input.files)}   \* 0: no entry point; else the last file
       /\ input.bundled \/ Len(input.files) = 1
  /\ \A source \in Sources :
       /\ source.path \in Seq(Bytes) \ {<<>>}
       /\ source.from \in {".", "..", "bare"}

VARIABLES
  input,      \* the command line
  file,       \* the file that is written
  position,   \* where the loader reads
  sections,   \* the string table and data section of each loaded module
  requested,  \* the import that is looked up: the importing file and its source
  mode

bundleVars == <<input, file, position, sections, requested, mode>>

Faults == {"rejected", "Invalid magic number"}

-----------------------------------------------------------------------------
(* The hash of a module.                                                   *)

\* A path below the root, which replace takes away.
hashFilePath(path) == Hash(PREFIX \o path)

\* parseFile: what the compiler makes of a source file.
Compiled(f) == [hash |-> hashFilePath(f.path), size |-> f.size]

\* A relative source is joined to the base name of the importing file.
SourceHash(importer, source) ==
  CASE source.from = "bare" -> Hash(source.path)
    [] source.from = "."    -> hashFilePath(<<Last(importer.path)>> \o source.path)
    [] source.from = ".."   -> hashFilePath(source.path)

ASSUME HashAssumption ==
  \A in \in Inputs : \A i \in DOMAIN in.files :
    /\ hashFilePath(in.files[i].path) \in Pairs
    /\ \A source \in Sources : SourceHash(in.files[i], source) \in Pairs

-----------------------------------------------------------------------------
(* atomixc bundle.                                                         *)

\* buildBundle sorts by the first number of a hash, then by the second.
LowerHash(a, b) ==
  \/ a.hash[1] < b.hash[1]
  \/ a.hash[1] = b.hash[1] /\ a.hash[2] < b.hash[2]
buildBundle(files) ==
  CHOOSE b \in SetToSeqs(ToSet(files)) :
    \A i, j \in DOMAIN b : i < j => LowerHash(b[i], b[j])

\* writeU32 twice, read back by READ_U64 of the little-endian machine.
Written(hash64) == hash64[1] + HALF * hash64[2]

\* Mutant: the data section is counted from the start of the string table.
ModuleCellsShifted(m) ==
  <<[kind |-> "module", hash |-> Written(m.hash), table |-> 1, data |-> m.size]>>
  \o [i \in 1..m.size |-> [kind |-> "table", of |-> m.hash]]
  \o <<[kind |-> "data", of |-> m.hash]>>

\* ModuleFormat.writeTo: the header holds the offsets of both sections.
ModuleCells(m) ==
  <<[kind |-> "module", hash |-> Written(m.hash), table |-> 1, data |-> 1 + m.size]>>
  \o [i \in 1..m.size |-> [kind |-> "table", of |-> m.hash]]
  \o <<[kind |-> "data", of |-> m.hash]>>

\* Mutant: the entry point is written as importModule reads a hash.
BundleCellsSwapped(files, entryHash) ==
  <<[kind |-> "bundle", entry |-> entryHash[2] + HALF * entryHash[1],
     count |-> Len(files)]>>
  \o FlattenSeq([i \in DOMAIN files |-> ModuleCells(files[i])])

BundleCells(files, entryHash) ==
  <<[kind |-> "bundle", entry |-> Written(entryHash), count |-> Len(files)]>>
  \o FlattenSeq([i \in DOMAIN files |-> ModuleCells(files[i])])

EntryHash(in) == IF in.entry = 0 THEN <<0, 0>> ELSE hashFilePath(in.files[in.entry].path)

bundle ==
  /\ mode = "bundling"
  /\ input.bundled
  /\ LET files == [i \in DOMAIN input.files |-> Compiled(input.files[i])]
     IN  IF \E i, j \in DOMAIN files : i # j /\ files[i].hash = files[j].hash
         THEN mode' = "rejected" /\ UNCHANGED file
         ELSE /\ file' = BundleCells(buildBundle(files), EntryHash(input))
              /\ mode' = "loading"
  /\ position' = 1
  /\ UNCHANGED <<vars, input, sections, requested>>

\* The module as the compiler wrote it is run without atomixc bundle.
parseFile ==
  /\ mode = "bundling"
  /\ ~input.bundled
  /\ file' = ModuleCells(Compiled(input.files[1]))
  /\ mode' = "loading"
  /\ UNCHANGED <<vars, input, position, sections, requested>>

-----------------------------------------------------------------------------
(* The loader.                                                             *)

Cell(p) == file[p + 1]

\* unknown_load_from_buffer: a file that starts with a module is one module.
ModuleCount == IF Cell(0).kind = "bundle" THEN Cell(0).count ELSE 1

\* A module is read at position; *pos is left behind its header.
module_load_from_buffer_offset ==
  /\ mode = "loading"
  /\ Len(modules) < ModuleCount
  /\ LET header == Cell(position)
     IN  IF header.kind # "module"
         THEN /\ mode' = "Invalid magic number"
              /\ UNCHANGED <<modules, sections, position>>
         ELSE /\ modules' = Append(modules, header.hash)
              /\ sections' = Append(sections, <<Cell(position + header.table),
                                                Cell(position + header.data)>>)
              /\ position' = position + 1
              /\ UNCHANGED mode
  /\ UNCHANGED <<search, input, file, requested>>

-----------------------------------------------------------------------------
(* main, and import.                                                       *)

StartSearch(h) ==
  /\ hash' = h
  /\ low' = 0
  /\ high' = Len(modules)
  /\ found' = 0
  /\ answer' = "searching"

\* An entry point of 0 means none: main returns.
main ==
  /\ mode = "loading"
  /\ Len(modules) = ModuleCount
  /\ CASE Cell(0).kind = "module" -> mode' = "running" /\ UNCHANGED search
       [] Cell(0).kind = "bundle" /\ Cell(0).entry = 0 -> mode' = "exit" /\ UNCHANGED search
       [] Cell(0).kind = "bundle" /\ Cell(0).entry # 0 ->
            mode' = "entry" /\ StartSearch(Cell(0).entry)
  /\ UNCHANGED <<modules, input, file, position, sections, requested>>

Lookups ==
  /\ mode \in {"entry", "import"}
  /\ bundle_get_module
  /\ UNCHANGED bundleVars

\* vm_exec_module of the entry point, or the return of importModule.
Runs ==
  /\ mode \in {"entry", "import"}
  /\ answer = "found"
  /\ mode' = "running"
  /\ requested' = <<>>
  /\ UNCHANGED <<vars, input, file, position, sections>>

\* args[0] << 32 | args[1]
Requested(args) == HALF * args[1] + args[2]

\* ImportDeclaration becomes Module.importModule(sourceHash[0], sourceHash[1]).
\* A module that was not loaded from a bundle has none to search: bundle_get_module
\* panics at once.
module_import_module ==
  /\ mode = "running"
  /\ \E importer \in ToSet(input.files), source \in Sources :
       /\ requested' = <<importer, source>>
       /\ \/ Cell(0).kind = "module" /\ answer' = "absent" /\ UNCHANGED <<hash, low, high, found>>
          \/ Cell(0).kind = "bundle" /\ StartSearch(Requested(SourceHash(importer, source)))
  /\ mode' = "import"
  /\ UNCHANGED <<modules, input, file, position, sections>>

\* The program ends.
Exit ==
  /\ mode = "running"
  /\ mode' = "exit"
  /\ UNCHANGED <<vars, input, file, position, sections, requested>>

Stopped ==
  /\ \/ mode \in Faults \cup {"exit"}
     \/ mode \in {"entry", "import"} /\ answer \in {"absent", "overrun"}
  /\ UNCHANGED <<vars, bundleVars>>

BundleInit ==
  /\ input \in Inputs
  /\ file = <<>>
  /\ position = 0
  /\ sections = <<>>
  /\ requested = <<>>
  /\ mode = "bundling"
  /\ modules = <<>>
  /\ hash = 0 /\ low = 0 /\ high = 0 /\ found = 0 /\ answer = "idle"

BundleNext ==
  \/ bundle \/ parseFile \/ module_load_from_buffer_offset \/ main \/ Lookups \/ Runs
  \/ module_import_module \/ Exit \/ Stopped

BundleSpec == BundleInit /\ [][BundleNext]_<<vars, bundleVars>>

-----------------------------------------------------------------------------

BundleTypeOK ==
  /\ input \in Inputs
  /\ position \in 0..(Len(file) + 1)
  /\ modules \in Seq(Hashes)
  /\ Len(sections) = Len(modules)
  /\ hash \in Hashes
  /\ low \in 0..(COUNT - 1) /\ high \in 0..(COUNT - 1)
  /\ found \in 0..Len(modules)
  /\ requested \in {<<>>} \cup (ToSet(input.files) \X Sources)
  /\ mode \in {"bundling", "loading", "entry", "running", "import", "exit"} \cup Faults

\* Each loaded module has the string table and the data section that were
\* written for its hash. (ModuleFormat.writeTo and the offsets buildModule puts
\* into the header, against module_load_from_buffer_offset.)
SectionsMatch ==
  \A i \in DOMAIN modules :
    /\ [s \in 1..2 |-> sections[i][s].kind] = <<"table", "data">>
    /\ \A s \in 1..2 : Written(sections[i][s].of) = modules[i]

\* A bundle that loads starts with its entry point; it starts nothing only if it
\* has none, or one whose hash is 0, which main takes for none. (The hash in the
\* bundle header against those of the module headers, bundle_get_module in main,
\* and the test of entryPoint before it.)
EntryIsFound ==
  /\ mode = "entry" =>
       /\ answer \in {"searching", "found"}
       /\ answer = "found" => modules[found] = Written(EntryHash(input))
  /\ input.bundled /\ mode \in {"running", "exit"} /\ answer = "idle" =>
       \/ input.entry = 0
       \/ hashFilePath(input.files[input.entry].path) = <<0, 0>>

-----------------------------------------------------------------------------
(* What the command line and the README promise and the code does not keep. *)

\* bin/bundle.ts: "Bundle multiple modules into a bundle". (The loader looks
\* for the second module behind the header of the first.)
BundlesLoad == mode # "Invalid magic number"

\* README.md: "Supports only the ECMA Module import syntax": an import of a
\* module of the bundle finds it. (transform.ts joins a relative source to the
\* base name of the importing file and passes the low half of the hash first;
\* importModule takes the first for the high half.)
Meant(importer, source) ==
  CASE source.from = "bare" -> Hash(source.path)
    [] source.from = "."    -> hashFilePath(Front(importer.path) \o source.path)
    [] source.from = ".."   -> hashFilePath(Front(Front(importer.path)) \o source.path)
NamesModule(importer, source) ==
  /\ input.bundled
  /\ source.from = ".." => Len(importer.path) > 1   \* not outside the root
  /\ Written(Meant(importer, source)) \in ToSet(modules)
ImportFindsModule ==
  mode = "import" /\ NamesModule(requested[1], requested[2]) => answer \in {"searching", "found"}

=============================================================================
