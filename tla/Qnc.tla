-------------------------------- MODULE Qnc --------------------------------
(***************************************************************************)
(* qnc: the compiler that turns a program into a standalone binary.  The   *)
(* engine (src/qnc/engine.c) compiles one module after the other, depth    *)
(* first, and asks the resolver and the loader of qnc.js for every import; *)
(* what they find is embedded, and the resolutions that the binary could   *)
(* not repeat go into its import map.  The binary then resolves the same   *)
(* imports with the normalizer of ModuleResolution, on a machine that may  *)
(* not have the sources.                                                   *)
(*                                                                         *)
(* A module that is being compiled is a frame of the stack with the        *)
(* imports it still has to resolve: JS_Eval resolves them before it        *)
(* returns, so a module is emitted after the modules it imports.           *)
(***************************************************************************)
EXTENDS ModuleResolution, FiniteSets

CONSTANTS
  Source,      \* the disk where the program is compiled
  Targets,     \* machine -> its disk, which has the binary and other files
  Programs,    \* records: the input files, the C name that -N gives them, the
               \* imports (file -> specifiers) and the -D modules
  CModules,    \* the paths of the C modules (std, os)
  CIdent,      \* leaf name -> C identifier, as a sequence
  InputNames   \* names of the modules made for -D: <input:0>, <input:1>, ...

IsSequence(s) == Len(s) \in Nat /\ s = [i \in 1..Len(s) |-> s[i]]

\* As many names as -D modules, none of them the name of a file.
ASSUME QncAssumption ==
  /\ \A p \in Programs : /\ IsSequence(p.dyn) /\ Len(p.dyn) =< Len(InputNames)
                        /\ IsSequence(p.inputs)
  /\ Len(InputNames) \in Nat
  /\ \A i, j \in 1..Len(InputNames) : InputNames[i] = InputNames[j] => i = j
  /\ \A i \in 1..Len(InputNames) : ~file_exists(Source, <<InputNames[i]>>)
  /\ \A leaf \in DOMAIN CIdent : IsSequence(CIdent[leaf])

VARIABLES
  prog,        \* the program that is compiled
  taken,       \* input files compiled or being compiled
  stack,       \* modules being compiled, the innermost first
  loadedModules,
  mods,        \* embedded list
  map,         \* import map
  entries,     \* emitted modules with their C names
  dyn,         \* -D modules left
  stage,       \* "compile", "run" or "failed"
  found,       \* what the compiler resolved: base, spec, resolved
  rt,          \* where the binary runs, and the resolution mode it is given
  linked       \* what the binary resolved: base, spec, resolved

qncVars == <<prog, taken, stack, loadedModules, mods, map, entries, dyn, stage, found, rt, linked>>

Env(disk, ms, mp, node) ==
  [disk |-> disk, mods |-> ms, map |-> mp, cmods |-> CModules, nodeMode |-> node]

Home == "home"
Binary == Env(IF rt.at = Home THEN Source ELSE Targets[rt.at], mods, map, rt.nodeMode)
Interpreter == Env(Source, {}, {}, FALSE)

Imports(file) == IF file \in DOMAIN prog.imports THEN prog.imports[file] ELSE <<>>

----------------------------------------------------------------------------
\* The resolver of qnc.js, a port of the one in C.

\* Only the first colon becomes a slash, and that of file:// is none apart:
\* file:///x is looked up as the bare name file////x.
translateColons(s) ==
  IF has_file_prefix(s) THEN <<"file">> \o SelectSeq(s.path, LAMBDA part : part # "/")
  ELSE LET i == CHOOSE k \in 1..Len(s.path) :
                  s.path[k] = ":" /\ \A j \in 1..(k - 1) : s.path[j] # ":"
       IN  IF \A k \in 1..Len(s.path) : s.path[k] # ":" THEN s.path
           ELSE RemoveAt(s.path, i)

normalizeModuleName(base, name) ==
  LET n == Leading(name)
      dir[i \in 0..n] ==
        IF i = 0 THEN Parent(base)
        ELSE LET up == dir[i - 1]
             IN  IF name[i] = "." \/ up = NoPath THEN up ELSE Parent(up)
  IN  IF name[1] \notin {".", ".."} THEN name
      ELSE dir[n] \o SubSeq(name, n + 1, Len(name))

SubstituteAll(str, capture) ==
  FlattenSeq([i \in 1..Len(str) |-> IF str[i] = "*" THEN capture ELSE <<str[i]>>])

\* Longest prefix, then longest suffix.
matchExportKey(pkg, path) ==
  LET exact == {j \in 1..Len(pkg.exports) : pkg.exports[j].key = path}
      hits  == {j \in 1..Len(pkg.exports) : Matches(pkg.exports[j].key, path)}
      pre(j) == Prefix(pkg.exports[j].key)
      len(j) == Len(pkg.exports[j].key)
  IN  IF exact # {} THEN exact
      ELSE {j \in hits : \A k \in hits :
              \/ pre(j) > pre(k)
              \/ pre(j) = pre(k) /\ (len(j) > len(k) \/ (len(j) = len(k) /\ j <= k))}

resolvePackageJson(d, pkgDir, subpath) ==
  LET pkg == d.pkgs[Walk(d, pkgDir)]
      key == <<".">> \o subpath
      m   == matchExportKey(pkg, key)
      e   == pkg.exports[CHOOSE j \in m : TRUE]
      via == IF m = {} \/ e.target = <<>> THEN NoPath
             ELSE pkgDir \o SubstituteAll(e.target[1],
                              IF Stars(e.key) = {} THEN <<"*">> ELSE Capture(e.key, key))
  IN  IF Walk(d, pkgDir) \notin DOMAIN d.pkgs THEN NoPath
      ELSE FirstPath(<<via>> \o
             IF subpath = <<>> THEN <<resolve_export_target(pkg.cond, pkgDir),
                                      resolve_export_target(pkg.main, pkgDir)>>
             ELSE <<>>)

resolveNodeModules(d, base, name) ==
  LET n       == package_name_length(name)
      subpath == SubSeq(name, n + 1, Len(name))
      up      == Parent(base)
      dirs    == IF up = NoPath
                   THEN (IF base[1] = "/" THEN <<>> ELSE << <<".">> >>)
                 ELSE IF up[1] = "/" THEN Front(Above(up)) ELSE Append(Above(up), <<".">>)
  IN  FirstPath([i \in 1..Len(dirs) |->
        LET pkgDir == dirs[i] \o <<"node_modules">> \o SubSeq(name, 1, n)
        IN  InPackage(d, pkgDir, subpath, resolvePackageJson(d, pkgDir, subpath))])

\* resolve_compile_realpath: the working directory is cut off.
WithinCwd(d, real) ==
  IF IsPrefix(d.cwd, real) /\ Len(real) > Len(d.cwd)
    THEN SubSeq(real, Len(d.cwd) + 1, Len(real)) ELSE real

resolve_compile_realpath(d, p) == WithinCwd(d, resolve_realpath(d, p))

Canonical(d, p) == OrElse(resolve_compile_realpath(d, p), p)

CompilePath(d, resolved) == Canonical(d, OrElse(resolve_with_index(d, resolved), resolved))

\* A module on disk is known under its canonical path.
EffectiveBase(d, raw) ==
  OrElse(IF is_filesystem_path(raw) THEN resolve_realpath(d, raw) ELSE NoPath, raw)

\* [name, record]: the module name and whether the map gets an entry.  A bare
\* name that is found nowhere is that of a C module.
BareResult(d, full, resolved) ==
  IF full = NoPath THEN [name |-> Disk(resolved), record |-> FALSE]
  ELSE [name |-> make_embedded_name(Canonical(d, full)), record |-> TRUE]

PathResult(spec, path) ==
  [name   |-> make_embedded_name(path),
   record |-> spec.path # path /\ (spec.path[1] = "/" \/ path[1] = "/")]

BareOnDisk(d, spec, effective, resolved) ==
  FirstPath(<<resolve_node_path(d, resolved),
              resolveNodeModules(d, effective, resolved),
              resolve_with_index(d, resolved),
              IF spec \in DOMAIN d.alias THEN d.alias[spec] ELSE NoPath>>)

ResolverResult(d, spec, name, effective, resolved) ==
  IF is_filesystem_path(name) THEN PathResult(spec, CompilePath(d, resolved))
  ELSE BareResult(d, BareOnDisk(d, spec, effective, resolved), resolved)

resolverFn(d, base, spec) ==
  LET effective == EffectiveBase(d, base.path)
      name      == translateColons(spec)
  IN  ResolverResult(d, spec, name, effective, normalizeModuleName(effective, name))

\* The name an input file is compiled under.
EntryName(file) == make_embedded_name(Canonical(Source, file))

\* A file is found under its canonical name.
ASSUME EntryAssumption ==
  \A p \in Programs : \A i \in 1..Len(p.inputs) :
    file_exists(Source, p.inputs[i]) => file_exists(Source, EntryName(p.inputs[i]).path)

\* The compile mode of the C normalizer, which the port replaces; it is asked
\* after the test for file://.
BareInC(d, effective, resolved) ==
  FirstPath(<<resolve_node_path(d, resolved),
              IF is_filesystem_path(effective)
                THEN resolve_node_modules(d, effective, resolved) ELSE NoPath,
              resolve_with_index(d, resolved)>>)

CompileResult(d, spec, effective, resolved) ==
  IF has_file_prefix(spec) THEN [name |-> Disk(Canonical(d, spec.path)), record |-> FALSE]
  ELSE IF is_filesystem_path(spec.path)
    THEN [name |-> make_embedded_name(CompilePath(d, resolved)), record |-> spec.path[1] = "/"]
  ELSE BareResult(d, BareInC(d, effective, resolved), resolved)

compile_mode_normalize(d, base, spec) ==
  LET effective == EffectiveBase(d, base.path)
  IN  CompileResult(d, spec, effective,
        normalize_module_name(effective, translate_colons_to_slashes(spec)))

----------------------------------------------------------------------------
\* C identifiers of the emitted byte code.
cnames == {entries[i].cname : i \in DOMAIN entries}

Leaf(p) == IF Last(p) \in Exts THEN p[Len(p) - 1] ELSE Last(p)

get_c_name(p) == IF Leaf(p) \in DOMAIN CIdent THEN CIdent[Leaf(p)] ELSE <<Leaf(p)>>

find_unique_cname(c) ==
  LET free == {k \in 1..(Cardinality(cnames) + 1) : Append(c, k) \notin cnames}
  IN  Append(c, CHOOSE k \in free : \A j \in free : k <= j)

make_cname(p) ==
  LET c == get_c_name(p) IN IF c \in cnames THEN find_unique_cname(c) ELSE c

----------------------------------------------------------------------------
Frame(name, specs, input) == [name |-> name, left |-> specs, input |-> input]

\* The module that imports the i-th -D module.
Synthetic(i) == make_embedded_name(<<InputNames[i]>>)
Synthetics == {Synthetic(i) : i \in 1..Len(InputNames)}

AllTaken == taken = Len(prog.inputs)

\* compiler_compile of the next input file, under its canonical name, whether an
\* input before it imported this file or not; a file that cannot be read ends qnc.
CompileEntry ==
  /\ stage = "compile"
  /\ stack = <<>>
  /\ ~AllTaken
  /\ LET file == prog.inputs[taken + 1]
         name == EntryName(file)
     IN  IF file_exists(Source, file)
           THEN /\ stack' = <<Frame(name, Imports(Walk(Source, file)), TRUE)>>
                /\ loadedModules' = loadedModules \union {name}
                /\ taken' = taken + 1
                /\ UNCHANGED stage
           ELSE stage' = "failed" /\ UNCHANGED <<taken, stack, loadedModules>>
  /\ UNCHANGED <<prog, mods, map, entries, dyn, found, rt, linked>>

Top == stack[1]
NextImport == Head(Top.left)
Rest == <<[Top EXCEPT !.left = Tail(@)]>> \o Tail(stack)

\* Mutant: absolute results of relative imports are not recorded.
RecordedBareOnly(base, spec, r) ==
  IF r.record /\ ~is_filesystem_path(spec.path)
    THEN {[base |-> make_embedded_name(Canonical(Source, base.path)),
           spec |-> spec, resolved |-> r.name]} ELSE {}

Recorded(base, spec, r) ==
  IF r.record
    THEN {[base |-> make_embedded_name(Canonical(Source, base.path)),
           spec |-> spec, resolved |-> r.name]} ELSE {}

\* Mutant: only emitted modules are known.
KnownWhenEmitted(name) ==
  name.path \in CModules \/ \E i \in DOMAIN entries : entries[i].name = name

\* The runtime has the module, or it is a C module (addCModule).
Known(name) == name \in loadedModules \/ name.path \in CModules

\* qnc_module_normalizer with the result r.
Record(r) ==
  /\ map' = map \union Recorded(Top.name, NextImport, r)
  /\ found' = found \union {[base |-> Top.name, spec |-> NextImport, resolved |-> r.name]}

\* qnc_module_loader, unless the module is there.
Load(name, file) ==
  \/ /\ Known(name)
     /\ stack' = Rest
     /\ UNCHANGED <<loadedModules, mods, stage>>
  \/ /\ ~Known(name) /\ file \in Source.files
     /\ stack' = <<Frame(name, Imports(file), FALSE)>> \o Rest
     /\ loadedModules' = loadedModules \union {name}
     /\ mods' = mods \union {name.path}
     /\ UNCHANGED stage
  \/ /\ ~Known(name) /\ file \notin Source.files
     /\ stage' = "failed"
     /\ UNCHANGED <<stack, loadedModules, mods>>

Import(r) == Record(r) /\ Load(r.name, Walk(Source, r.name.path))

ResolveImport ==
  /\ stage = "compile"
  /\ stack # <<>>
  /\ Top.left # <<>>
  /\ Import(resolverFn(Source, Top.name, NextImport))
  /\ UNCHANGED <<prog, taken, entries, dyn, rt, linked>>

\* -N: the same name for every input file, added without a look at the others.
NoCName == <<>>
EntryCName(frame) ==
  IF frame.input /\ prog.cname # NoCName THEN prog.cname ELSE make_cname(frame.name.path)

\* The module has all its imports: it is serialized under a C name.
EmitModule ==
  /\ stage = "compile"
  /\ stack # <<>>
  /\ Top.left = <<>>
  /\ entries' = Append(entries, [name |-> Top.name, cname |-> EntryCName(Top), input |-> Top.input])
  /\ stack' = Tail(stack)
  /\ UNCHANGED <<prog, taken, loadedModules, mods, map, dyn, stage, found, rt, linked>>

\* A -D module: resolved for <input>, then imported by a synthetic module unless
\* the program has loaded it.
AddDynamic(spec, r) ==
  /\ map' = map \union Recorded(InputName, spec, r) \union
       (IF r.name \in loadedModules THEN {}
        ELSE {[base |-> InputName, spec |-> spec, resolved |-> r.name]})
  /\ stack' = IF r.name \in loadedModules THEN <<>>
              ELSE <<Frame(Synthetic(Len(prog.dyn) - Len(dyn) + 1), <<spec>>, FALSE)>>

CompileDynamic ==
  /\ stage = "compile"
  /\ stack = <<>> /\ AllTaken
  /\ dyn # <<>>
  /\ dyn' = Tail(dyn)
  /\ AddDynamic(Head(dyn), resolverFn(Source, InputName, Head(dyn)))
  /\ UNCHANGED <<prog, taken, loadedModules, mods, entries, stage, found, rt, linked>>

\* compiler_close; the binary is started somewhere, in either mode.
StartBinary ==
  /\ stage = "compile"
  /\ stack = <<>> /\ AllTaken
  /\ dyn = <<>>
  /\ stage' = "run"
  /\ rt' \in [at : {Home} \union DOMAIN Targets, nodeMode : BOOLEAN]
  /\ UNCHANGED <<prog, taken, stack, loadedModules, mods, map, entries, dyn, found, linked>>

\* The binary links the imports of its modules.
LinkEmbedded ==
  /\ stage = "run"
  /\ linked = {}
  /\ linked' = {[base |-> f.base, spec |-> f.spec,
                  resolved |-> qn_module_normalizer(Binary, f.base, f.spec)] : f \in found}
  /\ UNCHANGED <<prog, taken, stack, loadedModules, mods, map, entries, dyn, stage, found, rt>>

QncInit ==
  /\ prog \in Programs
  /\ stack = <<>> /\ loadedModules = {} /\ mods = {} /\ map = {} /\ entries = <<>>
  /\ taken = 0 /\ dyn = prog.dyn /\ stage = "compile" /\ found = {} /\ linked = {}
  /\ rt = [at |-> Home, nodeMode |-> FALSE]

QncNext == \/ CompileEntry \/ ResolveImport \/ EmitModule \/ CompileDynamic
           \/ StartBinary \/ LinkEmbedded

----------------------------------------------------------------------------
QncTypeOK ==
  /\ prog \in Programs /\ taken \in 0..Len(prog.inputs)
  /\ stage \in {"compile", "run", "failed"}
  /\ \A p \in mods : Walk(Source, p) \in Source.files
  /\ \A e \in map : e.base.emb
  /\ \A i \in DOMAIN entries : entries[i].name \in loadedModules \union Synthetics
  /\ \A i \in DOMAIN stack : stack[i].name \in loadedModules \union Synthetics

\* Generated C has one identifier per module, two arrays of one name would not
\* compile: an input file that takes the name given with -N unchecked is the one
\* exception.  (make_cname, find_unique_cname and compiler_compile of engine.c)
CNamesDistinct ==
  \A i, j \in DOMAIN entries :
    (i < j /\ entries[i].cname = entries[j].cname) =>
      entries[j].input /\ prog.cname # NoCName /\ entries[j].cname = prog.cname

\* A module is compiled once, in an import cycle too: it is on the stack once and
\* emitted once, unless it is an input file: that is compiled when its turn
\* comes.  (loadedModules and the module list of the runtime)
CompiledOnce ==
  /\ \A i, j \in DOMAIN stack : stack[i].name = stack[j].name => i = j
  /\ \A i, j \in DOMAIN entries :
       (i < j /\ entries[i].name = entries[j].name) => entries[j].input
  /\ \A i \in DOMAIN stack, j \in DOMAIN entries :
       stack[i].name = entries[j].name => stack[i].input

----------------------------------------------------------------------------
\* Where resolutions of the compiler and of a program that runs come apart.

\* The two ports of normalize_module_name differ on a "../" that climbs out of
\* a relative base; a link makes the recorded name differ from the path.
Climbs(base, spec) ==
  normalizeModuleName(base.path, spec.path) # normalize_module_name(base.path, spec.path)

CrossesLink(base, spec) ==
  LET p == normalizeModuleName(base.path, spec.path)
  IN  Walk(Source, p) # Walk([Source EXCEPT !.links = <<>>], p)

\* From a module outside the working directory back into it: the base is an
\* absolute path, the module was recorded relative to the directory.
Reenters(f) == f.base.path[1] = "/" /\ f.resolved.path[1] # "/"

\* import "." and import "..": the last dots stay in the name.
EndsInDots(spec) == Last(spec.path) \in {".", ".."}

\* An input file that no other imported before is not in the embedded list.
NotListed(name) ==
  /\ name.path \notin mods
  /\ \E i \in 1..Len(prog.inputs) : name = EntryName(prog.inputs[i])

\* A file named like a C module on the NODE_PATH or in a node_modules of the
\* machine: resolve_bare_to_disk is asked before the C modules.
Shadowed(f) ==
  f.resolved.path \in CModules /\ resolve_bare_to_disk(Binary, f.spec.path, f.base.path) # NoPath

\* In C every colon is a slash, in the port only the first.
ManyColons(spec) == Cardinality({i \in 1..Len(spec.path) : spec.path[i] = ":"}) > 1

\* The two readers of package.json agree on the packages of the plain kind: no
\* two patterns with prefixes of one length, one star in each target of a pattern,
\* a target for each exact key.
PlainExports(pkg) ==
  \A i, j \in 1..Len(pkg.exports) :
    LET e == pkg.exports[i]
    IN  /\ Stars(e.key) = {} => e.target # <<>>
        /\ Stars(e.key) # {} =>
             /\ \A k \in 1..Len(e.target) : Cardinality(Stars(e.target[k])) = 1
             /\ (i # j /\ Stars(pkg.exports[j].key) # {}) =>
                  Prefix(pkg.exports[j].key) # Prefix(e.key)

OddPackage(spec) ==
  \E dir \in DOMAIN Source.pkgs :
    /\ IsSuffix(SubSeq(spec.path, 1, package_name_length(spec.path)), dir)
    /\ ~PlainExports(Source.pkgs[dir])

\* The port does not look into /node_modules, nor, for a module inside the
\* working directory, into any node_modules above this directory.
BeyondPort(base, name) ==
  \E n \in 1..(Len(Source.cwd) - 1) :
    /\ IsPrefix(SubSeq(Source.cwd, 1, n) \o <<"node_modules">>, name.path)
    /\ n = 1 \/ base.path[1] # "/"

\* A name of tsconfig paths that is a file too: the port asks the paths after
\* the extensions, the runtime before them.
AliasOrFile(spec) ==
  spec \in DOMAIN Source.alias /\ resolve_with_index(Source, spec.path) # NoPath

\* A file named like a C module in the working directory: the compiler takes it.
FileForCModule(f) == f.spec.path \in CModules /\ f.resolved.emb

----------------------------------------------------------------------------
\* In bundler mode the binary resolves every import of its own modules to the
\* module that was compiled for it, whatever the disk holds where it runs.  The
\* exceptions: a file:// specifier; a C module with a file of its name before it;
\* and relative imports through a link, out of the working directory or back into
\* it, that end in dots, or of an input file that the embedded list leaves out.
Replays ==
  \A l \in linked : \A f \in found :
    (l.base = f.base /\ l.spec = f.spec /\ ~rt.nodeMode) =>
      \/ l.resolved = f.resolved
      \/ has_file_prefix(f.spec)
      \/ Shadowed(f)
      \/ /\ is_filesystem_path(f.spec.path)
         /\ \/ CrossesLink(f.base, f.spec)
            \/ Climbs(f.base, f.spec)
            \/ Reenters(f)
            \/ EndsInDots(f.spec)
            \/ NotListed(f.resolved)

\* A module compiled into the binary is the file that qn loads when it runs the
\* sources directly, in every program that compiles: the compiler's port and the
\* runtime agree on all imports but those named above.
SameFileInterpreted ==
  stage = "run" => \A f \in found :
    LET source == Disk(Walk(Source, f.base.path))
        there  == qn_module_loader(Interpreter,
                    qn_module_normalizer(Interpreter, source, f.spec))
        here   == IF f.resolved.emb THEN Disk(Walk(Source, f.resolved.path)) ELSE f.resolved
    IN  \/ there = here
        \/ has_file_prefix(f.spec) \/ ManyColons(f.spec) \/ Climbs(f.base, f.spec)
        \/ OddPackage(f.spec) \/ BeyondPort(f.base, there)
        \/ AliasOrFile(f.spec) \/ FileForCModule(f)

\* Where the compile mode in C finds a module, the port finds the same one, but
\* for several colons, climbs, packages with odd exports and /node_modules.
PortAgrees ==
  stage = "run" => \A f \in found :
    LET c == compile_mode_normalize(Source, f.base, f.spec)
    IN  c.name.emb =>
          \/ c.name = f.resolved
          \/ ManyColons(f.spec) \/ Climbs(f.base, f.spec)
          \/ OddPackage(f.spec) \/ BeyondPort(f.base, c.name)

\* A module named with -D can be imported by this name from a script on disk,
\* also when the program itself had loaded it: a bare name leads to the module
\* that the compiler found for it, embedded or C.
DynImportable ==
  stage = "run" => \A i \in DOMAIN prog.dyn :
    LET r == qn_module_normalizer(Binary, Disk(<<"/", "s", ".js">>), prog.dyn[i])
    IN  (~is_filesystem_path(prog.dyn[i].path) /\ ~has_file_prefix(prog.dyn[i])) =>
           /\ r = resolverFn(Source, InputName, prog.dyn[i]).name
           /\ qn_module_loader(Binary, r) = r
=============================================================================
