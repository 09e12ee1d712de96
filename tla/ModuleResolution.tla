-------------------------- MODULE ModuleResolution --------------------------
(***************************************************************************)
(* Module resolution (src/module_resolution/module-resolution.h): how the  *)
(* specifier of an import, read in the module that imports it, becomes the *)
(* name of a module.                                                       *)
(*                                                                         *)
(* A path is a sequence of parts.  The part "/" starts an absolute path    *)
(* and an extension is a part of its own, so lib/b.js is                   *)
(* <<"lib", "b", ".js">>; the empty path stands for NULL and for "".       *)
(* A module name is a path with the flag of the embedded:// prefix.  A     *)
(* specifier is a path with its scheme, "file" for file:// and "plain"     *)
(* otherwise; a colon is a part of its own, so node:fs is                  *)
(* <<"node", ":", "fs">>.                                                  *)
(*                                                                         *)
(* A disk is a record: files and links (a function from a link to its      *)
(* canonical target), the working directory, the directories of NODE_PATH, *)
(* the package.json of each package directory and the alias that the       *)
(* resolver hook (tsconfig paths) knows for a specifier.                   *)
(***************************************************************************)
EXTENDS Naturals, Sequences, SequencesExt

Exts == {".js", ".ts"}
Scopes == {"@s"}
NoPath == <<>>

Disk(p) == [emb |-> FALSE, path |-> p]
make_embedded_name(p) == [emb |-> TRUE, path |-> p]
has_file_prefix(s) == s.scheme = "file"
is_filesystem_path(p) == p # NoPath /\ p[1] \in {"/", ".", ".."}

\* The text before the last slash; "" for a file in the root directory too.
Parent(p) ==
  LET d == IF Last(p) \in Exts THEN Front(Front(p)) ELSE Front(p)
  IN  IF d = <<"/">> THEN NoPath ELSE d

\* Every colon becomes a slash: node:fs and node/fs are different specifiers
\* (for the import map, say) that are looked up under one path.
translate_colons_to_slashes(s) == SelectSeq(s.path, LAMBDA part : part # ":")

----------------------------------------------------------------------------
\* The file system as stat, access and realpath show it.  No disk has a file
\* whose name is dots and an extension: "lib/." with ".js" is not lib.js.
Walk(d, p) ==
  LET w[i \in 0..Len(p)] ==
        IF i = 0 THEN d.cwd
        ELSE LET q == w[i - 1]
                 r == Append(q, p[i])
             IN  CASE i > 1 /\ p[i - 1] \in {".", ".."} /\ p[i] \in Exts ->
                        q \o <<".", p[i]>>
                   [] p[i] = "."  -> q
                   [] p[i] = ".." -> IF Len(q) > 1 THEN Front(q) ELSE q
                   [] p[i] = "/"  -> <<"/">>
                   [] OTHER       -> IF r \in DOMAIN d.links THEN d.links[r] ELSE r
  IN  w[Len(p)]

DirExists(d, p) ==
  LET q == Walk(d, p)
  IN  \E f \in d.files : /\ IsPrefix(q, f)
                         /\ Len(f) > Len(q)
                         /\ f[Len(q) + 1] \notin Exts

file_exists(d, p) == Walk(d, p) \in d.files

resolve_realpath(d, p) ==
  IF file_exists(d, p) \/ DirExists(d, p) THEN Walk(d, p) ELSE NoPath

----------------------------------------------------------------------------
\* Probing: the exact name, then the suffixes in their order.
module_ext_suffixes ==
  << <<".js">>, <<".ts">>, <<"index", ".js">>, <<"index", ".ts">> >>

Candidates(p) == <<p>> \o [i \in 1..4 |-> p \o module_ext_suffixes[i]]

FirstIn(ps, Ok(_)) ==
  LET hits == SelectSeq(ps, Ok) IN IF hits = <<>> THEN NoPath ELSE hits[1]

resolve_with_index(d, p) ==
  LET Ok(q) == file_exists(d, q) IN FirstIn(Candidates(p), Ok)

probe_embedded(mods, p) ==
  LET Ok(q) == q \in mods IN FirstIn(Candidates(p), Ok)

\* The candidates of every directory of NODE_PATH, one directory after the other.
resolve_node_path(d, name) ==
  LET Ok(q) == file_exists(d, q)
  IN  FirstIn(FlattenSeq([i \in 1..Len(d.nodePath) |->
                             Candidates(d.nodePath[i] \o name)]), Ok)

\* Called with no embedded list: the name, with its suffix, of the first hit.
resolve_node_path_canonical(d, name) ==
  LET Hit(q) == \E i \in 1..Len(d.nodePath) : file_exists(d, d.nodePath[i] \o q)
      inDir(i) == LET Ok(q) == file_exists(d, d.nodePath[i] \o q)
                  IN  FirstIn(Candidates(name), Ok)
      dirs == SelectSeq([i \in 1..Len(d.nodePath) |-> i],
                        LAMBDA i : inDir(i) # NoPath)
  IN  IF dirs = <<>> THEN NoPath ELSE inDir(dirs[1])

----------------------------------------------------------------------------
\* Leading "./" and "../" are taken off one by one against the directory of
\* the importer; what cannot be climbed stays in the name, and so does a "." or
\* ".." at its end, which no slash follows.
Leading(name) ==
  CHOOSE n \in 0..(Len(name) - 1) :
     /\ \A i \in 1..n : name[i] \in {".", ".."}
     /\ n < Len(name) - 1 => name[n + 1] \notin {".", ".."}

Climb(dir, part) ==
  IF part = ".." /\ dir # NoPath /\ Last(dir) \notin {".", ".."} THEN Parent(dir) ELSE dir

normalize_module_name(base, name) ==
  LET n == Leading(name)
      dir[i \in 0..n] ==
        IF i = 0 THEN Parent(base) ELSE LET up == dir[i - 1] IN Climb(up, name[i])
      stuck == {i \in 1..n : name[i] = ".." /\ dir[i] = dir[i - 1]}
      k     == IF stuck = {} THEN n ELSE (CHOOSE i \in stuck : \A j \in stuck : i <= j) - 1
  IN  IF name[1] \notin {".", ".."} THEN name
      ELSE dir[k] \o SubSeq(name, k + 1, Len(name))

----------------------------------------------------------------------------
\* package.json.  A target is the sequence of the strings its conditions
\* "import" and "default" offer, in this order; a string is a path in which
\* the part "*" is the wildcard.  "exports" is a sequence of keys with their
\* targets, cond the target of an exports field without subpaths.
package_name_length(name) ==
  IF name[1] \in Scopes /\ Len(name) > 1 THEN 2 ELSE 1

Stars(str) == {i \in 1..Len(str) : str[i] = "*"}

Substitute(str, capture) ==
  LET i == CHOOSE k \in Stars(str) : TRUE
  IN  SubSeq(str, 1, i - 1) \o capture \o SubSeq(str, i + 1, Len(str))

resolve_export_target(target, pkg_dir) ==
  IF target = <<>> THEN NoPath ELSE pkg_dir \o target[1]

ExportTargetCaptured(target, pkg_dir, capture) ==
  LET ok == SelectSeq(target, LAMBDA str : \E i \in 1..Len(str) : Stars(str) = {i})
  IN  IF ok = <<>> THEN NoPath ELSE pkg_dir \o Substitute(ok[1], capture)

Matches(key, path) ==
  \E i \in 1..Len(key) :
     /\ Stars(key) = {i}
     /\ Len(path) >= Len(key)
     /\ SubSeq(path, 1, i - 1) = SubSeq(key, 1, i - 1)
     /\ SubSeq(path, Len(path) - (Len(key) - i) + 1, Len(path))
          = SubSeq(key, i + 1, Len(key))

Prefix(key) == (CHOOSE i \in Stars(key) : TRUE) - 1

Capture(key, path) ==
  SubSeq(path, Prefix(key) + 1, Len(path) - (Len(key) - Prefix(key) - 1))

\* Mutant: the first pattern that matches wins.
FirstWildcard(pkg, path, pkg_dir) ==
  LET hits == {j \in 1..Len(pkg.exports) : Matches(pkg.exports[j].key, path)}
  IN  IF hits = {} THEN NoPath
      ELSE LET j == CHOOSE j \in hits : \A k \in hits : j <= k
           IN  ExportTargetCaptured(pkg.exports[j].target, pkg_dir,
                                    Capture(pkg.exports[j].key, path))

\* The longest prefix wins, the first of the keys among equals.
resolve_wildcard_export(pkg, path, pkg_dir) ==
  LET hits == {j \in 1..Len(pkg.exports) : Matches(pkg.exports[j].key, path)}
      pre(j) == Prefix(pkg.exports[j].key)
      best == CHOOSE j \in hits :
                \A k \in hits : pre(j) > pre(k) \/ (pre(j) = pre(k) /\ j <= k)
  IN  IF hits = {} THEN NoPath
      ELSE ExportTargetCaptured(pkg.exports[best].target, pkg_dir,
                                Capture(pkg.exports[best].key, path))

FirstPath(ps) == FirstIn(ps, LAMBDA p : p # NoPath)

ExactExport(pkg, path, pkg_dir) ==
  LET e == SelectSeq(pkg.exports, LAMBDA x : x.key = path)
  IN  IF e = <<>> THEN NoPath ELSE resolve_export_target(e[1].target, pkg_dir)

resolve_package_json(d, pkg_dir, subpath) ==
  LET pkg == d.pkgs[Walk(d, pkg_dir)]
      key == <<".">> \o subpath
  IN  IF Walk(d, pkg_dir) \notin DOMAIN d.pkgs THEN NoPath
      ELSE FirstPath(<<ExactExport(pkg, key, pkg_dir)>> \o
             IF subpath = <<>>
               THEN <<resolve_export_target(pkg.cond, pkg_dir),
                      resolve_export_target(pkg.main, pkg_dir)>>
               ELSE <<resolve_wildcard_export(pkg, key, pkg_dir)>>)

\* One directory of the walk: package.json, then the files themselves.
InPackage(d, pkg_dir, subpath, exported) ==
  IF ~DirExists(d, pkg_dir) THEN NoPath
  ELSE IF exported # NoPath /\ file_exists(d, exported) THEN exported
  ELSE resolve_with_index(d, pkg_dir \o subpath)

\* The directory of the importer and the ones above it, the root included.
Above(dir) == [i \in 1..Len(dir) |-> SubSeq(dir, 1, Len(dir) + 1 - i)]

resolve_node_modules(d, base, name) ==
  LET n       == package_name_length(name)
      subpath == SubSeq(name, n + 1, Len(name))
      top     == IF base[1] = "/" THEN "/" ELSE "."
      dirs    == IF Parent(base) = NoPath THEN << <<top>> >> ELSE Above(Parent(base))
  IN  FirstPath([i \in 1..Len(dirs) |->
        LET pkg_dir == dirs[i] \o <<"node_modules">> \o SubSeq(name, 1, n)
        IN  InPackage(d, pkg_dir, subpath, resolve_package_json(d, pkg_dir, subpath))])

OrElse(p, q) == IF p # NoPath THEN p ELSE q

----------------------------------------------------------------------------
\* The normalizer of a binary: env is its disk, its embedded list and its
\* import map (a set of records base, spec, resolved) and the resolution mode.
import_map_lookup(env, base, spec) ==
  {e.resolved : e \in {x \in env.map : x.base = base /\ x.spec = spec}}

InputName == make_embedded_name(<<"<input>">>)

NodePathReal(env, name) ==
  IF env.nodeMode THEN NoPath
  ELSE LET full == resolve_node_path(env.disk, name)
       IN  IF full = NoPath THEN NoPath
           ELSE OrElse(resolve_realpath(env.disk, full),
                       resolve_node_path_canonical(env.disk, name))

\* The canonical path of what was found, if it has one.
RealOf(d, p) == IF p = NoPath THEN NoPath ELSE OrElse(resolve_realpath(d, p), p)

NodeModulesReal(env, base, name) ==
  IF is_filesystem_path(base)
    THEN RealOf(env.disk, resolve_node_modules(env.disk, base, name)) ELSE NoPath

resolve_bare_to_disk(env, name, base) ==
  OrElse(NodePathReal(env, name), NodeModulesReal(env, base, name))

\* The JS hook of qn_apply_module_resolver_fallback, asked last.
ResolverHook(env, spec) ==
  IF spec \in DOMAIN env.disk.alias
    THEN RealOf(env.disk, env.disk.alias[spec]) ELSE NoPath

NormalizeBare(env, base, effective, spec, resolved) ==
  LET mapped  == import_map_lookup(env, InputName, spec)
      disk    == resolve_bare_to_disk(env, resolved, effective)
      here    == IF file_exists(env.disk, resolved)
                   THEN resolve_realpath(env.disk, resolved) ELSE NoPath
      asDisk  == IF base.emb THEN disk
                 ELSE FirstPath(<<disk, here, ResolverHook(env, spec)>>)
  IN  IF mapped # {} THEN CHOOSE m \in mapped : TRUE
      ELSE Disk(OrElse(asDisk, resolved))

NormalizePath(env, base, resolved) ==
  LET probeEmb == IF env.nodeMode \/ ~base.emb THEN NoPath
                  ELSE probe_embedded(env.mods, resolved)
      inEmb    == OrElse(probeEmb, resolved)
      probe    == IF env.nodeMode THEN NoPath ELSE resolve_with_index(env.disk, inEmb)
      onDisk   == OrElse(probe, inEmb)
  IN  IF base.emb /\ inEmb \in env.mods THEN make_embedded_name(inEmb)
      ELSE Disk(OrElse(resolve_realpath(env.disk, onDisk), onDisk))

qn_module_normalizer(env, base, spec) ==
  LET mapped == IF base.emb THEN import_map_lookup(env, base, spec) ELSE {}
      name   == translate_colons_to_slashes(spec)
      real   == IF ~base.emb /\ is_filesystem_path(base.path)
                  THEN resolve_realpath(env.disk, base.path) ELSE NoPath
      effective == OrElse(real, base.path)
      resolved  == normalize_module_name(effective, name)
  IN  IF has_file_prefix(spec)
        THEN Disk(OrElse(resolve_realpath(env.disk, spec.path), spec.path))
      ELSE IF mapped # {} THEN CHOOSE m \in mapped : TRUE
      ELSE IF is_filesystem_path(spec.path) THEN NormalizePath(env, base, resolved)
      ELSE NormalizeBare(env, base, effective, spec, resolved)

----------------------------------------------------------------------------
\* The loader of a binary (qn_loader of the generated main file, then
\* qn_module_loader): the module that a name stands for, or NotLoaded.
\* A C module keeps its plain name.
NotLoaded == Disk(<<"?">>)

qn_module_loader(env, name) ==
  LET viaPath == IF is_filesystem_path(name.path) THEN NoPath
                 ELSE resolve_node_path(env.disk, name.path)
      viaExt  == IF env.nodeMode THEN NoPath ELSE resolve_with_index(env.disk, name.path)
      file    == FirstPath(<<viaPath, viaExt, name.path>>)
  IN  IF name.emb THEN (IF name.path \in env.mods THEN name ELSE NotLoaded)
      ELSE IF name.path \in env.cmods THEN name
      ELSE IF file_exists(env.disk, file) THEN Disk(Walk(env.disk, file))
      ELSE NotLoaded
=============================================================================
