------------------------------- MODULE MCBuild -------------------------------
(***************************************************************************)
(* Small programs for qnc: /h/w/a.js, a directory lib with a link to it,   *)
(* packages with exports, shims on NODE_PATH, a file outside the working   *)
(* directory and one file for each case where the resolvers come apart;    *)
(* machines with and without files of the names that the program imports;  *)
(* two builds of the support files.                                        *)
(***************************************************************************)
EXTENDS Build

Plain(p) == [scheme |-> "plain", path |-> p]

W == <<"/", "h", "w">>
Out == <<"/", "h", "out">>
NP == <<"/", "np">>
PkgDir == W \o <<"node_modules", "pkg">>
OutPkg(name) == Out \o <<"node_modules", name>>

A == <<"a", ".js">>
B == <<"lib", "b", ".js">>

LocalFiles == { A, B, <<"lib", "b", "index", ".js">>, <<"lib", "index", ".ts">>,
                <<"lib", "b_1", ".js">>, <<"index", ".js">>, <<"std", ".js">>, <<"ali", ".js">>,
                <<"rootpkg", ".js">>, <<"up", ".js">>, <<"file", "h", "out", "b", ".js">>,
                <<"out", "b", ".js">> }
PkgFiles == { <<"main", ".js">>, <<"u", "x", ".js">>, <<"v", "x", ".js">>, <<"v", "u", "x", ".js">> }
OddFiles == { <<"tied", "u", "x", "y", ".js">>, <<"tied", "w", "x", ".js">>,
              <<"stars", "t", "x", ".js">>, <<"stars", "t", "x", "x", ".js">>,
              <<"null", "v", "n", ".js">>, <<"null", "n", ".js">> }
Shims == { <<"node", "fs", ".js">>, <<"node", "u", "x", ".js">>, <<"node", "u", ":", "x", ".js">> }

Under(dir, files) == {dir \o f : f \in files}
Files == Under(W, LocalFiles) \union Under(PkgDir, PkgFiles) \union Under(Out \o <<"node_modules">>, OddFiles)
           \union Under(NP, Shims)
           \union { Out \o <<"b", ".js">>,
                    <<"/", "node_modules", "rootpkg", "index", ".js">>,
                    <<"/", "h", "node_modules", "up", "index", ".js">> }

Export(key, target) == [key |-> <<".">> \o key, target |-> target]

Pkg == [exports |-> << Export(<<"*">>, << <<"v", "*", ".js">> >>),
                       Export(<<"u", "*">>, << <<"u", "*", ".js">> >>) >>,
        cond |-> <<>>, main |-> << <<"main", ".js">> >>]

\* Two patterns of one prefix, a target of two stars, a key that exports nothing.
Package(exports) == [exports |-> exports, cond |-> <<>>, main |-> <<>>]
Tied  == Package(<< Export(<<"u", "*">>, << <<"u", "*", ".js">> >>),
                    Export(<<"u", "*", "y">>, << <<"w", "*", ".js">> >>) >>)
Star2 == Package(<< Export(<<"t", "*">>, << <<"t", "*", "*", ".js">> >>) >>)
Null  == Package(<< Export(<<"n">>, <<>>), Export(<<"*">>, << <<"v", "*", ".js">> >>) >>)

NodeFs == Plain(<<"node", ":", "fs">>)
Aliased == Plain(<<"@s", "b">>)
FileAliased == Plain(<<"ali">>)

MCSource == [files |-> Files, links |-> (W \o <<"ln">>) :> (W \o <<"lib">>), cwd |-> W,
           nodePath |-> <<NP>>, pkgs |-> PkgDir :> Pkg @@ OutPkg("tied") :> Tied
                      @@ OutPkg("stars") :> Star2 @@ OutPkg("null") :> Null,
           alias |-> Aliased :> (W \o B) @@ FileAliased :> (W \o B)]

\* A machine with nothing on NODE_PATH, and one with a file of every bare name.
BareTarget == [files |-> {<<"/", "x", "lib", "b", ".js">>, <<"/", "x", "os", ".js">>},
               links |-> <<>>, cwd |-> <<"/", "x">>, nodePath |-> <<>>,
               pkgs |-> <<>>, alias |-> <<>>]

RichTarget == [files |-> Under(<<"/", "x">>, {<<"lib", "b", ".js">>, <<"lib", "index", ".ts">>,
                                  <<"node_modules", "pkg", "main", ".js">>, <<"a", ".js">>})
                           \union Under(NP, {<<"os", ".js">>, <<"pkg", ".js">>, <<"node", "fs", ".js">>})
                           \union {Out \o <<"node_modules", "os", "index", ".js">>},
               links |-> <<>>, cwd |-> <<"/", "x">>, nodePath |-> <<NP>>,
               pkgs |-> <<>>, alias |-> <<>>]

MCTargets == "bare" :> BareTarget @@ "rich" :> RichTarget

EntrySpecs == { Plain(<<".", "lib", "b">>), Plain(<<".", "lib">>), Plain(<<".", "ln", "b", ".js">>),
                Plain(<<"pkg">>), Plain(<<"pkg", "u", "x">>), Plain(<<"pkg", "x">>), Plain(<<"os">>),
                Plain(Out \o <<"b">>), Plain(W \o <<"lib", "b">>), Plain(<<"..", "out", "b">>), Aliased,
                NodeFs, Plain(<<".">>) }

\* One import for each case in which the resolvers come apart.
OddSpecs == { FileAliased, Plain(<<"rootpkg">>), Plain(<<"up">>), Plain(<<"std">>),
              Plain(<<"node", ":", "u", ":", "x">>),
              [scheme |-> "file", path |-> Out \o <<"b", ".js">>] }

LibSpecs == { Plain(<<"..", "a", ".js">>), Plain(<<".", "b_1">>), Plain(<<"pkg">>),
              Plain(<<"..", "..", "out", "b">>), Plain(<<"..", "ln", "index", ".ts">>),
              Plain(<<"missing">>), Plain(<<".">>), Plain(<<"..">>) }

\* A file outside the working directory: its own directory, back in, and away.
OutSpecs == { Plain(<<"..", "w", "lib", "b", ".js">>), Plain(<<"..", "out", "b", ".js">>),
              Plain(<<"os">>), Plain(<<"rootpkg">>), Plain(<<"tied", "u", "x", "y">>),
              Plain(<<"stars", "t", "x">>), Plain(<<"null", "n">>) }

Program(inputs, cname, dynamic, a, b, out) ==
  [inputs |-> inputs, cname |-> cname, dyn |-> dynamic,
   imports |-> (W \o A) :> a @@ (W \o B) :> b @@ (Out \o <<"b", ".js">>) :> out]

MCPrograms ==
  { Program(<<A>>, NoCName, d, <<s, Plain(<<".", "lib", "b">>)>>, <<l>>, <<Plain(<<"os">>)>>) :
      s \in EntrySpecs, l \in LibSpecs, d \in {<<>>, <<NodeFs>>} }
    \union
  { Program(<<A>>, NoCName, <<>>, <<s, Plain(Out \o <<"b">>)>>, <<Plain(<<".", "b_1">>)>>, <<o>>) :
      s \in EntrySpecs \union OddSpecs, o \in OutSpecs }
    \union
  \* Modules named with -D, twice or already loaded.
  { Program(<<A>>, NoCName, <<s, t>>, <<Plain(<<"os">>)>>, <<>>, <<>>) :
      s, t \in {NodeFs, Plain(<<"pkg">>), Plain(<<"os">>), Plain(<<".", "lib", "b">>), Plain(<<"missing">>)} }
    \union
  \* Several input files, one of which may import another, and the option -N.
  { Program(in, c, <<>>, <<s>>, <<l>>, <<>>) :
      in \in { <<A, B>>, <<B, A>>, <<A, A>>, <<A, <<"none", ".js">> >>, <<A>> },
      c \in { NoCName, <<"main">>, <<"b">> },
      s \in { Plain(<<".", "lib", "b">>), Plain(<<".", "lib">>) },
      l \in { Plain(<<"..", "a", ".js">>), Plain(<<".", "b_1">>) } }

MCInputNames == <<"<input:0>", "<input:1>">>
MCCModules == {<<"os">>, <<"std">>}
MCCIdent == [x \in {"b_1"} |-> <<"b", 1>>]

\* Two builds with files of other sizes.
MCFileNames == <<"qjs", "qnc.js">>
MCContents == << << <<"q1">>, <<"n1", "m1">> >>, << <<"q2", "r2">>, <<"n2">> >> >>
=============================================================================
