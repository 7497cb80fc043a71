-------------------------- MODULE MCReleasePipeline --------------------------
(* Two versions, and a tag of the first that is moved to a commit of the    *)
(* second.  Of what the builds and scanners may leave, some is acceptable   *)
(* and the rest is wrong in one way each.                                   *)
EXTENDS ReleasePipeline

CONSTANTS v1, v2, c1, c2

MCRuns      == {<<v1, c1>>, <<v1, c2>>}
OneRun      == {<<v1, c1>>}
MCVersionOf == (c1 :> v1) @@ (c2 :> v2)

Argument(name) == [name |-> name, named |-> TRUE, expected |-> TRUE]
Variable(name) ==
  [name |-> name, required |-> name \in Required, pinned |-> name \in Pinned,
   documented |-> name \in Conditional]
Listed(Entry(_), names) == FoldSet(LAMBDA n, list : Append(list, Entry(n)), <<>>, names)
Server(v) ==
  [ours |-> TRUE, version |-> v, described |-> TRUE, remotes |-> FALSE,
   packages |-> << [oci |-> TRUE, plain |-> TRUE, image |-> v,
                    arguments |-> Listed(Argument, Hardening),
                    variables |-> Listed(Variable, Required \cup Pinned \cup Conditional)] >>]
MCServerOf == [c \in Commits |-> Server(MCVersionOf[c])]
MCFilesOf  == [c \in Commits |->
  [installer |-> TRUE, quality |-> TRUE, dockerfile |-> TRUE,
   release |-> <<"ownership", "policy", "login", "push">>]]

\* The exception of the first version is reviewed on day 0 and ends on day 1.
Excused == [key |-> "cve", complete |-> TRUE, explained |-> TRUE, reviewed |-> 0, expires |-> 1]
MCExceptionsOf == (c1 :> <<Excused>>) @@ (c2 :> <<>>)
Match(severity) == [key |-> "cve", severity |-> severity, fixed |-> TRUE]
MCReports == {{Match("high")}, {Match("low")}}

MCSboms == {[valid |-> TRUE, names |-> {"project", "mcp"}]}

File(path)   == [path |-> path, type |-> "file"]
Wheel(v, extra) ==
  [kind |-> "wheel", name |-> v, metadata |-> v,
   members |-> <<File(<<"module", "other">>), File(<<"dist-info", "METADATA">>)>> \o extra]
Sdist(v, extra) ==
  [kind |-> "sdist", name |-> v, metadata |-> v,
   members |-> << [path |-> <<"root", "">>, type |-> "dir"], File(<<"root", "PKG-INFO">>),
                  File(<<"root", "LICENSE">>), File(<<"root", "src", "module", "other">>) >> \o extra]
Build(wheel, sdist) ==
  [entries |-> {"wheel", "sdist", "sentinel"}, wheel |-> wheel, sdist |-> sdist]

Extras == {<<>>, <<File(<<"module", "..", "other">>)>>, <<File(<<"module", "other">>)>>}
MCPackageBuilds ==
  [v \in Versions |->
     {Build(Wheel(v, extra), Sdist(v, <<>>)) : extra \in Extras}
       \cup {Build(Wheel(v, <<>>), Sdist(v, <<[path |-> <<"root", "src", "module", "link">>,
                                               type |-> "link"]>>))}]
=============================================================================
