--------------------------- MODULE MCProjectSetup ---------------------------
(* A project in /repo/puffgres; .env files above, beside and below it, and  *)
(* in a directory that is not searched; block lists of several shapes.      *)
EXTENDS ProjectSetup

MCHome == <<"repo">>
WorkspaceRoots == {<<>>, <<"repo">>, <<"repo", "puffgres">>}

At(dir) == Append(dir, ".env")
File(dir, lines) == At(dir) :> lines
EnvsOf(above, beside, below) ==
  above @@ beside @@ below @@ File(<<"repo", "dist">>, <<<<"DATABASE_URL", "d5">>>>)
EnvFiles ==
  {EnvsOf(above, beside, below) :
     above \in {<<>>, File(<<>>, <<<<"TURBOPUFFER_API_KEY", "k1">>, <<"DATABASE_URL", "d1">>>>)},
     beside \in {<<>>, File(<<"repo">>, <<<<"DATABASE_URL", "d2">>, <<"DATABASE_URL", "d3">>>>),
                 File(<<"repo">>, <<<<"PUFFGRES_STATE_SCHEMA", "">>>>), File(<<"repo">>, Unreadable)},
     below \in {<<>>, File(<<"repo", "app">>, <<<<"DATABASE_URL", "d4">>, <<"TURBOPUFFER_API_KEY", "k4">>>>)}}

Shells == {Empty, [Empty EXCEPT !["DATABASE_URL"] = "d0"]}
Ignores == {None, {"mine", ".env"}}

Packages == Line("packages", 0, <<>>)
Item(indent, value) == Line("item", indent, value)
Manifests ==
  {<<>>,
   <<Packages>>,
   <<Line("inline", 0, <<>>)>>,
   <<Packages, Item(4, <<"a">>), Line("comment", 0, <<>>), Item(4, <<"b">>), Line("blank", 0, <<>>),
     Line("key", 0, <<>>), Item(2, <<"c">>)>>,
   <<Line("key", 0, <<>>), Item(2, <<"puffgres">>), Packages, Item(2, <<"a">>), Line("blank", 0, <<>>)>>,
   <<Packages, Item(2, <<"puffgres">>), Item(2, <<"a">>)>>,
   <<Packages, Item(0, <<"a">>)>>}

\* The files and the workspace do not touch each other: each varies beside one of the other.
Workspaces == {None} \cup [root : WorkspaceRoots, lines : Manifests]
World(files, shells, workspaces, ignores) ==
  [envs : files, shell : shells, workspace : workspaces, ignored : ignores]
MCWorlds ==
  World(EnvFiles, Shells, {None}, {None})
    \cup World({EnvsOf(<<>>, <<>>, <<>>)}, {Empty}, Workspaces, Ignores)
=============================================================================
