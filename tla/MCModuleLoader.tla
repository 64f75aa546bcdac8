--------------------------- MODULE MCModuleLoader ---------------------------
(***************************************************************************)
(* A main file with at most two `use` lines, two local files and a file in *)
(* a directory of the same name as one of them, a file of the library's    *)
(* first name, a file that does not parse, and a cut of the embedded       *)
(* library.                                                                *)
(***************************************************************************)
EXTENDS ModuleLoader

Decl(kind, name, mentions) == [kind |-> kind, name |-> name, mentions |-> mentions, path |-> <<>>]
Use(path) == [kind |-> "use", name |-> Last(path), mentions |-> {}, path |-> path]

MCLower == [n \in {"gum", "defaults", "a", "b", "c", "x", "y", "z"} |-> n]
             @@ ("X" :> "x") @@ ("Y" :> "y") @@ ("Z" :> "z") @@ ("Defaults" :> "defaults")

MCStd == (<<"gum", "defaults">>
            :> <<Decl("interface", "X", {}), Decl("class", "Y", {"x"}),
                 Decl("enum", "Z", {"Y"}), Decl("function", "b", {"Z"})>>)

FilesA ==
  { <<Decl("class", "X", {"y"}), Decl("class", "Y", {"Z"}), Decl("enum", "Z", {"X"})>>,
    <<Decl("class", "x", {"Y"}), Decl("class", "X", {}), Decl("function", "Y", {})>>,
    <<Decl("class", "X", {}), Decl("class", "Y", {"X"}), Decl("class", "X", {"Z"}), Decl("enum", "Z", {})>>,
    <<Use(<<"b">>), Decl("class", "X", {"Y"})>>,
    <<Use(<<"b", "Y">>), Use(<<"b", "z">>), Decl("interface", "X", {})>>,
    <<Use(<<"a">>), Decl("class", "Z", {})>>,
    <<Use(<<"gum", "defaults">>), Use(<<"a", "b">>), Decl("enum", "Y", {})>> }

FilesB ==
  { <<Decl("class", "Y", {"X"}), Decl("class", "X", {})>>,
    <<Use(<<"a">>), Decl("class", "Y", {})>>,
    <<Use(<<"a", "X">>), Use(<<"c">>), Decl("class", "Y", {})>> }

FileGum == <<Decl("class", "c", {"z"}), Decl("enum", "Z", {})>>

FileAB == <<Decl("enum", "X", {}), Use(<<"b", "Y">>)>>

MainPaths ==
  { <<"gum", "Defaults", "y">>, <<"gum", "defaults", "Z">>,
    <<"gum", "defaults", "c">>, <<"gum", "c">>, <<"gum">>, <<"a">>, <<"a", "X">>, <<"a", "b">>,
    <<"b">>, <<"c">> }

Mains ==
  { <<Decl("interface", "X", {})>> \o uses :
      uses \in {<<>>} \cup {<<Use(p)>> : p \in MainPaths}
                  \cup {<<Use(pq[1]), Use(pq[2])>> :
                             pq \in {r \in MainPaths \X MainPaths : r[1] # r[2]}} }

FileSystems ==
  { (<<"a">> :> a) @@ (<<"b">> :> b) @@ (<<"a", "b">> :> FileAB) @@ (<<"c">> :> Unparsable)
      @@ (<<"gum">> :> FileGum) :
      a \in FilesA, b \in FilesB }

MCPrograms == { [main |-> m, files |-> f] : m \in Mains, f \in FileSystems }
=============================================================================
