---------------------------- MODULE MCPluginsView ----------------------------
(* One repository and one folder, whose catalogues have different names    *)
(* and offer one plugin.                                                   *)
EXTENDS PluginsView, TLC
CONSTANTS repo, folder, market, shelf, dir, plugin
MCSources == {repo, folder}
MCCloned  == {repo}
MCKept    == {repo}
MCNameOf  == (repo :> market) @@ (folder :> shelf)
MCDirOf   == (repo :> dir)
MCOffers  == (repo :> {plugin}) @@ (folder :> {plugin})
=============================================================================
