----------------------------- MODULE MCLauncher -----------------------------
(* Instances of Launcher: FINALPLAY17 (its own Box86, the installed game    *)
(* image) and FINALPLAY23 (a patched one), over the game image, Box86 and   *)
(* one DXVK target (two runs), or one run over these, a WineD3D renderer    *)
(* target and an audio module.                                              *)
EXTENDS Launcher, TLC

MCSymmetry == Permutations(Launchers)

MCRoutes == {"fp17", "fp23"}
MCTargets == {"exe", "box86", "d3d8"}
MCMoreTargets == MCTargets \cup {"wined3d", "dmsynth"}
MCContent(r, t) ==
  CASE t = "exe" -> IF r = "fp23" THEN "patched exe" ELSE "stock"
    [] t = "box86" -> IF r = "fp23" THEN "box86 fp26" ELSE "box86 fp21"
    [] t = "d3d8" -> "dxvk d3d8"
    [] t = "dmsynth" -> IF r = "fp23" THEN "dmsynth p38" ELSE "dmsynth p34"
    [] t = "wined3d" -> "stock"
MCBundle == [r \in MCRoutes |-> [t \in MCTargets |-> MCContent(r, t)]]
MCMoreBundle == [r \in MCRoutes |-> [t \in MCMoreTargets |-> MCContent(r, t)]]
MCImages == {"stock", "foreign"} \cup
            {MCContent(r, t) : r \in MCRoutes, t \in MCMoreTargets}
MCNoLegacy == <<>>
MCLegacyOrder == <<"wined3d">>
MCBindOrder == <<"box86", "d3d8">>
MCMoreBindOrder == <<"box86", "d3d8", "dmsynth">>
MCCleanupOrder == <<"d3d8", "box86", "exe">>
MCMoreCleanupOrder == <<"wined3d", "d3d8", "dmsynth", "box86", "exe">>

\* Nothing, or what WineD3D launchers left: a Box86, or a Box86 and two renderers.
MCStaleMounts ==
  LET Nothing == [t \in MCTargets |-> <<>>]
  IN {Nothing, [Nothing EXCEPT !["box86"] = <<"foreign">>]}
MCMoreStaleMounts ==
  LET Nothing == [t \in MCMoreTargets |-> <<>>]
  IN {Nothing, [Nothing EXCEPT !["wined3d"] = <<"foreign", "foreign">>,
                               !["box86"] = <<"foreign">>]}

MCKnobs == {"governor"}
MCSettings == {"user", "capped"}
MCCap == [k \in MCKnobs |-> "capped"]
MCRank == [k \in MCKnobs |-> 0]

=============================================================================
