------------------------------ MODULE MCPlugins ------------------------------
(* Instances of PluginManager for TLC.  a, b and c depend on each other as  *)
(* PluginA, PluginB and PluginC of tests/circular_dependent_plugins do, d   *)
(* and e wait for each other, as the plugins of the ring in                 *)
(* tests/dependent_plugins do, and f depends on a core plugin, ghost, that  *)
(* CORE_PLUGINS leaves out.                                                 *)
EXTENDS PluginManager

CONSTANTS a, b, c, d, e, f, ghost, w, good, bad

MCDeps ==
    [p \in Plugins |-> IF p = a THEN <<b, c>> ELSE IF p = b THEN <<c>>
                       ELSE IF p = d THEN <<e>> ELSE IF p = e THEN <<d>>
                       ELSE IF p = f THEN <<ghost>> ELSE << >>]

MCValid == (Plugins \X {None}) \cup {<<c, good>>}
=============================================================================
