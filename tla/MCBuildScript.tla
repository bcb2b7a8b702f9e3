--------------------------- MODULE MCBuildScript ----------------------------
EXTENDS BuildScript

MCTargets == {{"linux"}, {"linux", "android"}, {"ios"}, {"wasm32"}}
=============================================================================
