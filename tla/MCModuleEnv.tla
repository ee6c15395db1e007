---------------------------- MODULE MCModuleEnv -----------------------------
EXTENDS ModuleEnv

CONSTANTS x, y, v, vf

\* The locals of a function.
MCFrameNames == <<x, y>>
=============================================================================
