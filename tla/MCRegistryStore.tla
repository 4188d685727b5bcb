-------------------------- MODULE MCRegistryStore ---------------------------
EXTENDS RegistryStore

MCVersions == 1 .. 3
\* Open and explicit ends, the explicit ones at and after a successor's start.
MixedWindows == {w \in [from : 0 .. 1, until : {None, 1, 2}] :
                     w.until \in {None, w.from + 1}}
OneWindow == {[from |-> 0, until |-> None]}
=============================================================================
