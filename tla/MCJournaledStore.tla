-------------------------- MODULE MCJournaledStore --------------------------
EXTENDS JournaledStore

OneWindow == {[from |-> 0, until |-> None]}
=============================================================================
