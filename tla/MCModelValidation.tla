------------------------- MODULE MCModelValidation --------------------------
EXTENDS ModelValidation, TLC

OneWindow == {[from |-> 0, until |-> None]}
MCVerdict == "good" :> "valid" @@ "bad" :> "invalid"
MCSources == {"good", "bad"}
=============================================================================
