\* Files of up to nine characters, arriving in every way.
CONSTANT Texts <- MCTexts
SPECIFICATION Spec
INVARIANTS ScanInv PositionsOK HelpAsWritten
CHECK_DEADLOCK FALSE
