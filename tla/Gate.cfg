SPECIFICATION Spec
CONSTANTS
    AllChecks = {"wrote_files", "lint"}
    AnyChecks = {"schema_valid", "covered"}
    Predicates = {"schema_valid"}
    Probed = {"lint", "covered"}
INVARIANTS GreenByTheGate GreenOverNoIsArgued
PROPERTIES AnsweredIsKept RaisedIsNeverGreen
