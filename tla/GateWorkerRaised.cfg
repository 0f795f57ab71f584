SPECIFICATION Spec
CONSTANTS
    AllChecks = {"schema_valid", "every_requirement_has_testable_ac"}
    AnyChecks = {}
    Predicates = {"schema_valid", "every_requirement_has_testable_ac"}
    Probed = {}
PROPERTY RaisedIsNeverGreen
