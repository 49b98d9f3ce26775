SPECIFICATION Spec
CONSTANTS
    Scenarios <- AllScenarios
    allow <- Allow
    allow_empty <- AllowEmpty
    get_content_spec <- ContentSpec
    content_spec_any <- AnySpec
    content_spec_element <- Elem
INVARIANT Sound
INVARIANT Justified
INVARIANT EntitiesNest
