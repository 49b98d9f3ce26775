SPECIFICATION Spec
CONSTANTS
    Setup <- Application
    Users <- People
    Paths <- Requested
    Methods = {"GET"}
    DefaultAllow = FALSE
    ValidateCsrf = TRUE
    Browsers = {b1}
    MaxTokens = 2
    MaxRestarts = 0
    None = none
PROPERTY FirstFormAccepted
