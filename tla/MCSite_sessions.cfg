SPECIFICATION Spec
CONSTANTS
    Setup <- Application
    Users <- People
    Paths <- Requested
    Methods = {"GET", "POST", "HEAD", "OPTIONS", "DELETE", "PATCH"}
    DefaultAllow = FALSE
    ValidateCsrf = TRUE
    Browsers = {b1}
    MaxTokens = 2
    MaxRestarts = 1
    None = none
PROPERTY AccessAsConfigured
PROPERTY RightPage
PROPERTY LeadsBack
PROPERTY FormsAccepted
