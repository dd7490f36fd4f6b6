\* One administrator, failing calls, a restart, one response.
CONSTANTS
    Million = 4
    Half = 32
    Admins = {a1}
    Models <- MCModels
    Prices <- MCPrices
    Defaults <- MCDefaults
    Markups <- MCMarkups
    EnvMarkup <- MCMarkup
    MaxRestarts = 1
    DbMayFail = TRUE
    Resps = {r1}
    Letters <- MCLetters
    Names <- MCNames
    Reports <- MCReports
    Written <- MCWritten
    DefaultPrice <- MCDefaultPrice
    None = None
SPECIFICATION PricedSpec
INVARIANTS
    PricedAsConfigured
    ReceiptExplainsCost
    QuoteIsTight
    PricedInv
