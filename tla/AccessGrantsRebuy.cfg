\* Does every settled order leave its customer with the product?
SPECIFICATION AccessSpec
CONSTANTS
    Customers = {"c1"}
    Rungs = 1
    FunnelOrders = {"first", "second"}
    BuyerOf <- Buyer
    ProductOf <- Course
    Assets = {"book"}
    Manifest <- Shipped
    AccessTokenTtl = 1
    DownloadGrantTtl = 1
    MaxNow = 1
    MaxTokens = 1
    MaxLinks = 1
    None = None
CHECK_DEADLOCK FALSE
PROPERTIES
    GrantGivesAccess
